------------------------- MODULE SyncSessionProofs -------------------------
(***************************************************************************)
(* What SyncSession promises for every number of threads, handlers,        *)
(* commits and deaths.                                                     *)
(***************************************************************************)
EXTENDS SyncSession, TLAPS

-----------------------------------------------------------------------------
(***************************************************************************)
(* Types.                                                                  *)
(***************************************************************************)
LEMMA DyingType ==
  ASSUME NEW r \in SessionMembers
  PROVE  Dying(r) \in SessionMembers
<1>1. r.deathWaits \cup {[number |-> r.deaths + 1, upTo |-> r.announced]} \in SUBSET Death
  BY DEF SessionMembers, Death
<1>2. r.deaths + 1 \in Nat
  BY DEF SessionMembers
<1> QED BY <1>1, <1>2 DEF Dying, SessionMembers

LEMMA InactiveType ==
  ASSUME NEW r \in SessionMembers
  PROVE  Inactive(r) \in SessionMembers
<1>1. {[d EXCEPT !.upTo = 0] : d \in r.deathWaits} \subseteq Death
  BY DEF SessionMembers, Death
<1> QED BY <1>1 DEF Inactive, SessionMembers

LEMMA ActivatedType ==
  ASSUME NEW r \in SessionMembers, version \in Nat
  PROVE  Activated(r) \in SessionMembers
BY DEF Activated, SessionMembers

LEMMA WaitingType ==
  ASSUME NEW r \in SessionMembers
  PROVE  WaitingForToken(r) \in SessionMembers
BY DEF WaitingForToken, SessionMembers

LEMMA GoesType ==
  ASSUME TypeOK, NEW t \in Anyone, NEW label \in Label, Goes(t, label)
  PROVE  thread' \in [Anyone -> ThreadState]
<1>1. Moved(thread[t], label) \in ThreadState
  <2>1. thread[t] \in ThreadState
    BY DEF TypeOK
  <2>2. CASE label = "idle"
    BY <2>1, <2>2 DEF Moved, ThreadState, ErrorKind
  <2>3. CASE label # "idle"
    BY <2>1, <2>3 DEF Moved, ThreadState, ErrorKind
  <2> QED BY <2>2, <2>3
<1> QED BY <1>1 DEF Goes, TypeOK

LEMMA GoesThenType ==
  ASSUME TypeOK, NEW t \in Anyone, NEW label \in Label, NEW next \in Label,
         GoesThen(t, label, next)
  PROVE  thread' \in [Anyone -> ThreadState]
<1>1. [thread[t] EXCEPT !.pc = label, !.error = "none", !.then = next] \in ThreadState
  BY DEF TypeOK, ThreadState, ErrorKind
<1> QED BY <1>1 DEF TypeOK, GoesThen

LEMMA BecomesInactiveType ==
  ASSUME TypeOK, NEW t \in Anyone, NEW next \in Label, BecomesInactive(t, next)
  PROVE  /\ s' \in SessionMembers
         /\ thread' \in [Anyone -> ThreadState]
         /\ failed' \in {"none", "advance_state", "unregister_session"}
<1>1. s' \in SessionMembers
  BY InactiveType DEF BecomesInactive, TypeOK
<1>2. thread' \in [Anyone -> ThreadState]
  <2>1. thread[t].aborting \cup s.packages \in SUBSET Handler
    BY DEF TypeOK, SessionMembers, ThreadState
  <2> QED BY <2>1 DEF BecomesInactive, TypeOK, ThreadState, Label, ErrorKind
<1> QED BY <1>1, <1>2 DEF BecomesInactive

LEMMA LogOutType ==
  ASSUME TypeOK, NEW t \in Anyone, NEW next \in Label, LogOutSession(t, next)
  PROVE  /\ s' \in SessionMembers
         /\ thread' \in [Anyone -> ThreadState]
         /\ failed' \in {"none", "advance_state", "unregister_session"}
<1>1. CASE BecomesInactive(t, next)
  BY <1>1, BecomesInactiveType
<1>2. CASE Goes(t, next) /\ UNCHANGED <<s, failed>>
  BY <1>2, GoesType DEF TypeOK
<1> QED BY <1>1, <1>2 DEF LogOutSession

LEMMA CloseType ==
  ASSUME TypeOK, NEW t \in Anyone, NEW next \in Label, CloseSession(t, next)
  PROVE  /\ s' \in SessionMembers
         /\ thread' \in [Anyone -> ThreadState]
         /\ failed' \in {"none", "advance_state", "unregister_session"}
<1>1. CASE s' = [s EXCEPT !.deferredClose = TRUE] /\ Goes(t, next) /\ UNCHANGED failed
  BY <1>1, GoesType DEF TypeOK, SessionMembers
<1>2. CASE BecomesInactive(t, next)
  BY <1>2, BecomesInactiveType
<1>3. CASE s' = Dying(s) /\ Goes(t, next) /\ UNCHANGED failed
  BY <1>3, GoesType, DyingType DEF TypeOK
<1>4. CASE Goes(t, next) /\ UNCHANGED <<s, failed>>
  BY <1>4, GoesType DEF TypeOK
<1>5. CASE GoesThen(t, "unregistering", next) /\ UNCHANGED <<s, failed>>
  BY <1>5, GoesThenType, "unregistering" \in Label DEF TypeOK, Label
<1> QED BY <1>1, <1>2, <1>3, <1>4, <1>5 DEF CloseSession

LEMMA InitTypeOK == Init => TypeOK
<1> SUFFICES ASSUME Init PROVE TypeOK
  OBVIOUS
<1>1. s \in SessionMembers /\ user \in [state : {"active", "loggedOut", "error"},
                                       listed : {"none", "sessions", "waiting"}]
  BY DEF Init, SessionMembers
<1>2. thread \in [Anyone -> ThreadState]
  BY DEF Init, ThreadState, Label, ErrorKind
<1> QED BY <1>1, <1>2 DEF Init, Request, TypeOK

\* The steps a thread takes on its own accord.
LEMMA ContinueTypeOK ==
  ASSUME TypeOK, NEW t \in Anyone, Continue(t)
  PROVE  TypeOK'
<1> USE DEF data, locks
<1>0. thread[t].then \in Label
  BY DEF TypeOK, ThreadState
<1> DEFINE UserType == [state : {"active", "loggedOut", "error"},
                        listed : {"none", "sessions", "waiting"}]
<1>1. CASE RegisterSession(t)
  <2>1. user' \in UserType
    BY <1>1 DEF RegisterSession, TypeOK
  <2>2. thread' \in [Anyone -> ThreadState]
    BY <1>1, GoesType, GoesThenType DEF RegisterSession, Label
  <2> QED BY <1>1, <2>1, <2>2 DEF RegisterSession, TypeOK
<1>2. CASE Revive(t)
  <2>1. s' \in SessionMembers
    BY <1>2, ZenonT(30) DEF Revive, WaitingForToken, TypeOK, SessionMembers
  <2>2. thread' \in [Anyone -> ThreadState]
    BY <1>2, <1>0, GoesType DEF Revive, Label
  <2> QED BY <1>2, <2>1, <2>2 DEF Revive, TypeOK
<1>3. CASE Ask(t)
  <2>1. thread' \in [Anyone -> ThreadState]
    BY <1>3, <1>0, GoesType DEF Ask
  <2> QED BY <1>3, <2>1 DEF Ask, Request, TypeOK
<1>4. CASE Refer(t)
  <2>1. thread' \in [Anyone -> ThreadState]
    BY <1>4, GoesType DEF Refer, Label
  <2> QED BY <1>4, <2>1 DEF Refer, TypeOK
<1>5. CASE DidDrop(t)
  <2>1. /\ s' \in SessionMembers
        /\ thread' \in [Anyone -> ThreadState]
        /\ failed' \in {"none", "advance_state", "unregister_session"}
    BY <1>5, GoesType, CloseType DEF DidDrop, Label, TypeOK
  <2> QED BY <1>5, <2>1 DEF DidDrop, TypeOK
<1>6. CASE Release(t)
  <2>1. thread' \in [Anyone -> ThreadState]
    BY <1>6, GoesType DEF Release, Label
  <2> QED BY <1>6, <2>1 DEF Release, TypeOK
<1>7. CASE Unregister(t)
  <2>1. thread' \in [Anyone -> ThreadState]
    BY <1>7, GoesType DEF Unregister, Label
  <2>2. holders' \in SUBSET (Anyone \cup {App}) /\ managerLock' \in Anyone \cup {NoThread}
    BY <1>7 DEF Unregister, TypeOK
  <2> QED BY <1>7, <2>1, <2>2 DEF Unregister, TypeOK
<1>8. CASE Peek(t)
  <2>1. /\ s' \in SessionMembers
        /\ thread' \in [Anyone -> ThreadState]
        /\ failed' \in {"none", "advance_state", "unregister_session"}
    BY <1>8, GoesType, CloseType DEF Peek, Label, TypeOK
  <2> QED BY <1>8, <2>1 DEF Peek, TypeOK
<1>9. CASE Leave(t)
  <2>1. thread' \in [Anyone -> ThreadState]
    BY <1>9, GoesType DEF Leave, Label
  <2> QED BY <1>9, <2>1 DEF Leave, TypeOK
<1>10. CASE Inform(t)
  <2> DEFINE T == [thread[t] EXCEPT !.pc = thread[t].then, !.then = "idle", !.aborting = {}]
  <2>1. T \in ThreadState
    BY ZenonT(30) DEF TypeOK, ThreadState, Label
  <2>2. thread' = [thread EXCEPT ![t] = T] /\ thread \in [Anyone -> ThreadState]
    BY <1>10 DEF Inform, TypeOK
  <2>3. thread' \in [Anyone -> ThreadState]
    <3> HIDE DEF T
    <3> QED BY <2>1, <2>2
  <2>4. called' \in [Handler -> Nat]
    BY <1>10 DEF Inform, TypeOK
  <2> QED BY <1>10, <2>3, <2>4 DEF Inform, TypeOK
<1>11. CASE LogOutOfSession(t)
  <2>1. /\ s' \in SessionMembers
        /\ thread' \in [Anyone -> ThreadState]
        /\ failed' \in {"none", "advance_state", "unregister_session"}
    BY <1>11, LogOutType DEF LogOutOfSession, Label
  <2> QED BY <1>11, <2>1 DEF LogOutOfSession, TypeOK
<1>12. CASE LoggedOut(t)
  <2>1. thread' \in [Anyone -> ThreadState]
    BY <1>12, GoesType DEF LoggedOut, Label
  <2> QED BY <1>12, <2>1 DEF LoggedOut, TypeOK
<1>13. CASE Update(t)
  <2>1. /\ s' \in SessionMembers
        /\ thread' \in [Anyone -> ThreadState]
        /\ failed' \in {"none", "advance_state", "unregister_session"}
    BY <1>13, BecomesInactiveType, GoesThenType DEF Update, Label, TypeOK
  <2> QED BY <1>13, <2>1 DEF Update, TypeOK
<1>14. CASE Invalidate(t)
  <2>1. thread' \in [Anyone -> ThreadState]
    BY <1>14, GoesType DEF Invalidate, Label
  <2> QED BY <1>14, <2>1 DEF Invalidate, TypeOK
<1> QED
  BY <1>1, <1>2, <1>3, <1>4, <1>5, <1>6, <1>7, <1>8, <1>9, <1>10, <1>11,
     <1>12, <1>13, <1>14 DEF Continue

\* The calls of the application and the binding.
LEMMA CallTypeOK ==
  ASSUME TypeOK, NEW t \in Anyone, Call(t)
  PROVE  TypeOK'
<1> USE DEF data, locks
<1> DEFINE UserType == [state : {"active", "loggedOut", "error"},
                        listed : {"none", "sessions", "waiting"}]
<1>1. CASE GetSession(t)
  <2>1. thread' \in [Anyone -> ThreadState]
    BY <1>1, GoesType DEF GetSession, Label
  <2> QED BY <1>1, <2>1 DEF GetSession, TypeOK
<1>2. CASE Drop(t)
  <2>1. thread' \in [Anyone -> ThreadState]
    BY <1>2, GoesType DEF Drop, Label
  <2> QED BY <1>2, <2>1 DEF Drop, TypeOK
<1>3. CASE LogOut(t)
  <2>1. user' \in UserType
    BY <1>3 DEF LogOut, TypeOK
  <2>2. thread' \in [Anyone -> ThreadState]
    BY <1>3, GoesType DEF LogOut, Label, TypeOK
  <2> QED BY <1>3, <2>1, <2>2 DEF LogOut, TypeOK
<1>4. CASE LogIn(t)
  <2>1. user' \in UserType
    BY <1>4 DEF LogIn, TypeOK
  <2>2. thread' \in [Anyone -> ThreadState]
    BY <1>4, GoesThenType DEF LogIn, Label, TypeOK
  <2> QED BY <1>4, <2>1, <2>2 DEF LogIn, TypeOK
<1>5. CASE Suspend(t)
  <2>1. /\ s' \in SessionMembers
        /\ thread' \in [Anyone -> ThreadState]
        /\ failed' \in {"none", "advance_state", "unregister_session"}
    BY <1>5, LogOutType DEF Suspend, Label
  <2> QED BY <1>5, <2>1 DEF Suspend, Locks, TypeOK
<1>6. CASE Resume(t)
  <2>1. thread' \in [Anyone -> ThreadState]
    BY <1>6, GoesThenType DEF Resume, Label
  <2> QED BY <1>6, <2>1 DEF Resume, Locks, TypeOK
<1>7. CASE Commit(t)
  <2>1. s' \in SessionMembers /\ version' \in Nat
    BY <1>7 DEF Commit, TypeOK, SessionMembers
  <2> QED BY <1>7, <2>1 DEF Commit, TypeOK
<1>8. CASE UpdateConfiguration(t)
  <2>1. thread' \in [Anyone -> ThreadState]
    BY <1>8, GoesType DEF UpdateConfiguration, Label
  <2> QED BY <1>8, <2>1 DEF UpdateConfiguration, TypeOK
<1>9. CASE Reconnect(t) \/ TokenDelayed \/ TokenLost
  BY <1>9 DEF Reconnect, TokenDelayed, TokenLost, Request, TypeOK
<1>10. CASE RefreshAccessToken(t)
  <2>1. s \in SessionMembers /\ version \in Nat
    BY DEF TypeOK
  <2>2. s' \in SessionMembers
    BY <1>10, <2>1, ActivatedType, DyingType DEF RefreshAccessToken
  <2> QED BY <1>10, <2>2 DEF RefreshAccessToken, Request, TypeOK
<1>11. CASE TokenRefused(t)
  <2>1. /\ s' \in SessionMembers
        /\ thread' \in [Anyone -> ThreadState]
        /\ failed' \in {"none", "advance_state", "unregister_session"}
    BY <1>11, LogOutType DEF TokenRefused, Label
  <2> QED BY <1>11, <2>1 DEF TokenRefused, Request, TypeOK
<1>12. CASE \E h \in Handler : WaitFor(t, h)
  <2>1. PICK h \in Handler : WaitFor(t, h)
    BY <1>12
  <2>2. s' \in SessionMembers /\ given' \in SUBSET Handler
    BY <2>1 DEF WaitFor, TypeOK, SessionMembers
  <2> QED BY <2>1, <2>2 DEF WaitFor, TypeOK
<1> QED
  BY <1>1, <1>2, <1>3, <1>4, <1>5, <1>6, <1>7, <1>8, <1>9, <1>10, <1>11, <1>12
  DEF Call

\* The steps of the sync client's thread.
LEMMA ClientCallTypeOK ==
  ASSUME TypeOK, ClientCall
  PROVE  TypeOK'
<1> USE DEF data, locks
<1>0. Client \in Anyone
  BY DEF Anyone
<1>1. CASE Upload
  BY <1>1 DEF Upload, TypeOK
<1>2. CASE HandleError
  <2>1. /\ s' \in SessionMembers
        /\ thread' \in [Anyone -> ThreadState]
        /\ failed' \in {"none", "advance_state", "unregister_session"}
    <3>1. CASE s' = WaitingForToken(s) /\ GoesThen(Client, "asking", "idle")
               /\ UNCHANGED failed
      BY <3>1, <1>0, WaitingType, GoesThenType DEF TypeOK, Label
    <3>2. CASE Goes(Client, "idle") /\ UNCHANGED <<s, failed>>
      BY <3>2, <1>0, GoesType DEF TypeOK, Label
    <3>3. CASE BecomesInactive(Client, "idle")
      BY <3>3, <1>0, BecomesInactiveType DEF Label
    <3>4. CASE /\ s' = [s EXCEPT !.packages = {}]
               /\ \E next \in {"idle", "invalidating"} :
                    thread' = [thread EXCEPT ![Client] =
                      [pc |-> "informing", aborting |-> s.packages, error |-> "none",
                       then |-> next]]
               /\ UNCHANGED failed
      BY <3>4, <1>0 DEF TypeOK, SessionMembers, ThreadState, Label, ErrorKind
    <3> QED BY <1>2, <3>1, <3>2, <3>3, <3>4 DEF HandleError
  <2> QED BY <1>2, <2>1 DEF HandleError, TypeOK
<1>3. CASE \E h \in Handler : Complete(h)
  <2>1. PICK h \in Handler : Complete(h)
    BY <1>3
  <2>2. s' \in SessionMembers /\ called' \in [Handler -> Nat]
    BY <2>1 DEF Complete, TypeOK, SessionMembers
  <2> QED BY <2>1, <2>2 DEF Complete, TypeOK
<1>4. CASE \E d \in s.deathWaits : DeathCompletes(d)
  <2>1. PICK d \in s.deathWaits : DeathCompletes(d)
    BY <1>4
  <2> DEFINE rest == [s EXCEPT !.deathWaits = @ \ {d}]
  <2>2. rest \in SessionMembers
    BY DEF TypeOK, SessionMembers
  <2>3. s' \in SessionMembers
    <3>1. s' = Inactive(rest) \/ s' = rest
      BY <2>1 DEF DeathCompletes
    <3> HIDE DEF rest
    <3> QED BY <3>1, <2>2, InactiveType
  <2>4. thread' \in [Anyone -> ThreadState]
    <3>1. [pc |-> "unregistering", then |-> "idle", aborting |-> s.packages,
           error |-> "none"] \in ThreadState
      BY DEF TypeOK, SessionMembers, ThreadState, Label, ErrorKind
    <3>2. thread' = thread \/ thread' = [thread EXCEPT ![Client] =
            [pc |-> "unregistering", then |-> "idle", aborting |-> s.packages,
             error |-> "none"]]
      BY <2>1 DEF DeathCompletes
    <3> QED BY <3>1, <3>2 DEF TypeOK
  <2> QED BY <2>1, <2>3, <2>4 DEF DeathCompletes, TypeOK
<1>5. CASE \E e \in ErrorKind \ {"none"} : Error(e)
  <2>1. PICK e \in ErrorKind \ {"none"} : Error(e)
    BY <1>5
  <2>2. CASE BecomesInactive(Client, "idle")
    <3>1. /\ s' \in SessionMembers
          /\ thread' \in [Anyone -> ThreadState]
          /\ failed' \in {"none", "advance_state", "unregister_session"}
      BY <2>2, <1>0, BecomesInactiveType DEF Label
    <3> QED BY <2>1, <3>1 DEF Error, TypeOK
  <2>3. CASE /\ thread' = [thread EXCEPT ![Client] = [@ EXCEPT !.pc = "failing", !.error = e]]
             /\ UNCHANGED <<s, failed>>
    <3>1. [thread[Client] EXCEPT !.pc = "failing", !.error = e] \in ThreadState
      BY <1>0, ZenonT(30) DEF TypeOK, ThreadState, Label
    <3>2. thread' \in [Anyone -> ThreadState]
      BY <2>3, <3>1 DEF TypeOK
    <3> QED BY <2>1, <2>3, <3>2 DEF Error, TypeOK
  <2> QED BY <2>1, <2>2, <2>3 DEF Error
<1> QED BY <1>1, <1>2, <1>3, <1>4, <1>5 DEF ClientCall

LEMMA NextTypeOK == TypeOK /\ [Next]_vars => TypeOK'
<1> SUFFICES ASSUME TypeOK, [Next]_vars PROVE TypeOK'
  OBVIOUS
<1>1. CASE \E t \in Thread : Call(t)
  BY <1>1, CallTypeOK DEF Anyone
<1>2. CASE \E t \in Anyone : Continue(t)
  BY <1>2, ContinueTypeOK
<1>3. CASE ClientCall
  BY <1>3, ClientCallTypeOK
<1>4. CASE UNCHANGED vars
  BY <1>4 DEF vars, TypeOK
<1> QED BY <1>1, <1>2, <1>3, <1>4 DEF Next

\* The type invariant of the session, its manager, its user and its threads
\* holds in every behaviour, whoever calls what.
THEOREM SyncTypes == Spec => []TypeOK
<1>1. Init => TypeOK
  BY InitTypeOK
<1>2. TypeOK /\ [Next]_vars => TypeOK'
  BY NextTypeOK
<1> QED BY <1>1, <1>2, PTL DEF Spec

-----------------------------------------------------------------------------
(***************************************************************************)
(* A session that is active has a sync::Session.  Every step but these     *)
(* leaves the session's members alone.                                     *)
(***************************************************************************)
Fits(r) ==
  /\ r.state \in {"active", "dying"} => r.session
  /\ r.state = "inactive" => ~r.session

LEMMA InactiveFits ==
  ASSUME NEW r \in SessionMembers
  PROVE  Fits(Inactive(r))
BY DEF Fits, Inactive, SessionMembers

LEMMA ActivatedFits ==
  ASSUME NEW r \in SessionMembers
  PROVE  /\ Fits(Activated(r)) /\ Fits(Dying(Activated(r)))
         /\ Activated(r).state = "active"
BY DEF Fits, Activated, Dying, SessionMembers

LEMMA LogOutFits ==
  ASSUME TypeOK, SessionFitsState, NEW t \in Anyone, NEW next, LogOutSession(t, next)
  PROVE  SessionFitsState'
<1>1. CASE s' = Inactive(s)
  BY <1>1, InactiveFits DEF TypeOK, Fits, SessionFitsState
<1>2. CASE s' = s
  BY <1>2 DEF SessionFitsState
<1> QED BY <1>1, <1>2 DEF LogOutSession, BecomesInactive

LEMMA CloseFits ==
  ASSUME TypeOK, SessionFitsState, NEW t \in Anyone, NEW next, CloseSession(t, next)
  PROVE  SessionFitsState'
<1>0. s \in SessionMembers
  BY DEF TypeOK
<1>1. CASE s' = Inactive(s)
  BY <1>0, <1>1, InactiveFits DEF Fits, SessionFitsState
<1>2. CASE s' = s
  BY <1>2 DEF SessionFitsState
<1>3. CASE s' = [s EXCEPT !.deferredClose = TRUE]
  BY <1>0, <1>3 DEF SessionFitsState, SessionMembers
<1>4. CASE s.state = "active" /\ s' = Dying(s)
  BY <1>0, <1>4 DEF SessionFitsState, Dying, SessionMembers
<1> QED BY <1>1, <1>2, <1>3, <1>4 DEF CloseSession, BecomesInactive

LEMMA NextFits == TypeOK /\ SessionFitsState /\ [Next]_vars => SessionFitsState'
<1> SUFFICES ASSUME TypeOK, SessionFitsState, [Next]_vars PROVE SessionFitsState'
  OBVIOUS
<1>0. s \in SessionMembers /\ Client \in Anyone /\ Thread \subseteq Anyone
  BY DEF TypeOK, Anyone
<1>1. CASE UNCHANGED s
  BY <1>1 DEF SessionFitsState
<1>2. ASSUME NEW t \in Anyone, Revive(t) PROVE SessionFitsState'
  BY <1>0, <1>2 DEF Revive, WaitingForToken, SessionFitsState, SessionMembers
<1>3. ASSUME NEW t \in Anyone, DidDrop(t) \/ Peek(t) PROVE SessionFitsState'
  BY <1>1, <1>3, CloseFits DEF DidDrop, Peek
<1>4. ASSUME NEW t \in Anyone, LogOutOfSession(t) \/ Suspend(t) \/ TokenRefused(t)
      PROVE  SessionFitsState'
  BY <1>4, LogOutFits DEF LogOutOfSession, Suspend, TokenRefused
<1>5. ASSUME NEW t \in Anyone, Update(t) PROVE SessionFitsState'
  BY <1>0, <1>1, <1>5, InactiveFits
  DEF Update, BecomesInactive, Fits, SessionFitsState
<1>6. ASSUME NEW t \in Anyone, Commit(t) PROVE SessionFitsState'
  BY <1>0, <1>6 DEF Commit, SessionFitsState, SessionMembers
<1>7. ASSUME NEW t \in Anyone, RefreshAccessToken(t) PROVE SessionFitsState'
  BY <1>0, <1>7, ActivatedFits DEF RefreshAccessToken, Fits, SessionFitsState
<1>8. ASSUME NEW t \in Anyone, NEW h \in Handler, WaitFor(t, h) PROVE SessionFitsState'
  BY <1>0, <1>8 DEF WaitFor, SessionFitsState, SessionMembers
<1>9. ASSUME NEW h \in Handler, Complete(h) PROVE SessionFitsState'
  BY <1>0, <1>9 DEF Complete, SessionFitsState, SessionMembers
<1>10. ASSUME NEW d \in s.deathWaits, DeathCompletes(d) PROVE SessionFitsState'
  <2> DEFINE rest == [s EXCEPT !.deathWaits = @ \ {d}]
  <2>1. rest \in SessionMembers /\ (SessionFitsState => Fits(rest))
    BY <1>0 DEF SessionMembers, Fits, SessionFitsState
  <2>2. s' = Inactive(rest) \/ s' = rest
    BY <1>10 DEF DeathCompletes
  <2> HIDE DEF rest
  <2> QED BY <2>1, <2>2, InactiveFits DEF Fits, SessionFitsState
<1>11. ASSUME NEW e \in ErrorKind, Error(e) PROVE SessionFitsState'
  BY <1>0, <1>1, <1>11, InactiveFits DEF Error, BecomesInactive, Fits, SessionFitsState
<1>12. CASE HandleError
  <2>1. CASE s' = WaitingForToken(s)
    BY <1>0, <2>1 DEF WaitingForToken, SessionFitsState, SessionMembers
  <2>2. CASE s' = [s EXCEPT !.packages = {}]
    BY <1>0, <2>2 DEF SessionFitsState, SessionMembers
  <2> QED
    BY <1>0, <1>1, <1>12, <2>1, <2>2, InactiveFits
    DEF HandleError, BecomesInactive, Fits, SessionFitsState
<1>13. ASSUME NEW t \in Anyone, Continue(t) PROVE SessionFitsState'
  BY <1>1, <1>2, <1>3, <1>4, <1>5, <1>13
  DEF Continue, RegisterSession, Ask, Refer, Release, Unregister, Leave, Inform,
      LoggedOut, Invalidate
<1>14. ASSUME NEW t \in Anyone, Call(t) PROVE SessionFitsState'
  BY <1>1, <1>4, <1>6, <1>7, <1>8, <1>14
  DEF Call, GetSession, Drop, LogOut, LogIn, Resume, UpdateConfiguration, Reconnect,
      TokenDelayed, TokenLost
<1>15. CASE ClientCall
  BY <1>1, <1>9, <1>10, <1>11, <1>12, <1>15 DEF ClientCall, Upload
<1>16. CASE UNCHANGED vars
  BY <1>1, <1>16 DEF vars
<1> QED BY <1>0, <1>13, <1>14, <1>15, <1>16 DEF Next

\* No thread uses a sync::Session that is not there: an active and a dying
\* session have one, an inactive one has given it up.
THEOREM SyncSessionIsThere == Spec => []SessionFitsState
<1>1. Init => SessionFitsState
  BY DEF Init, SessionFitsState
<1>2. TypeOK /\ SessionFitsState /\ [Next]_vars => SessionFitsState'
  BY NextFits
<1> QED BY <1>1, <1>2, SyncTypes, PTL DEF Spec

-----------------------------------------------------------------------------
(***************************************************************************)
(* How a step moves the thread that takes it.                              *)
(***************************************************************************)
OthersStay(t) == \A u \in Anyone \ {t} : thread'[u] = thread[u]

LEMMA GoesMoves ==
  ASSUME TypeOK, NEW t \in Anyone, NEW label, Goes(t, label)
  PROVE  /\ OthersStay(t)
         /\ thread'[t].pc = label
         /\ thread'[t].then = IF label = "idle" THEN "idle" ELSE thread[t].then
         /\ thread'[t].aborting = thread[t].aborting
<1>1. thread' = [thread EXCEPT ![t] = Moved(thread[t], label)] /\ thread \in [Anyone -> ThreadState]
  BY DEF Goes, TypeOK
<1>2. OthersStay(t) /\ thread'[t] = Moved(thread[t], label) /\ thread[t] \in ThreadState
  BY <1>1 DEF OthersStay
<1>3. CASE label = "idle"
  BY <1>2, <1>3 DEF Moved, ThreadState
<1>4. CASE label # "idle"
  BY <1>2, <1>4 DEF Moved, ThreadState
<1> QED BY <1>2, <1>3, <1>4

LEMMA GoesThenMoves ==
  ASSUME TypeOK, NEW t \in Anyone, NEW label, NEW next, GoesThen(t, label, next)
  PROVE  /\ OthersStay(t)
         /\ thread'[t].pc = label
         /\ thread'[t].then = next
         /\ thread'[t].aborting = thread[t].aborting
BY DEF GoesThen, OthersStay, TypeOK, ThreadState

LEMMA BecomesInactiveMoves ==
  ASSUME TypeOK, NEW t \in Anyone, NEW next, BecomesInactive(t, next)
  PROVE  /\ OthersStay(t)
         /\ thread'[t].pc = "unregistering"
         /\ thread'[t].then = next
         /\ thread'[t].aborting = thread[t].aborting \cup s.packages
BY DEF BecomesInactive, OthersStay, TypeOK, ThreadState

\* The states' log_out and close go on to "next", or unregister the session
\* and then go on to it.
MovesOn(t, next) ==
  /\ OthersStay(t)
  /\ \/ /\ thread'[t].pc = next
        /\ thread'[t].then = IF next = "idle" THEN "idle" ELSE thread[t].then
     \/ thread'[t].pc = "unregistering" /\ thread'[t].then = next

LEMMA LogOutMoves ==
  ASSUME TypeOK, NEW t \in Anyone, NEW next, LogOutSession(t, next)
  PROVE  MovesOn(t, next)
BY GoesMoves, BecomesInactiveMoves DEF LogOutSession, MovesOn

LEMMA CloseMoves ==
  ASSUME TypeOK, NEW t \in Anyone, NEW next, CloseSession(t, next)
  PROVE  MovesOn(t, next)
<1>1. CASE Goes(t, next)
  BY <1>1, GoesMoves DEF MovesOn
<1>2. CASE GoesThen(t, "unregistering", next)
  BY <1>2, GoesThenMoves DEF MovesOn
<1>3. CASE BecomesInactive(t, next)
  BY <1>3, BecomesInactiveMoves DEF MovesOn
<1> QED BY <1>1, <1>2, <1>3 DEF CloseSession

-----------------------------------------------------------------------------
(***************************************************************************)
(* Who holds m_session_mutex, and that the manager has the session then.   *)
(***************************************************************************)
\* Where a thread goes when it has done what it was sent to do.
Nexts == {"idle", "referring", "releasing", "leaving", "loggedOut", "updating",
          "invalidating"}

\* Thread t has the mutex where its code holds the lock.
Locked(t) ==
  /\ thread[t].then \in Nexts
  /\ thread[t].pc \in {"registering", "referring", "peeking", "leaving"} => managerLock = t
  /\ thread[t].then = "leaving" => thread[t].pc = "unregistering" /\ managerLock = t
  /\ thread[t].then = "referring" =>
       thread[t].pc \in {"reviving", "asking", "referring"} /\ managerLock = t

ManagerInv ==
  /\ managerLock # NoThread => entry
  /\ \A t \in Anyone : Locked(t)
  /\ HeldIsRegistered

\* The others keep the mutex when t takes it or gives it back.
LEMMA OthersLocked ==
  ASSUME NEW t \in Anyone, \A u \in Anyone : Locked(u), OthersStay(t), Locked(t)',
         managerLock' = managerLock \/ managerLock \in {NoThread, t}
  PROVE  \A u \in Anyone : Locked(u)'
<1> SUFFICES ASSUME NEW u \in Anyone \ {t} PROVE Locked(u)'
  OBVIOUS
<1>1. Locked(u) /\ thread'[u] = thread[u] /\ u # NoThread
  BY ThreadsAssumption DEF OthersStay, Anyone
<1> QED BY <1>1 DEF Locked

\* A thread that goes on under the same locks.
LEMMA MovesOnLocked ==
  ASSUME NEW t \in Anyone, NEW next \in Nexts, ManagerInv, MovesOn(t, next),
         thread[t].then \notin {"leaving", "referring"},
         next \in {"leaving", "referring"} => managerLock = t /\ next = "leaving",
         UNCHANGED <<entry, managerLock>>, holders' # {} => entry
  PROVE  ManagerInv'
<1>1. Locked(t)'
  BY DEF MovesOn, Locked, ManagerInv, Nexts
<1>2. \A u \in Anyone : Locked(u)'
  BY <1>1, OthersLocked DEF ManagerInv, MovesOn
<1> QED BY <1>2 DEF ManagerInv, HeldIsRegistered

LEMMA ContinueManager ==
  ASSUME TypeOK, ManagerInv, NEW t \in Anyone, Continue(t)
  PROVE  ManagerInv'
<1> USE DEF data, locks
<1>0. t # NoThread /\ Locked(t)
  BY ThreadsAssumption DEF ManagerInv, Anyone
<1>1. CASE RegisterSession(t)
  <2>1. managerLock = t /\ thread[t].then \notin {"leaving", "referring"}
    BY <1>0, <1>1 DEF RegisterSession, At, Locked
  <2>2. OthersStay(t) /\ Locked(t)'
    BY <1>0, <1>1, <2>1, GoesMoves, GoesThenMoves DEF RegisterSession, Locked, Nexts
  <2> QED BY <1>1, <2>2, OthersLocked DEF RegisterSession, ManagerInv, HeldIsRegistered
<1>2. CASE Revive(t)
  <2>1. OthersStay(t) /\ Locked(t)'
    BY <1>0, <1>2, GoesMoves DEF Revive, At, Locked, Nexts
  <2> QED BY <1>2, <2>1, OthersLocked DEF Revive, ManagerInv, HeldIsRegistered
<1>3. CASE Ask(t)
  <2>1. OthersStay(t) /\ Locked(t)'
    BY <1>0, <1>3, GoesMoves DEF Ask, At, Locked, Nexts
  <2> QED BY <1>3, <2>1, OthersLocked DEF Ask, ManagerInv, HeldIsRegistered
<1>4. CASE Refer(t)
  <2>1. managerLock = t /\ entry
    BY <1>0, <1>4 DEF Refer, At, Locked, ManagerInv
  <2>2. OthersStay(t) /\ Locked(t)'
    BY <1>0, <1>4, GoesMoves DEF Refer, At, Locked, Nexts
  <2> QED BY <1>4, <2>1, <2>2, OthersLocked DEF Refer, ManagerInv, HeldIsRegistered
<1>5. CASE DidDrop(t)
  <2>1. thread[t].then \notin {"leaving", "referring"}
    BY <1>0, <1>5 DEF DidDrop, At, Locked
  <2>2. MovesOn(t, "idle")
    BY <1>5, GoesMoves, CloseMoves DEF DidDrop, MovesOn
  <2> QED BY <1>5, <2>1, <2>2, MovesOnLocked DEF DidDrop, Nexts, ManagerInv, HeldIsRegistered
<1>6. CASE Release(t)
  <2>1. OthersStay(t) /\ Locked(t)'
    BY <1>0, <1>6, GoesMoves DEF Release, At, Locked, Nexts
  <2> QED BY <1>6, <2>1, OthersLocked DEF Release, ManagerInv, HeldIsRegistered
<1>7. CASE Unregister(t)
  <2>1. thread[t].then \notin {"leaving", "referring"}
    BY <1>0, <1>7 DEF Unregister, At, Locked
  <2>2. OthersStay(t) /\ Locked(t)'
    BY <1>0, <1>7, <2>1, GoesMoves DEF Unregister, Locked, Nexts
  <2> QED BY <1>0, <1>7, <2>2, OthersLocked DEF Unregister, ManagerInv, HeldIsRegistered
<1>8. CASE Peek(t)
  <2>1. thread[t].then \notin {"leaving", "referring"} /\ managerLock = t /\ entry
    BY <1>0, <1>8 DEF Peek, At, Locked, ManagerInv
  <2>2. MovesOn(t, "leaving")
    BY <1>8, GoesMoves, CloseMoves DEF Peek, MovesOn
  <2> QED BY <1>8, <2>1, <2>2, MovesOnLocked DEF Peek, Nexts
<1>9. CASE Leave(t)
  <2>1. managerLock = t /\ thread[t].then \notin {"leaving", "referring"}
    BY <1>0, <1>9 DEF Leave, At, Locked
  <2>2. OthersStay(t) /\ Locked(t)'
    BY <1>0, <1>9, <2>1, GoesMoves DEF Leave, Locked, Nexts
  <2> QED BY <1>9, <2>1, <2>2, OthersLocked DEF Leave, ManagerInv, HeldIsRegistered
<1>10. CASE Inform(t)
  <2>1. thread[t].then \notin {"leaving", "referring"}
    BY <1>0, <1>10 DEF Inform, At, Locked
  <2>2. OthersStay(t) /\ thread'[t].pc = thread[t].then /\ thread'[t].then = "idle"
    BY <1>10 DEF Inform, OthersStay, TypeOK, ThreadState
  <2>3. Locked(t)'
    BY <1>0, <2>1, <2>2 DEF Locked, Nexts
  <2> QED BY <1>10, <2>2, <2>3, OthersLocked DEF Inform, ManagerInv, HeldIsRegistered
<1>11. CASE LogOutOfSession(t)
  <2>1. thread[t].then \notin {"leaving", "referring"}
    BY <1>0, <1>11 DEF LogOutOfSession, At, Locked
  <2>2. MovesOn(t, "loggedOut")
    BY <1>11, LogOutMoves DEF LogOutOfSession
  <2> QED
    BY <1>11, <2>1, <2>2, MovesOnLocked
    DEF LogOutOfSession, Nexts, ManagerInv, HeldIsRegistered
<1>12. CASE LoggedOut(t)
  <2>1. OthersStay(t) /\ Locked(t)'
    BY <1>0, <1>12, GoesMoves DEF LoggedOut, At, Locked, Nexts
  <2> QED BY <1>12, <2>1, OthersLocked DEF LoggedOut, ManagerInv, HeldIsRegistered
<1>13. CASE Update(t)
  <2>1. OthersStay(t) /\ Locked(t)'
    BY <1>0, <1>13, GoesThenMoves, BecomesInactiveMoves DEF Update, At, Locked, Nexts
  <2> QED BY <1>13, <2>1, OthersLocked DEF Update, ManagerInv, HeldIsRegistered
<1>14. CASE Invalidate(t)
  <2>1. OthersStay(t) /\ Locked(t)'
    BY <1>0, <1>14, GoesMoves DEF Invalidate, At, Locked, Nexts
  <2> QED BY <1>14, <2>1, OthersLocked DEF Invalidate, ManagerInv, HeldIsRegistered
<1> QED
  BY <1>1, <1>2, <1>3, <1>4, <1>5, <1>6, <1>7, <1>8, <1>9, <1>10, <1>11,
     <1>12, <1>13, <1>14 DEF Continue

LEMMA CallManager ==
  ASSUME TypeOK, ManagerInv, NEW t \in Anyone, Call(t)
  PROVE  ManagerInv'
<1> USE DEF data, locks
<1>0. t # NoThread /\ Locked(t)
  BY ThreadsAssumption DEF ManagerInv, Anyone
<1>1. CASE GetSession(t)
  <2>1. OthersStay(t) /\ Locked(t)'
    BY <1>0, <1>1, GoesMoves DEF GetSession, At, Locked, Nexts
  <2> QED BY <1>1, <2>1, OthersLocked DEF GetSession, ManagerInv, HeldIsRegistered
<1>2. CASE Drop(t)
  <2>1. OthersStay(t) /\ Locked(t)'
    BY <1>0, <1>2, GoesMoves DEF Drop, At, Locked, Nexts
  <2> QED BY <1>2, <2>1, OthersLocked DEF Drop, ManagerInv, HeldIsRegistered
<1>3. CASE LogOut(t) \/ LogIn(t)
  <2>1. CASE UNCHANGED thread
    BY <1>3, <2>1 DEF LogOut, LogIn, ManagerInv, Locked, HeldIsRegistered
  <2>2. CASE Goes(t, "loggingOut") \/ GoesThen(t, "reviving", "idle")
    <3>1. thread[t].pc = "idle"
      BY <1>3 DEF LogOut, LogIn, At
    <3>2. OthersStay(t) /\ Locked(t)'
      BY <1>0, <3>1, <2>2, GoesMoves, GoesThenMoves DEF Locked, Nexts
    <3> QED BY <1>3, <3>2, OthersLocked DEF LogOut, LogIn, ManagerInv, HeldIsRegistered
  <2> QED BY <1>3, <2>1, <2>2 DEF LogOut, LogIn
<1>4. CASE Suspend(t)
  <2>1. thread[t].then \notin {"leaving", "referring"}
    BY <1>0, <1>4 DEF Suspend, Locks, At, Locked
  <2>2. MovesOn(t, "releasing")
    BY <1>4, LogOutMoves DEF Suspend
  <2> QED BY <1>4, <2>1, <2>2, MovesOnLocked DEF Suspend, Locks, Nexts, ManagerInv, HeldIsRegistered
<1>5. CASE Resume(t)
  <2>1. OthersStay(t) /\ Locked(t)'
    BY <1>0, <1>5, GoesThenMoves DEF Resume, Locked, Nexts
  <2> QED BY <1>5, <2>1, OthersLocked DEF Resume, Locks, ManagerInv, HeldIsRegistered
<1>6. CASE UpdateConfiguration(t)
  <2>1. OthersStay(t) /\ Locked(t)'
    BY <1>0, <1>6, GoesMoves DEF UpdateConfiguration, At, Locked, Nexts
  <2> QED BY <1>6, <2>1, OthersLocked DEF UpdateConfiguration, ManagerInv, HeldIsRegistered
<1>7. CASE TokenRefused(t)
  <2>1. thread[t].then \notin {"leaving", "referring"}
    BY <1>0, <1>7 DEF TokenRefused, At, Locked
  <2>2. MovesOn(t, "idle")
    BY <1>7, LogOutMoves DEF TokenRefused
  <2> QED BY <1>7, <2>1, <2>2, MovesOnLocked DEF TokenRefused, Nexts, ManagerInv, HeldIsRegistered
<1>8. CASE UNCHANGED <<entry, holders, managerLock, thread>>
  BY <1>8 DEF ManagerInv, Locked, HeldIsRegistered
<1> QED
  BY <1>1, <1>2, <1>3, <1>4, <1>5, <1>6, <1>7, <1>8
  DEF Call, Commit, Reconnect, RefreshAccessToken, TokenDelayed, TokenLost, WaitFor

LEMMA ClientManager ==
  ASSUME TypeOK, ManagerInv, ClientCall
  PROVE  ManagerInv'
<1> USE DEF data, locks
<1>0. Client \in Anyone /\ Client # NoThread /\ Locked(Client)
  BY ThreadsAssumption DEF ManagerInv, Anyone
<1>1. CASE UNCHANGED thread
  BY <1>1 DEF ClientCall, Upload, HandleError, Complete, DeathCompletes, Error,
              ManagerInv, Locked, HeldIsRegistered
<1>2. CASE HandleError
  <2>1. OthersStay(Client) /\ Locked(Client)'
    <3>1. thread[Client].pc = "failing" /\ thread[Client].then \notin {"leaving", "referring"}
      BY <1>0, <1>2 DEF HandleError, At, Locked
    <3>2. CASE GoesThen(Client, "asking", "idle")
      BY <1>0, <3>2, GoesThenMoves DEF Locked, Nexts
    <3>3. CASE Goes(Client, "idle")
      BY <1>0, <3>1, <3>3, GoesMoves DEF Locked, Nexts
    <3>4. CASE BecomesInactive(Client, "idle")
      BY <1>0, <3>4, BecomesInactiveMoves DEF Locked, Nexts
    <3>5. CASE \E next \in {"idle", "invalidating"} :
                 thread' = [thread EXCEPT ![Client] =
                   [pc |-> "informing", aborting |-> s.packages, error |-> "none",
                    then |-> next]]
      BY <1>0, <3>5 DEF OthersStay, Locked, Nexts, TypeOK
    <3> QED BY <1>2, <3>2, <3>3, <3>4, <3>5 DEF HandleError
  <2> QED BY <1>0, <1>2, <2>1, OthersLocked DEF HandleError, ManagerInv, HeldIsRegistered
<1>3. CASE /\ \E d \in s.deathWaits : DeathCompletes(d)
           /\ thread' = [thread EXCEPT ![Client] =
                [pc |-> "unregistering", then |-> "idle", aborting |-> s.packages,
                 error |-> "none"]]
  <2>1. OthersStay(Client) /\ Locked(Client)'
    BY <1>0, <1>3 DEF OthersStay, Locked, Nexts, TypeOK
  <2> QED BY <1>0, <1>3, <2>1, OthersLocked DEF DeathCompletes, ManagerInv, HeldIsRegistered
<1>4. CASE \E e \in ErrorKind \ {"none"} : Error(e)
  <2>1. OthersStay(Client) /\ Locked(Client)'
    <3>1. thread[Client].pc = "idle"
      BY <1>4 DEF Error, At
    <3>2. CASE BecomesInactive(Client, "idle")
      BY <1>0, <3>2, BecomesInactiveMoves DEF Locked, Nexts
    <3>3. CASE \E e \in ErrorKind :
                 thread' = [thread EXCEPT ![Client] = [@ EXCEPT !.pc = "failing", !.error = e]]
      BY <1>0, <3>1, <3>3 DEF OthersStay, Locked, Nexts, TypeOK, ThreadState
    <3> QED BY <1>4, <3>2, <3>3 DEF Error
  <2> QED BY <1>0, <1>4, <2>1, OthersLocked DEF Error, ManagerInv, HeldIsRegistered
<1> QED
  BY <1>1, <1>2, <1>3, <1>4 DEF ClientCall, Upload, Complete, DeathCompletes

LEMMA NextManager == TypeOK /\ ManagerInv /\ [Next]_vars => ManagerInv'
<1> SUFFICES ASSUME TypeOK, ManagerInv, [Next]_vars PROVE ManagerInv'
  OBVIOUS
<1>1. CASE \E t \in Thread : Call(t)
  BY <1>1, CallManager DEF Anyone
<1>2. CASE \E t \in Anyone : Continue(t)
  BY <1>2, ContinueManager
<1>3. CASE ClientCall
  BY <1>3, ClientManager
<1>4. CASE UNCHANGED vars
  BY <1>4 DEF vars, ManagerInv, Locked, HeldIsRegistered
<1> QED BY <1>1, <1>2, <1>3, <1>4 DEF Next

LEMMA InitManager == Init => ManagerInv
BY DEF Init, ManagerInv, Locked, Nexts, HeldIsRegistered

\* As long as anybody holds the session, the manager's map has it: get_session
\* for the same file returns this session and never makes a second one.  It
\* holds because unregister_session looks at the references under the mutex
\* that get_session takes out new ones under.
THEOREM SyncHeldIsRegistered == Spec => []HeldIsRegistered
<1>1. Init => ManagerInv
  BY InitManager
<1>2. TypeOK /\ ManagerInv /\ [Next]_vars => ManagerInv'
  BY NextManager
<1>3. ManagerInv => HeldIsRegistered
  BY DEF ManagerInv
<1> QED BY <1>1, <1>2, <1>3, SyncTypes, PTL DEF Spec

-----------------------------------------------------------------------------
(***************************************************************************)
(* A dying session that ends because its wait completed has been uploaded. *)
(***************************************************************************)
\* What a step may do to the session's members; q is what becomes of r.
Changes(r, q) ==
  \/ q = r
  \/ q = Inactive(r)
  \/ q = WaitingForToken(r)
  \/ \E b \in BOOLEAN : q = [r EXCEPT !.deferredClose = b]
  \/ r.state = "dying" /\ q = [r EXCEPT !.state = "active"]
  \/ r.state # "dying" /\ q = Dying(r)
  \/ q = Activated(r)
  \/ q = Dying(Activated(r))
  \/ r.state = "waiting" /\ \E n \in Nat : q = [r EXCEPT !.deferredCommit = n]
  \/ r.state = "active" /\ \E n \in Nat : q = [r EXCEPT !.announced = n]
  \/ \E hs \in SUBSET Handler : q = [r EXCEPT !.packages = hs] \/ q = [r EXCEPT !.waits = hs]

LEMMA LogOutChanges ==
  ASSUME NEW t \in Anyone, NEW next, LogOutSession(t, next)
  PROVE  Changes(s, s')
BY DEF LogOutSession, BecomesInactive, Changes

LEMMA CloseChanges ==
  ASSUME NEW t \in Anyone, NEW next, CloseSession(t, next)
  PROVE  Changes(s, s')
BY DEF CloseSession, BecomesInactive, Changes

\* Every step but the completion of a death's wait is one of these.
LEMMA StepChanges ==
  ASSUME TypeOK, [Next]_vars
  PROVE  Changes(s, s') \/ \E d \in s.deathWaits : DeathCompletes(d)
<1>0. s \in SessionMembers /\ version \in Nat
  BY DEF TypeOK
<1>1. UNCHANGED s => Changes(s, s')
  BY DEF Changes
<1>2. ASSUME NEW t \in Anyone, Continue(t) PROVE Changes(s, s')
  <2>1. CASE Revive(t)
    BY <2>1 DEF Revive, Changes
  <2>2. CASE DidDrop(t) \/ Peek(t)
    BY <1>1, <2>2, CloseChanges DEF DidDrop, Peek
  <2>3. CASE LogOutOfSession(t)
    BY <2>3, LogOutChanges DEF LogOutOfSession
  <2>4. CASE Update(t)
    BY <2>4 DEF Update, BecomesInactive, Changes
  <2> QED
    BY <1>1, <1>2, <2>1, <2>2, <2>3, <2>4
    DEF Continue, RegisterSession, Ask, Refer, Release, Unregister, Leave, Inform,
        LoggedOut, Invalidate
<1>3. ASSUME NEW t \in Anyone, Call(t) PROVE Changes(s, s')
  <2>1. CASE Suspend(t) \/ TokenRefused(t)
    BY <2>1, LogOutChanges DEF Suspend, TokenRefused
  <2>2. CASE Commit(t)
    <3>1. version + 1 \in Nat
      BY <1>0
    <3>2. CASE s.state = "waiting"
      BY <2>2, <3>1, <3>2 DEF Commit, Changes
    <3>3. CASE s.state = "active"
      BY <2>2, <3>1, <3>3 DEF Commit, Changes
    <3>4. CASE s.state \notin {"waiting", "active"}
      BY <1>1, <2>2, <3>4 DEF Commit
    <3> QED BY <3>2, <3>3, <3>4
  <2>3. CASE RefreshAccessToken(t)
    BY <2>3 DEF RefreshAccessToken, Changes
  <2>4. CASE \E h \in Handler : WaitFor(t, h)
    <3>1. PICK h \in Handler : WaitFor(t, h)
      BY <2>4
    <3>2. s.packages \cup {h} \in SUBSET Handler /\ s.waits \cup {h} \in SUBSET Handler
      BY <1>0 DEF SessionMembers
    <3> QED BY <3>1, <3>2 DEF WaitFor, Changes
  <2> QED
    BY <1>1, <1>3, <2>1, <2>2, <2>3, <2>4
    DEF Call, GetSession, Drop, LogOut, LogIn, Resume, UpdateConfiguration, Reconnect,
        TokenDelayed, TokenLost
<1>4. CASE ClientCall
  <2>1. CASE \E h \in Handler : Complete(h)
    <3>1. PICK h \in Handler : Complete(h)
      BY <2>1
    <3>2. s.waits \ {h} \in SUBSET Handler
      BY <1>0 DEF SessionMembers
    <3> QED BY <3>1, <3>2 DEF Complete, Changes
  <2>2. CASE HandleError
    BY <2>2 DEF HandleError, BecomesInactive, Changes
  <2>3. CASE \E e \in ErrorKind \ {"none"} : Error(e)
    BY <2>3 DEF Error, BecomesInactive, Changes
  <2> QED BY <1>1, <1>4, <2>1, <2>2, <2>3 DEF ClientCall, Upload
<1>5. CASE UNCHANGED vars
  BY <1>1, <1>5 DEF vars
<1>6. Thread \subseteq Anyone
  BY DEF Anyone
<1> QED BY <1>2, <1>3, <1>4, <1>5, <1>6 DEF Next

\* The waits belong to deaths there were, and that of the latest is for all
\* that was announced: a session announces nothing while it dies.
Counted(r) ==
  /\ \A d \in r.deathWaits : d.number <= r.deaths
  /\ r.state = "dying" =>
       \A d \in r.deathWaits : d.number = r.deaths => d.upTo = r.announced

LEMMA InactiveCounted ==
  ASSUME NEW r \in SessionMembers, Counted(r)
  PROVE  Counted(Inactive(r)) /\ Awaited(Inactive(r)) = Awaited(r)
<1>1. Inactive(r).deathWaits = {[d EXCEPT !.upTo = 0] : d \in r.deathWaits}
  BY DEF Inactive, SessionMembers
<1>2. \A d \in r.deathWaits : [d EXCEPT !.upTo = 0].number = d.number
  BY DEF SessionMembers, Death
<1>3. Inactive(r).deaths = r.deaths /\ Inactive(r).state = "inactive"
  BY DEF Inactive, SessionMembers
<1>4. \A e \in Inactive(r).deathWaits : \E d \in r.deathWaits : e.number = d.number
  BY <1>1, <1>2
<1>5. \A d \in r.deathWaits : \E e \in Inactive(r).deathWaits : e.number = d.number
  BY <1>1, <1>2
<1>6. Awaited(Inactive(r)) = Awaited(r)
  BY <1>4, <1>5 DEF Awaited
<1> QED BY <1>3, <1>4, <1>6 DEF Counted

LEMMA DyingCounted ==
  ASSUME NEW r \in SessionMembers, \A d \in r.deathWaits : d.number <= r.deaths
  PROVE  Counted(Dying(r))
<1>1. /\ Dying(r).deathWaits =
           r.deathWaits \cup {[number |-> r.deaths + 1, upTo |-> r.announced]}
      /\ Dying(r).deaths = r.deaths + 1 /\ Dying(r).announced = r.announced
      /\ r.deaths \in Nat
  BY DEF Dying, SessionMembers
<1>2. \A d \in r.deathWaits : d.number \in Nat /\ d.number # r.deaths + 1
  BY <1>1 DEF SessionMembers, Death
<1> QED BY <1>1, <1>2 DEF Counted

LEMMA ChangesCounted ==
  ASSUME NEW r \in SessionMembers, NEW q, Changes(r, q), Counted(r), version \in Nat
  PROVE  Counted(q) /\ (q.state = "inactive" => Awaited(q) = Awaited(r) \/ r.state = "inactive")
<1>1. CASE q = Inactive(r)
  BY <1>1, InactiveCounted
<1>2. CASE q = Dying(r)
  BY <1>2, DyingCounted DEF Counted, Dying, SessionMembers
<1>3. CASE q = Dying(Activated(r))
  <2>1. Activated(r) \in SessionMembers /\ Activated(r).deathWaits = r.deathWaits
        /\ Activated(r).deaths = r.deaths
    BY ActivatedType, ZenonT(30) DEF Activated, SessionMembers
  <2>2. Counted(q)
    BY <1>3, <2>1, DyingCounted DEF Counted
  <2>3. q.state = "dying"
    BY <1>3, <2>1 DEF Dying, SessionMembers
  <2> QED BY <2>2, <2>3
<1>4. CASE q = Activated(r) \/ q = WaitingForToken(r)
           \/ (r.state = "dying" /\ q = [r EXCEPT !.state = "active"])
  BY <1>4 DEF Counted, Activated, WaitingForToken, SessionMembers
<1>5. CASE \/ r.state = "active" /\ \E n \in Nat : q = [r EXCEPT !.announced = n]
           \/ r.state = "waiting" /\ \E n \in Nat : q = [r EXCEPT !.deferredCommit = n]
  BY <1>5 DEF Counted, SessionMembers
<1>6. CASE \/ q = r
           \/ \E b \in BOOLEAN : q = [r EXCEPT !.deferredClose = b]
           \/ \E hs \in SUBSET Handler :
                q = [r EXCEPT !.packages = hs] \/ q = [r EXCEPT !.waits = hs]
  BY <1>6 DEF Counted, Awaited, SessionMembers
<1> QED BY <1>1, <1>2, <1>3, <1>4, <1>5, <1>6 DEF Changes

\* The wait of the latest death is the only one that ends the session.
LEMMA DeathCounted ==
  ASSUME TypeOK, Counted(s), NEW d \in s.deathWaits, DeathCompletes(d)
  PROVE  /\ Counted(s')
         /\ s.state = "dying" /\ s'.state = "inactive" => uploaded >= s.announced
<1> DEFINE rest == [s EXCEPT !.deathWaits = @ \ {d}]
<1>0. s \in SessionMembers
  BY DEF TypeOK
<1>1. rest \in SessionMembers /\ Counted(rest) /\ rest.state = s.state
  BY <1>0 DEF SessionMembers, Counted
<1>2. \/ s' = Inactive(rest) /\ s.state = "dying" /\ s.deaths = d.number
      \/ s' = rest
  BY DEF DeathCompletes
<1>3. uploaded >= d.upTo
  BY DEF DeathCompletes
<1> HIDE DEF rest
<1>4. Counted(s')
  BY <1>1, <1>2, InactiveCounted
<1> QED BY <1>1, <1>2, <1>3, <1>4 DEF Counted

DeathsCounted == Counted(s)

\* A dying session whose wait completes and which so becomes inactive has
\* every commit it announced on the server, however often it was revived and
\* let go before: the number of the death tells a late answer from the last.
THEOREM SyncDiesUploaded == Spec => DiesUploaded
<1> DEFINE Step == Awaited(s') # Awaited(s) /\ s.state = "dying" /\ s'.state = "inactive"
                     => uploaded >= s.announced
<1>1. Init => DeathsCounted
  BY DEF Init, DeathsCounted, Counted
<1>2. TypeOK /\ DeathsCounted /\ [Next]_vars => DeathsCounted' /\ [Step]_vars
  <2> SUFFICES ASSUME TypeOK, Counted(s), [Next]_vars PROVE Counted(s') /\ Step
    BY DEF DeathsCounted
  <2>1. CASE Changes(s, s')
    BY <2>1, ChangesCounted DEF TypeOK
  <2>2. CASE \E d \in s.deathWaits : DeathCompletes(d)
    BY <2>2, DeathCounted
  <2> QED BY <2>1, <2>2, StepChanges
<1> QED BY <1>1, <1>2, SyncTypes, PTL DEF Spec, DiesUploaded

-----------------------------------------------------------------------------
(***************************************************************************)
(* A completion handler is called once, or is in one place.                *)
(***************************************************************************)
\* A handler has not been given; or has been called; or is queued, waited for,
\* or with one thread.
Kept(h) ==
  /\ called[h] \in {0, 1}
  /\ h \notin given \/ called[h] = 1 =>
       /\ h \notin s.packages /\ h \notin s.waits
       /\ \A t \in Anyone : h \notin thread[t].aborting
  /\ h \notin given => called[h] = 0
  /\ h \in given /\ called[h] = 0 =>
       h \in s.packages \/ h \in s.waits \/ \E t \in Anyone : h \in thread[t].aborting
  /\ h \in s.packages => h \notin s.waits
  /\ h \in s.packages \/ h \in s.waits => \A t \in Anyone : h \notin thread[t].aborting
  /\ \A t, u \in Anyone : h \in thread[t].aborting /\ h \in thread[u].aborting => t = u

\* A thread that has handlers to tell of an abort is on its way to do so.
Telling(t) ==
  thread[t].aborting = {}
    \/ thread[t].pc \in {"unregistering", "peeking", "leaving", "informing"}

HandlersInv ==
  /\ \A t \in Anyone : Telling(t)
  /\ \A h \in Handler : Kept(h)

\* What most steps do to the handlers: nothing, or the queued ones go to the
\* thread that takes the step.
Handled(t) ==
  /\ OthersStay(t) /\ Telling(t)'
  /\ UNCHANGED <<given, called>> /\ s'.waits = s.waits
  /\ \/ s'.packages = s.packages /\ thread'[t].aborting = thread[t].aborting
     \/ s'.packages = {} /\ thread'[t].aborting = thread[t].aborting \cup s.packages

LEMMA HandledKept ==
  ASSUME NEW t \in Anyone, HandlersInv, Handled(t)
  PROVE  HandlersInv'
<1>1. \A u \in Anyone : Telling(u)'
  BY DEF HandlersInv, Handled, OthersStay, Telling
<1>2. ASSUME NEW h \in Handler PROVE Kept(h)'
  <2>1. Kept(h)
    BY DEF HandlersInv
  <2>2. CASE s'.packages = s.packages /\ thread'[t].aborting = thread[t].aborting
    <3>1. \A u \in Anyone : thread'[u].aborting = thread[u].aborting
      BY <2>2 DEF Handled, OthersStay
    <3> QED BY <2>1, <2>2, <3>1 DEF Kept, Handled
  <2>3. CASE s'.packages = {} /\ thread'[t].aborting = thread[t].aborting \cup s.packages
    <3>1. \A u \in Anyone : u # t => thread'[u].aborting = thread[u].aborting
      BY DEF Handled, OthersStay
    <3>2. CASE h \in s.packages
      <4>1. /\ h \in given /\ called[h] = 0 /\ h \notin s.waits
            /\ \A u \in Anyone : h \notin thread[u].aborting
        BY <2>1, <3>2 DEF Kept
      <4> QED BY <2>3, <3>1, <3>2, <4>1 DEF Kept, Handled
    <3>3. CASE h \notin s.packages
      <4>1. \A u \in Anyone : h \in thread'[u].aborting <=> h \in thread[u].aborting
        BY <2>3, <3>1, <3>3
      <4> QED BY <2>1, <2>3, <3>3, <4>1 DEF Kept, Handled
    <3> QED BY <3>2, <3>3
  <2> QED BY <2>2, <2>3 DEF Handled
<1> QED BY <1>1, <1>2 DEF HandlersInv

LEMMA LogOutHandled ==
  ASSUME TypeOK, NEW t \in Anyone, NEW next, LogOutSession(t, next),
         thread[t].aborting = {}, UNCHANGED <<given, called>>
  PROVE  Handled(t)
<1>1. CASE BecomesInactive(t, next)
  <2>1. s' = Inactive(s)
    BY <1>1 DEF BecomesInactive
  <2>2. s'.packages = {} /\ s'.waits = s.waits
    BY <2>1 DEF Inactive, TypeOK, SessionMembers
  <2> QED BY <1>1, <2>2, BecomesInactiveMoves DEF Handled, Telling
<1>2. CASE Goes(t, next) /\ UNCHANGED s
  BY <1>2, GoesMoves DEF Handled, Telling
<1> QED BY <1>1, <1>2 DEF LogOutSession

LEMMA CloseHandled ==
  ASSUME TypeOK, NEW t \in Anyone, NEW next, CloseSession(t, next),
         thread[t].aborting = {} \/ next = "leaving", UNCHANGED <<given, called>>
  PROVE  Handled(t)
<1>1. CASE BecomesInactive(t, next)
  <2>1. s' = Inactive(s)
    BY <1>1 DEF BecomesInactive
  <2>2. s'.packages = {} /\ s'.waits = s.waits
    BY <2>1 DEF Inactive, TypeOK, SessionMembers
  <2> QED BY <1>1, <2>2, BecomesInactiveMoves DEF Handled, Telling
<1>2. CASE Goes(t, next) /\ s'.packages = s.packages /\ s'.waits = s.waits
  BY <1>2, GoesMoves DEF Handled, Telling
<1>3. CASE GoesThen(t, "unregistering", next) /\ UNCHANGED s
  BY <1>3, GoesThenMoves DEF Handled, Telling
<1>4. /\ [s EXCEPT !.deferredClose = TRUE].packages = s.packages
      /\ [s EXCEPT !.deferredClose = TRUE].waits = s.waits
      /\ Dying(s).packages = s.packages /\ Dying(s).waits = s.waits
  BY DEF Dying, TypeOK, SessionMembers
<1> QED BY <1>1, <1>2, <1>3, <1>4 DEF CloseSession

LEMMA ContinueHandlers ==
  ASSUME TypeOK, HandlersInv, NEW t \in Anyone, Continue(t)
  PROVE  HandlersInv'
<1> USE DEF data
<1>0. Telling(t)
  BY DEF HandlersInv
<1>1. CASE RegisterSession(t) \/ Ask(t) \/ Refer(t) \/ Release(t) \/ Leave(t)
           \/ LoggedOut(t) \/ Invalidate(t) \/ Unregister(t)
  <2>1. OthersStay(t) /\ thread'[t].aborting = thread[t].aborting
    BY <1>1, GoesMoves, GoesThenMoves
    DEF RegisterSession, Ask, Refer, Release, Leave, LoggedOut, Invalidate, Unregister
  <2>2. Telling(t)'
    BY <1>0, <1>1, <2>1, GoesMoves
    DEF RegisterSession, Ask, Refer, Release, Leave, LoggedOut, Invalidate, Unregister,
        At, Telling
  <2>3. Handled(t)
    BY <1>1, <2>1, <2>2
    DEF RegisterSession, Ask, Refer, Release, Leave, LoggedOut, Invalidate, Unregister,
        Handled
  <2> QED BY <2>3, HandledKept
<1>2. CASE Revive(t)
  <2>1. OthersStay(t) /\ thread'[t].aborting = thread[t].aborting
    BY <1>2, GoesMoves DEF Revive
  <2>2. Telling(t)'
    BY <1>0, <1>2, <2>1 DEF Revive, At, Telling
  <2>3. s'.packages = s.packages /\ s'.waits = s.waits
    BY <1>2 DEF Revive, WaitingForToken, TypeOK, SessionMembers
  <2>4. Handled(t)
    BY <1>2, <2>1, <2>2, <2>3 DEF Revive, Handled
  <2> QED BY <2>4, HandledKept
<1>3. CASE DidDrop(t)
  <2>1. thread[t].aborting = {}
    BY <1>0, <1>3 DEF DidDrop, At, Telling
  <2>2. CASE CloseSession(t, "idle")
    BY <1>3, <2>1, <2>2, CloseHandled, HandledKept DEF DidDrop
  <2>3. CASE Goes(t, "idle") /\ UNCHANGED s
    <3>1. Handled(t)
      BY <1>3, <2>1, <2>3, GoesMoves DEF DidDrop, Handled, Telling
    <3> QED BY <3>1, HandledKept
  <2> QED BY <1>3, <2>2, <2>3 DEF DidDrop
<1>4. CASE Peek(t)
  <2>1. CASE CloseSession(t, "leaving")
    BY <1>4, <2>1, CloseHandled, HandledKept DEF Peek
  <2>2. CASE Goes(t, "leaving") /\ UNCHANGED s
    <3>1. Handled(t)
      BY <1>4, <2>2, GoesMoves DEF Peek, Handled, Telling
    <3> QED BY <3>1, HandledKept
  <2> QED BY <1>4, <2>1, <2>2 DEF Peek
<1>5. CASE LogOutOfSession(t)
  <2>1. thread[t].aborting = {}
    BY <1>0, <1>5 DEF LogOutOfSession, At, Telling
  <2> QED BY <1>5, <2>1, LogOutHandled, HandledKept DEF LogOutOfSession
<1>6. CASE Update(t)
  <2>1. thread[t].aborting = {}
    BY <1>0, <1>6 DEF Update, At, Telling
  <2>2. CASE BecomesInactive(t, "updating")
    <3>1. s'.packages = {} /\ s'.waits = s.waits
      BY <2>2 DEF BecomesInactive, Inactive, TypeOK, SessionMembers
    <3>2. Handled(t)
      BY <1>6, <2>2, <3>1, BecomesInactiveMoves DEF Update, Handled, Telling
    <3> QED BY <3>2, HandledKept
  <2>3. CASE GoesThen(t, "reviving", "idle") /\ UNCHANGED s
    <3>1. Handled(t)
      BY <1>6, <2>1, <2>3, GoesThenMoves DEF Update, Handled, Telling
    <3> QED BY <3>1, HandledKept
  <2> QED BY <1>6, <2>2, <2>3 DEF Update
<1>7. CASE Inform(t)
  <2>1. /\ OthersStay(t) /\ thread'[t].aborting = {}
        /\ UNCHANGED <<s, given>>
    BY <1>7 DEF Inform, OthersStay, TypeOK, ThreadState
  <2>2. \A u \in Anyone : Telling(u)'
    BY <2>1 DEF HandlersInv, OthersStay, Telling
  <2>3. ASSUME NEW h \in Handler PROVE Kept(h)'
    <3>1. Kept(h) /\ \A u \in Anyone : u # t => thread'[u].aborting = thread[u].aborting
      BY <2>1 DEF HandlersInv, OthersStay
    <3>2. called'[h] = called[h] + IF h \in thread[t].aborting THEN 1 ELSE 0
      BY <1>7 DEF Inform
    <3>3. CASE h \in thread[t].aborting
      <4>1. /\ h \in given /\ called[h] = 0 /\ h \notin s.waits /\ h \notin s.packages
            /\ \A u \in Anyone : u # t => h \notin thread[u].aborting
        BY <3>1, <3>3 DEF Kept
      <4> QED BY <2>1, <3>1, <3>2, <3>3, <4>1 DEF Kept
    <3>4. CASE h \notin thread[t].aborting
      <4>1. called'[h] = called[h] /\ called[h] \in {0, 1}
        BY <3>1, <3>2, <3>4 DEF Kept
      <4>2. \A u \in Anyone : h \in thread'[u].aborting <=> h \in thread[u].aborting
        BY <2>1, <3>1, <3>4
      <4> QED BY <2>1, <3>1, <4>1, <4>2 DEF Kept
    <3> QED BY <3>3, <3>4
  <2> QED BY <2>2, <2>3 DEF HandlersInv
<1> QED BY <1>1, <1>2, <1>3, <1>4, <1>5, <1>6, <1>7 DEF Continue

LEMMA CallHandlers ==
  ASSUME TypeOK, HandlersInv, NEW t \in Anyone, Call(t)
  PROVE  HandlersInv'
<1> USE DEF data
<1>0. Telling(t) /\ s \in SessionMembers
  BY DEF HandlersInv, TypeOK
<1>1. CASE /\ UNCHANGED <<given, called>> /\ UNCHANGED thread
           /\ s'.packages = s.packages /\ s'.waits = s.waits
  BY <1>1 DEF HandlersInv, Telling, Kept
<1>2. CASE GetSession(t) \/ Drop(t) \/ UpdateConfiguration(t) \/ Resume(t)
  <2>1. thread[t].aborting = {}
    BY <1>0, <1>2 DEF GetSession, Drop, UpdateConfiguration, Resume, Locks, At, Telling
  <2>2. Handled(t)
    BY <1>2, <2>1, GoesMoves, GoesThenMoves
    DEF GetSession, Drop, UpdateConfiguration, Resume, Handled, Telling
  <2> QED BY <2>2, HandledKept
<1>3. CASE LogOut(t) \/ LogIn(t)
  <2>1. thread[t].aborting = {}
    BY <1>0, <1>3 DEF LogOut, LogIn, At, Telling
  <2>2. Handled(t) \/ UNCHANGED thread
    BY <1>3, <2>1, GoesMoves, GoesThenMoves DEF LogOut, LogIn, Handled, Telling
  <2> QED BY <1>1, <1>3, <2>2, HandledKept DEF LogOut, LogIn
<1>4. CASE Suspend(t) \/ TokenRefused(t)
  <2>1. thread[t].aborting = {}
    BY <1>0, <1>4 DEF Suspend, TokenRefused, Locks, At, Telling
  <2> QED BY <1>4, <2>1, LogOutHandled, HandledKept DEF Suspend, TokenRefused
<1>5. CASE Commit(t) \/ Reconnect(t) \/ TokenDelayed \/ TokenLost
  <2>1. s'.packages = s.packages /\ s'.waits = s.waits
    BY <1>0, <1>5 DEF Commit, Reconnect, TokenDelayed, TokenLost, SessionMembers
  <2> QED BY <1>1, <1>5, <2>1 DEF Commit, Reconnect, TokenDelayed, TokenLost
<1>6. CASE RefreshAccessToken(t)
  <2>1. CASE UNCHANGED s
    BY <1>1, <1>6, <2>1 DEF RefreshAccessToken
  <2>2. CASE s'.packages = {} /\ s'.waits = s.waits \cup s.packages
    BY <1>6, <2>2 DEF RefreshAccessToken, HandlersInv, Telling, Kept
  <2>3. /\ Activated(s).packages = {} /\ Activated(s).waits = s.waits \cup s.packages
        /\ Dying(Activated(s)).packages = {}
        /\ Dying(Activated(s)).waits = s.waits \cup s.packages
    BY <1>0 DEF Activated, Dying, SessionMembers
  <2> QED BY <1>6, <2>1, <2>2, <2>3 DEF RefreshAccessToken
<1>7. ASSUME NEW h \in Handler, WaitFor(t, h) PROVE HandlersInv'
  <2>1. /\ UNCHANGED <<thread, called>> /\ given' = given \cup {h} /\ h \notin given
        /\ \/ s'.packages = s.packages \cup {h} /\ s'.waits = s.waits
           \/ s'.packages = s.packages /\ s'.waits = s.waits \cup {h}
    BY <1>0, <1>7 DEF WaitFor, SessionMembers
  <2>2. ASSUME NEW g \in Handler PROVE Kept(g)'
    <3>1. Kept(g)
      BY DEF HandlersInv
    <3>2. CASE g = h
      BY <2>1, <3>1, <3>2 DEF Kept
    <3>3. CASE g # h
      BY <2>1, <3>1, <3>3 DEF Kept
    <3> QED BY <3>2, <3>3
  <2> QED BY <2>1, <2>2 DEF HandlersInv, Telling
<1> QED BY <1>2, <1>3, <1>4, <1>5, <1>6, <1>7 DEF Call

LEMMA ClientHandlers ==
  ASSUME TypeOK, HandlersInv, ClientCall
  PROVE  HandlersInv'
<1> USE DEF data
<1>0. Client \in Anyone /\ Telling(Client) /\ s \in SessionMembers
  BY DEF Anyone, HandlersInv, TypeOK
<1>1. CASE /\ UNCHANGED <<given, called>> /\ UNCHANGED thread
           /\ s'.packages = s.packages /\ s'.waits = s.waits
  BY <1>1 DEF HandlersInv, Telling, Kept
\* The client's thread, which has nobody to tell, takes the queued handlers.
<1>2. ASSUME thread[Client].aborting = {}, UNCHANGED <<given, called>>,
             s'.packages = {}, s'.waits = s.waits,
             NEW pc \in {"unregistering", "informing"}, NEW then,
             thread' = [thread EXCEPT ![Client] =
               [pc |-> pc, then |-> then, aborting |-> s.packages, error |-> "none"]]
      PROVE  HandlersInv'
  <2>1. thread'[Client].pc = pc /\ thread'[Client].aborting = s.packages
        /\ OthersStay(Client)
    BY <1>0, <1>2 DEF TypeOK, OthersStay
  <2>2. Handled(Client)
    BY <1>2, <2>1 DEF Handled, Telling
  <2> QED BY <1>0, <2>2, HandledKept
<1>3. CASE Upload
  BY <1>1, <1>3 DEF Upload
<1>4. CASE HandleError
  <2>1. thread[Client].aborting = {} /\ UNCHANGED <<given, called>>
    BY <1>0, <1>4 DEF HandleError, At, Telling
  <2>2. CASE s' = WaitingForToken(s) /\ GoesThen(Client, "asking", "idle")
    <3>1. s'.packages = s.packages /\ s'.waits = s.waits
      BY <1>0, <2>2 DEF WaitingForToken, SessionMembers
    <3>2. Handled(Client)
      BY <1>0, <2>1, <2>2, <3>1, GoesThenMoves DEF Handled, Telling
    <3> QED BY <1>0, <3>2, HandledKept
  <2>3. CASE Goes(Client, "idle") /\ UNCHANGED s
    <3>1. Handled(Client)
      BY <1>0, <2>1, <2>3, GoesMoves DEF Handled, Telling
    <3> QED BY <1>0, <3>1, HandledKept
  <2>4. CASE BecomesInactive(Client, "idle")
    <3>1. s'.packages = {} /\ s'.waits = s.waits
      BY <1>0, <2>4 DEF BecomesInactive, Inactive, SessionMembers
    <3>2. Handled(Client)
      BY <1>0, <2>1, <2>4, <3>1, BecomesInactiveMoves DEF Handled, Telling
    <3> QED BY <1>0, <3>2, HandledKept
  <2>5. ASSUME s' = [s EXCEPT !.packages = {}], NEW then,
               thread' = [thread EXCEPT ![Client] =
                 [pc |-> "informing", then |-> then, aborting |-> s.packages,
                  error |-> "none"]]
        PROVE  HandlersInv'
    <3>1. s'.packages = {} /\ s'.waits = s.waits
      BY <1>0, <2>5 DEF SessionMembers
    <3> QED BY <1>2, <2>1, <2>5, <3>1
  <2> QED BY <1>4, <2>2, <2>3, <2>4, <2>5 DEF HandleError
<1>5. ASSUME NEW h \in Handler, Complete(h) PROVE HandlersInv'
  <2>1. /\ UNCHANGED <<thread, given>> /\ h \in s.waits
        /\ s'.packages = s.packages /\ s'.waits = s.waits \ {h}
        /\ called' = [called EXCEPT ![h] = @ + 1] /\ called \in [Handler -> Nat]
    BY <1>0, <1>5 DEF Complete, SessionMembers, TypeOK
  <2>2. ASSUME NEW g \in Handler PROVE Kept(g)'
    <3>1. Kept(g)
      BY DEF HandlersInv
    <3>2. CASE g = h
      <4>1. /\ g \in given /\ called[g] = 0 /\ g \notin s.packages
            /\ \A t \in Anyone : g \notin thread[t].aborting
        BY <2>1, <3>1, <3>2 DEF Kept
      <4> QED BY <2>1, <3>1, <3>2, <4>1 DEF Kept
    <3>3. CASE g # h
      BY <2>1, <3>1, <3>3 DEF Kept
    <3> QED BY <3>2, <3>3
  <2> QED BY <2>1, <2>2 DEF HandlersInv, Telling
<1>6. ASSUME NEW d \in s.deathWaits, DeathCompletes(d) PROVE HandlersInv'
  <2> DEFINE rest == [s EXCEPT !.deathWaits = @ \ {d}]
  <2>1. /\ rest.packages = s.packages /\ rest.waits = s.waits
        /\ Inactive(rest).packages = {} /\ Inactive(rest).waits = s.waits
    BY <1>0 DEF Inactive, SessionMembers
  <2>2. thread[Client].aborting = {} /\ UNCHANGED <<given, called>>
    BY <1>0, <1>6 DEF DeathCompletes, At, Telling
  <2>3. \/ s' = rest /\ UNCHANGED thread
        \/ /\ s' = Inactive(rest)
           /\ thread' = [thread EXCEPT ![Client] =
                [pc |-> "unregistering", then |-> "idle", aborting |-> s.packages,
                 error |-> "none"]]
    BY <1>6 DEF DeathCompletes
  <2> HIDE DEF rest
  <2> QED BY <1>1, <1>2, <2>1, <2>2, <2>3
<1>7. ASSUME NEW e \in ErrorKind, Error(e) PROVE HandlersInv'
  <2>1. thread[Client].aborting = {} /\ UNCHANGED <<given, called>>
    BY <1>0, <1>7 DEF Error, At, Telling
  <2>2. CASE BecomesInactive(Client, "idle")
    <3>1. s'.packages = {} /\ s'.waits = s.waits
      BY <1>0, <2>2 DEF BecomesInactive, Inactive, SessionMembers
    <3>2. Handled(Client)
      BY <1>0, <2>1, <2>2, <3>1, BecomesInactiveMoves DEF Handled, Telling
    <3> QED BY <1>0, <3>2, HandledKept
  <2>3. CASE /\ thread' = [thread EXCEPT ![Client] = [@ EXCEPT !.pc = "failing", !.error = e]]
             /\ UNCHANGED s
    <3>1. OthersStay(Client) /\ thread'[Client].aborting = {}
      BY <1>0, <2>1, <2>3 DEF OthersStay, TypeOK, ThreadState
    <3>2. Handled(Client)
      BY <2>1, <2>3, <3>1 DEF Handled, Telling
    <3> QED BY <1>0, <3>2, HandledKept
  <2> QED BY <1>7, <2>2, <2>3 DEF Error
<1> QED BY <1>3, <1>4, <1>5, <1>6, <1>7 DEF ClientCall

LEMMA NextHandlers == TypeOK /\ HandlersInv /\ [Next]_vars => HandlersInv'
<1> SUFFICES ASSUME TypeOK, HandlersInv, [Next]_vars PROVE HandlersInv'
  OBVIOUS
<1>1. CASE \E t \in Thread : Call(t)
  BY <1>1, CallHandlers DEF Anyone
<1>2. CASE \E t \in Anyone : Continue(t)
  BY <1>2, ContinueHandlers
<1>3. CASE ClientCall
  BY <1>3, ClientHandlers
<1>4. CASE UNCHANGED vars
  BY <1>4 DEF vars, HandlersInv, Telling, Kept
<1> QED BY <1>1, <1>2, <1>3, <1>4 DEF Next

\* A completion handler is neither lost nor called twice, through any number
\* of logouts, revivals, errors and token refreshes: it is queued, waited for
\* or with the thread that tells it of the abort, until it has been called.
THEOREM SyncHandlersKept == Spec => []HandlersKept
<1>1. Init => HandlersInv
  BY DEF Init, HandlersInv, Telling, Kept
<1>2. TypeOK /\ HandlersInv /\ [Next]_vars => HandlersInv'
  BY NextHandlers
<1>3. TypeOK /\ HandlersInv => HandlersKept
  <2> SUFFICES ASSUME TypeOK, HandlersInv, NEW h \in given
               PROVE  LET telling == {t \in Anyone : h \in thread[t].aborting}
                      IN /\ called[h] \in {0, 1}
                         /\ called[h] = 0 <=> h \in s.packages \cup s.waits \/ telling # {}
                         /\ h \notin s.packages \cap s.waits
                         /\ h \in s.packages \cup s.waits => telling = {}
                         /\ \A t, u \in telling : t = u
    BY DEF HandlersKept
  <2>1. Kept(h)
    BY DEF HandlersInv, TypeOK
  <2> QED BY <2>1 DEF Kept
<1> QED BY <1>1, <1>2, <1>3, SyncTypes, PTL DEF Spec

-----------------------------------------------------------------------------
(***************************************************************************)
(* A session that waits for a token has somebody who gets it one.          *)
(***************************************************************************)
LEMMA AskedKept ==
  ASSUME WaitingHasAsked, NEW t \in Anyone, OthersStay(t), ~At(t, "asking"),
         asked' = asked, s'.state = "waiting" => s.state = "waiting"
  PROVE  WaitingHasAsked'
BY DEF WaitingHasAsked, OthersStay, At

LEMMA LogOutAsked ==
  ASSUME TypeOK, NEW t \in Anyone, NEW next, LogOutSession(t, next)
  PROVE  s'.state = "inactive"
BY DEF LogOutSession, BecomesInactive, Inactive, TypeOK, SessionMembers

LEMMA CloseAsked ==
  ASSUME TypeOK, NEW t \in Anyone, NEW next, CloseSession(t, next)
  PROVE  s'.state = "waiting" => s.state = "waiting"
BY DEF CloseSession, BecomesInactive, Inactive, Dying, TypeOK, SessionMembers

LEMMA ContinueAsked ==
  ASSUME TypeOK, WaitingHasAsked, NEW t \in Anyone, Continue(t)
  PROVE  WaitingHasAsked'
<1> USE DEF data
<1>0. s \in SessionMembers
  BY DEF TypeOK
<1>1. CASE RegisterSession(t) \/ Refer(t) \/ Release(t) \/ Leave(t)
           \/ LoggedOut(t) \/ Invalidate(t) \/ Unregister(t)
  <2>1. OthersStay(t) /\ ~At(t, "asking")
    BY <1>1, GoesMoves, GoesThenMoves
    DEF RegisterSession, Refer, Release, Leave, LoggedOut, Invalidate, Unregister, At
  <2> QED
    BY <1>1, <2>1, AskedKept
    DEF RegisterSession, Refer, Release, Leave, LoggedOut, Invalidate, Unregister
<1>2. CASE Revive(t)
  <2>1. CASE s.state = "inactive"
    <3>1. thread'[t].pc = "asking"
      BY <1>2, <2>1, GoesMoves DEF Revive
    <3> QED BY <3>1 DEF WaitingHasAsked, At
  <2>2. CASE s.state # "inactive"
    <3>1. s'.state = "waiting" => s.state = "waiting"
      BY <1>0, <1>2, <2>2 DEF Revive, SessionMembers
    <3>2. OthersStay(t) /\ ~At(t, "asking")
      BY <1>2, <2>2, GoesMoves DEF Revive, At
    <3> QED BY <1>2, <3>1, <3>2, AskedKept DEF Revive
  <2> QED BY <2>1, <2>2
<1>3. CASE Ask(t)
  BY <1>3 DEF Ask, WaitingHasAsked
<1>4. CASE DidDrop(t) \/ Peek(t)
  <2>1. OthersStay(t) /\ ~At(t, "asking")
    BY <1>4, GoesMoves, CloseMoves DEF DidDrop, Peek, MovesOn, At
  <2>2. s'.state = "waiting" => s.state = "waiting"
    BY <1>4, CloseAsked DEF DidDrop, Peek
  <2> QED BY <1>4, <2>1, <2>2, AskedKept DEF DidDrop, Peek
<1>5. CASE LogOutOfSession(t)
  BY <1>5, LogOutAsked DEF LogOutOfSession, WaitingHasAsked
<1>6. CASE Update(t)
  <2>1. s'.state = "inactive"
    BY <1>0, <1>6 DEF Update, BecomesInactive, Inactive, SessionMembers
  <2> QED BY <2>1 DEF WaitingHasAsked
<1>7. CASE Inform(t)
  <2>1. OthersStay(t) /\ ~At(t, "asking")
    BY <1>7 DEF Inform, OthersStay, At, TypeOK
  <2> QED BY <1>7, <2>1, AskedKept DEF Inform
<1> QED BY <1>1, <1>2, <1>3, <1>4, <1>5, <1>6, <1>7 DEF Continue

LEMMA CallAsked ==
  ASSUME TypeOK, WaitingHasAsked, NEW t \in Anyone, Call(t)
  PROVE  WaitingHasAsked'
<1> USE DEF data
<1>0. s \in SessionMembers
  BY DEF TypeOK
<1>1. CASE UNCHANGED <<thread, asked>> /\ s'.state = s.state
  BY <1>1 DEF WaitingHasAsked, At
<1>2. CASE GetSession(t) \/ Drop(t) \/ UpdateConfiguration(t) \/ Resume(t)
  <2>1. OthersStay(t) /\ ~At(t, "asking")
    BY <1>2, GoesMoves, GoesThenMoves
    DEF GetSession, Drop, UpdateConfiguration, Resume, Locks, At
  <2> QED BY <1>2, <2>1, AskedKept DEF GetSession, Drop, UpdateConfiguration, Resume
<1>3. CASE LogOut(t) \/ LogIn(t)
  <2>1. (OthersStay(t) \/ UNCHANGED thread) /\ ~At(t, "asking")
    BY <1>3, GoesMoves, GoesThenMoves DEF LogOut, LogIn, At
  <2> QED BY <1>1, <1>3, <2>1, AskedKept DEF LogOut, LogIn
<1>4. CASE Suspend(t) \/ TokenRefused(t)
  BY <1>4, LogOutAsked DEF Suspend, TokenRefused, WaitingHasAsked
<1>5. CASE Commit(t)
  BY <1>0, <1>1, <1>5 DEF Commit, SessionMembers
<1>6. CASE Reconnect(t) \/ TokenDelayed \/ TokenLost
  BY <1>6 DEF Reconnect, TokenDelayed, TokenLost, WaitingHasAsked
<1>7. CASE RefreshAccessToken(t)
  <2>1. s'.state # "waiting"
    BY <1>0, <1>7 DEF RefreshAccessToken, Activated, Dying, SessionMembers
  <2> QED BY <2>1 DEF WaitingHasAsked
<1>8. CASE \E h \in Handler : WaitFor(t, h)
  BY <1>0, <1>1, <1>8 DEF WaitFor, SessionMembers
<1> QED BY <1>2, <1>3, <1>4, <1>5, <1>6, <1>7, <1>8 DEF Call

LEMMA ClientAsked ==
  ASSUME TypeOK, WaitingHasAsked, ClientCall
  PROVE  WaitingHasAsked'
<1> USE DEF data
<1>0. s \in SessionMembers /\ Client \in Anyone
  BY DEF TypeOK, Anyone
<1>1. CASE UNCHANGED <<thread, asked>> /\ s'.state = s.state
  BY <1>1 DEF WaitingHasAsked, At
<1>2. CASE Upload
  BY <1>1, <1>2 DEF Upload
<1>3. CASE \E h \in Handler : Complete(h)
  BY <1>0, <1>1, <1>3 DEF Complete, SessionMembers
<1>4. CASE \E d \in s.deathWaits : DeathCompletes(d)
  <2>1. \/ s'.state = "inactive"
        \/ s'.state = s.state /\ UNCHANGED thread
    BY <1>0, <1>4, ZenonT(30) DEF DeathCompletes, Inactive, SessionMembers
  <2> QED BY <1>1, <1>4, <2>1 DEF DeathCompletes, WaitingHasAsked
<1>5. CASE \E e \in ErrorKind \ {"none"} : Error(e)
  <2>1. \/ s'.state = "inactive"
        \/ UNCHANGED s /\ OthersStay(Client) /\ ~At(Client, "asking")
    BY <1>0, <1>5 DEF Error, BecomesInactive, Inactive, SessionMembers, OthersStay, At, TypeOK
  <2> QED BY <1>0, <1>5, <2>1, AskedKept DEF Error, WaitingHasAsked
<1>6. CASE HandleError
  <2>1. ~At(Client, "asking")
    BY <1>6 DEF HandleError, At
  <2>2. CASE s' = WaitingForToken(s) /\ GoesThen(Client, "asking", "idle")
    BY <1>0, <2>2, GoesThenMoves DEF WaitingHasAsked, At
  <2>3. CASE Goes(Client, "idle") /\ UNCHANGED s
    BY <1>0, <1>6, <2>1, <2>3, GoesMoves, AskedKept DEF HandleError
  <2>4. CASE BecomesInactive(Client, "idle")
    BY <1>0, <2>4 DEF BecomesInactive, Inactive, SessionMembers, WaitingHasAsked
  <2>5. CASE /\ s' = [s EXCEPT !.packages = {}]
             /\ \E r : thread' = [thread EXCEPT ![Client] = r]
    <3>1. s'.state = s.state /\ OthersStay(Client)
      BY <1>0, <2>5 DEF SessionMembers, OthersStay, TypeOK
    <3> QED BY <1>0, <1>6, <2>1, <3>1, AskedKept DEF HandleError
  <2> QED BY <1>6, <2>2, <2>3, <2>4, <2>5 DEF HandleError
<1> QED BY <1>2, <1>3, <1>4, <1>5, <1>6 DEF ClientCall

\* A session never waits for a token nobody was asked for: while it waits, the
\* binding has a request, if only a lost one, or a thread is between entering the
\* state and the call of bind_session_handler, which comes after the mutex is
\* released.
THEOREM SyncWaitingHasAsked == Spec => []WaitingHasAsked
<1>1. Init => WaitingHasAsked
  BY DEF Init, WaitingHasAsked
<1>2. TypeOK /\ WaitingHasAsked /\ [Next]_vars => WaitingHasAsked'
  <2> SUFFICES ASSUME TypeOK, WaitingHasAsked, [Next]_vars PROVE WaitingHasAsked'
    OBVIOUS
  <2>1. CASE \E t \in Thread : Call(t)
    BY <2>1, CallAsked DEF Anyone
  <2>2. CASE \E t \in Anyone : Continue(t)
    BY <2>2, ContinueAsked
  <2>3. CASE ClientCall
    BY <2>3, ClientAsked
  <2>4. CASE UNCHANGED vars
    BY <2>4 DEF vars, WaitingHasAsked, At
  <2> QED BY <2>1, <2>2, <2>3, <2>4 DEF Next
<1> QED BY <1>1, <1>2, SyncTypes, PTL DEF Spec
=============================================================================
