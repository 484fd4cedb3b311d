----------------------------- MODULE NoteStore -----------------------------
(***************************************************************************)
(* NoteManager over Realm.  One Realm instance, confined to the main       *)
(* thread, on which saveNote runs a write transaction: begin, add the row, *)
(* call the caller's completion INSIDE the transaction, commit.  Each of   *)
(* these is a step of its own, because the process may die between any two *)
(* of them and because two of them can fail:                               *)
(*   - beginning and adding may raise an RLMException;                     *)
(*   - the completion runs user-interface code, which may raise an         *)
(*     Objective-C exception that nothing catches;                         *)
(*   - the commit may run out of disk.  Realm.write then throws without    *)
(*     cancelling, and the shared group stays in its writing stage.        *)
(* While saveNote runs the main thread does nothing else, so every action  *)
(* of the rest of the application is guarded by pc = "idle".               *)
(***************************************************************************)
EXTENDS Notes, Sequences

VARIABLES
  realm,    \* whether the instance could be opened: "realm" is not nil
  stage,    \* the shared group's transaction stage
  disk,     \* the latest committed snapshot: what a restart finds
  table,    \* the Note table as this instance reads it
  pc,       \* where saveNote is
  call,     \* the arguments of the latest saveNote, as key and row
  answers,  \* what the completion of that call has been told, in order
  fault     \* the uncaught exception that ended the process

storeVars == <<realm, stage, disk, table, pc, call, answers, fault>>

ASSUME NilIsNoCall == Nil \notin [photoId : Photo, note : Note]

Rows == [Photo -> Note \cup {Nil}]

NoRows == [p \in Photo |-> Nil]

StoreTypeOK ==
  /\ realm \in BOOLEAN
  /\ stage \in {"Reading", "Writing"}
  /\ disk \in Rows
  /\ table \in Rows
  /\ pc \in {"idle", "adding", "completing", "committing"}
  /\ call \in [photoId : Photo, note : Note] \cup {Nil}
  /\ answers \in {<<>>, <<"saved">>, <<"saved", "failed">>}
  /\ fault \in {"none", "RLMException", "NSException"}

Running == fault = "none"

\* Mutant of Idle: saveNote leaves the main thread free.
IdleWhileSaving == Running

\* The main thread is in its run loop: no call of saveNote is on the stack.
Idle == Running /\ pc = "idle"

-----------------------------------------------------------------------------
\* NoteManager.init: opening the file may throw, and then there is no Realm
\* and every lookup answers nil.
Open ==
  /\ realm' \in BOOLEAN
  /\ table' = IF realm' THEN disk ELSE NoRows
  /\ stage' = "Reading"
  /\ pc' = "idle"
  /\ call' = Nil
  /\ answers' = <<>>
  /\ fault' = "none"

StoreInit ==
  /\ disk = NoRows
  /\ realm \in BOOLEAN
  /\ table = NoRows
  /\ stage = "Reading"
  /\ pc = "idle"
  /\ call = Nil
  /\ answers = <<>>
  /\ fault = "none"

\* The row is read through the instance, uncommitted changes included.
getNote(photoId) == table[photoId]

\* Mutants of saveNote: the answers of the last call are kept, and an open
\* transaction is written on.
saveNoteKeepingAnswers(photoId, noteTitle, noteDetail) ==
  /\ Idle /\ realm /\ stage = "Reading"
  /\ call' = [photoId |-> photoId, note |-> NewNote(noteTitle, noteDetail)]
  /\ stage' = "Writing"
  /\ pc' = "adding"
  /\ UNCHANGED <<realm, disk, table, answers, fault>>

saveNoteInOpenWrite(photoId, noteTitle, noteDetail) ==
  /\ Idle /\ realm
  /\ call' = [photoId |-> photoId, note |-> NewNote(noteTitle, noteDetail)]
  /\ answers' = <<>>
  /\ stage' = "Writing"
  /\ pc' = "adding"
  /\ UNCHANGED <<realm, disk, table, fault>>

\* saveNote up to beginWrite.  "realm?.write" without a Realm does nothing
\* and calls nobody.  Beginning raises inside an open transaction, and when
\* the file cannot be prepared.
saveNote(photoId, noteTitle, noteDetail) ==
  /\ Idle
  /\ call' = [photoId |-> photoId, note |-> NewNote(noteTitle, noteDetail)]
  /\ answers' = <<>>
  /\ \/ /\ ~ realm
        /\ UNCHANGED <<stage, pc, fault>>
     \/ /\ realm /\ stage = "Reading"
        /\ stage' = "Writing"
        /\ pc' = "adding"
        /\ UNCHANGED fault
     \/ /\ realm
        /\ fault' = "RLMException"
        /\ UNCHANGED <<stage, pc>>
  /\ UNCHANGED <<realm, disk, table>>

\* realm.add(note, update: .all): the row with this key is created, or all
\* of its columns are overwritten.  A file that cannot grow raises here.
add ==
  /\ Running /\ pc = "adding"
  /\ \/ /\ table' = [table EXCEPT ![call.photoId] = call.note]
        /\ pc' = "completing"
        /\ UNCHANGED fault
     \/ /\ fault' = "RLMException"
        /\ UNCHANGED <<table, pc>>
  /\ UNCHANGED <<realm, stage, disk, call, answers>>

\* completion(note), called before anything is committed.
completion ==
  /\ Running /\ pc = "completing"
  /\ answers' = Append(answers, "saved")
  /\ pc' = "committing"
  /\ UNCHANGED <<realm, stage, disk, table, call, fault>>

\* User-interface code raises: in an event handler, or in the completion
\* with the transaction still open.
raise ==
  /\ Running /\ pc \in {"idle", "completing"}
  /\ fault' = "NSException"
  /\ UNCHANGED <<realm, stage, disk, table, pc, call, answers>>

\* Mutant of commitWrite: the transaction ends without a commit.
commitWriteNothing ==
  /\ Running /\ pc = "committing"
  /\ stage' = "Reading"
  /\ pc' = "idle"
  /\ UNCHANGED <<realm, disk, table, call, answers, fault>>

\* The commit succeeds: the snapshot is durable and the stage is Reading.
commitWrite ==
  /\ Running /\ pc = "committing"
  /\ disk' = table
  /\ stage' = "Reading"
  /\ pc' = "idle"
  /\ UNCHANGED <<realm, table, call, answers, fault>>

\* Mutant of commitFails: the error is swallowed.
commitFailsSilently ==
  /\ Running /\ pc = "committing"
  /\ pc' = "idle"
  /\ UNCHANGED <<realm, stage, disk, table, call, answers, fault>>

\* The commit throws: the completion is called a second time, with nil, and
\* the transaction stays open with the row in it.
commitFails ==
  /\ Running /\ pc = "committing"
  /\ answers' = Append(answers, "failed")
  /\ pc' = "idle"
  /\ UNCHANGED <<realm, stage, disk, table, call, fault>>

\* Mutant of relaunch: a file that cannot be opened is deleted.
relaunchDeleting ==
  /\ Open
  /\ disk' = IF realm' THEN disk ELSE NoRows

\* The process dies (killed, or after a fault) and is launched again.
relaunch ==
  /\ Open
  /\ UNCHANGED disk

StoreNext ==
  \/ \E p \in Photo, title, detail \in String : saveNote(p, title, detail)
  \/ add
  \/ completion
  \/ raise
  \/ commitWrite
  \/ commitFails
  \/ relaunch

StoreSpec == StoreInit /\ [][StoreNext]_storeVars

-----------------------------------------------------------------------------
\* What is on disk is a NoteBook: every commit is one whole note saved.
Book == INSTANCE NoteBook WITH notes <- disk

\* NoteManager.saveNote promises a note book: whatever the failures and
\* restarts, the committed table changes only by one save of one whole row.
ImplementsNoteBook == Book!Spec

\* Between saves, and unless a commit has failed, getNote answers what is
\* durable.  It breaks if a transaction is left behind by an early return.
ReadsAreDurable ==
  Idle /\ realm /\ stage = "Reading" => table = disk

\* Whatever happens, at most one note differs from what a restart would
\* bring back: the one being saved, or the one whose commit failed (the
\* next save then raises before it touches the table).
AtMostOneAtRisk ==
  realm => \A p, q \in Photo : table[p] # disk[p] /\ table[q] # disk[q] => p = q

\* When saveNote has returned, the last thing its completion was told is the
\* truth: "saved" means durable, although it is said before the commit.
LastAnswerIsTrue ==
  Idle /\ answers # <<>> =>
    (answers[Len(answers)] = "saved" => disk[call.photoId] = call.note)

\* README.md:13 (milestone 1.1.0): notes are saved locally via Realm.  A
\* save that has returned was answered, so that the view can tell the user.
EverySaveIsAnswered == Idle /\ call # Nil => answers # <<>>
=============================================================================
