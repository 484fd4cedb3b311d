-------------------------- MODULE NoteStoreProofs --------------------------
(***************************************************************************)
(* NoteStore for every set of photos and texts: the type invariant, the    *)
(* three safety invariants of the save transaction, and the refinement of  *)
(* NoteBook.                                                               *)
(***************************************************************************)
EXTENDS NoteStore, SequenceTheorems, TLAPS

\* Outside the row being saved, the open transaction changes nothing.
OnlyTheCalledRow ==
  \A p \in Photo : p # call.photoId => table[p] = disk[p]

\* The called row is in the table.
RowAdded == table[call.photoId] = call.note

\* What holds at each place of saveNote.  ReadsAreDurable, AtMostOneAtRisk
\* and LastAnswerIsTrue speak of the ends of a save; a commit makes them
\* true again because of what the three steps before it have established.
DuringSave ==
  /\ pc # "idle" => stage = "Writing" /\ call # Nil /\ OnlyTheCalledRow
  /\ pc \in {"adding", "completing"} => answers = <<>>
  /\ pc = "committing" => answers = <<"saved">>
  /\ pc \in {"completing", "committing"} => RowAdded

\* What holds between saves.
BetweenSaves ==
  /\ realm /\ stage = "Reading" => table = disk
  /\ pc = "idle" /\ answers = <<"saved">> =>
       call # Nil /\ disk[call.photoId] = call.note

StoreInv == StoreTypeOK /\ DuringSave /\ BetweenSaves /\ AtMostOneAtRisk

-----------------------------------------------------------------------------
\* Appending an answer, spelled out: the completion is told "saved" first,
\* and "failed" only after it.
LEMMA AnswerSequences ==
  /\ Append(<<>>, "saved") = <<"saved">>
  /\ Append(<<"saved">>, "failed") = <<"saved", "failed">>
  /\ <<"saved">> # <<>>
  /\ <<"saved", "failed">> # <<>>
  /\ <<"saved">> # <<"saved", "failed">>
  /\ Len(<<"saved">>) = 1
  /\ Len(<<"saved", "failed">>) = 2
  /\ <<"saved">>[1] = "saved"
  /\ <<"saved", "failed">>[2] = "failed"
<1>1. Append(<<>>, "saved") = <<"saved">>
  OBVIOUS
<1>2. Append(<<"saved">>, "failed") = <<"saved", "failed">>
  <2> DEFINE told == Append(<<"saved">>, "failed")
  <2>1. <<"saved">> \in Seq({"saved", "failed"}) /\ "failed" \in {"saved", "failed"}
    OBVIOUS
  <2>2. /\ told \in Seq({"saved", "failed"})
        /\ Len(told) = 2
        /\ told[1] = "saved"
        /\ told[2] = "failed"
    BY <2>1, AppendProperties
  <2>3. <<"saved", "failed">> \in Seq({"saved", "failed"})
    OBVIOUS
  <2> HIDE DEF told
  <2>4. told = <<"saved", "failed">>
    BY <2>2, <2>3, SeqEqual
  <2> QED BY <2>4 DEF told
<1>3. Len(<<"saved">>) = 1 /\ Len(<<"saved", "failed">>) = 2 /\ Len(<<>>) = 0
  OBVIOUS
<1>4. <<"saved">>[1] = "saved" /\ <<"saved", "failed">>[2] = "failed"
  OBVIOUS
<1> QED BY <1>1, <1>2, <1>3, <1>4

\* A row that saveNote builds is a note, and no note is Nil.
LEMMA NewNoteIsNote ==
  ASSUME NEW title \in String, NEW detail \in String
  PROVE  NewNote(title, detail) \in Note
BY DEF Note

\* A call is not Nil, so that its fields are known from its type.
LEMMA CallFields ==
  ASSUME call \in [photoId : Photo, note : Note] \cup {Nil}, call # Nil
  PROVE  call.photoId \in Photo /\ call.note \in Note
OBVIOUS

-----------------------------------------------------------------------------
LEMMA StoreInitInv == StoreInit => StoreInv
<1> SUFFICES ASSUME StoreInit PROVE StoreInv
  OBVIOUS
<1>1. StoreTypeOK
  BY DEF StoreInit, StoreTypeOK, Rows, NoRows
<1>2. DuringSave /\ BetweenSaves /\ AtMostOneAtRisk
  BY AnswerSequences DEF StoreInit, DuringSave, BetweenSaves, AtMostOneAtRisk
<1> QED BY <1>1, <1>2 DEF StoreInv

LEMMA SaveNoteInv ==
  ASSUME StoreInv, NEW p \in Photo, NEW title \in String, NEW detail \in String,
         saveNote(p, title, detail)
  PROVE  StoreInv'
<1> USE DEF StoreInv, saveNote, Idle
<1>1. call' \in [photoId : Photo, note : Note] /\ call' # Nil
  BY NewNoteIsNote, NilIsNoCall
<1>2. StoreTypeOK'
  BY <1>1 DEF StoreTypeOK
<1>3. DuringSave'
  BY <1>1 DEF StoreTypeOK, DuringSave, BetweenSaves, OnlyTheCalledRow
<1>4. BetweenSaves'
  BY AnswerSequences DEF BetweenSaves
<1>5. AtMostOneAtRisk'
  BY DEF AtMostOneAtRisk
<1> QED BY <1>2, <1>3, <1>4, <1>5

LEMMA AddInv ==
  ASSUME StoreInv, add
  PROVE  StoreInv'
<1> USE DEF StoreInv, add
<1>1. CASE fault' = "RLMException" /\ UNCHANGED <<table, pc>>
  BY <1>1 DEF StoreTypeOK, DuringSave, BetweenSaves, AtMostOneAtRisk, OnlyTheCalledRow, RowAdded
<1>2. CASE /\ table' = [table EXCEPT ![call.photoId] = call.note]
           /\ pc' = "completing"
           /\ UNCHANGED fault
  <2>1. call.photoId \in Photo /\ call.note \in Note
    BY CallFields DEF StoreTypeOK, DuringSave
  <2>2. /\ table' \in Rows
        /\ table'[call.photoId] = call.note
        /\ \A q \in Photo : q # call.photoId => table'[q] = disk[q]
    BY <1>2, <2>1 DEF StoreTypeOK, Rows, DuringSave, OnlyTheCalledRow
  <2>3. StoreTypeOK'
    BY <1>2, <2>2 DEF StoreTypeOK
  <2>4. DuringSave'
    BY <1>2, <2>2 DEF DuringSave, OnlyTheCalledRow, RowAdded
  <2>5. BetweenSaves'
    BY <1>2 DEF BetweenSaves, DuringSave
  <2>6. AtMostOneAtRisk'
    BY <1>2, <2>2 DEF AtMostOneAtRisk
  <2> QED BY <2>3, <2>4, <2>5, <2>6
<1> QED BY <1>1, <1>2

LEMMA CompletionInv ==
  ASSUME StoreInv, completion
  PROVE  StoreInv'
<1> USE DEF StoreInv, completion
<1>1. answers' = <<"saved">>
  BY AnswerSequences DEF DuringSave
<1>2. StoreTypeOK'
  BY <1>1 DEF StoreTypeOK
<1>3. DuringSave'
  BY <1>1 DEF DuringSave, OnlyTheCalledRow, RowAdded
<1>4. BetweenSaves'
  BY DEF BetweenSaves, DuringSave
<1>5. AtMostOneAtRisk'
  BY DEF AtMostOneAtRisk
<1> QED BY <1>2, <1>3, <1>4, <1>5

LEMMA CommitWriteInv ==
  ASSUME StoreInv, commitWrite
  PROVE  StoreInv'
<1> USE DEF StoreInv, commitWrite
<1>1. StoreTypeOK'
  BY DEF StoreTypeOK
<1>2. DuringSave'
  BY DEF DuringSave
<1>3. BetweenSaves'
  BY DEF BetweenSaves, DuringSave, RowAdded
<1>4. AtMostOneAtRisk'
  BY DEF AtMostOneAtRisk
<1> QED BY <1>1, <1>2, <1>3, <1>4

LEMMA CommitFailsInv ==
  ASSUME StoreInv, commitFails
  PROVE  StoreInv'
<1> USE DEF StoreInv, commitFails
<1>1. answers' = <<"saved", "failed">>
  BY AnswerSequences DEF DuringSave
<1>2. StoreTypeOK'
  BY <1>1 DEF StoreTypeOK
<1>3. DuringSave'
  BY DEF DuringSave
<1>4. BetweenSaves'
  BY <1>1, AnswerSequences DEF BetweenSaves, DuringSave
<1>5. AtMostOneAtRisk'
  BY DEF AtMostOneAtRisk
<1> QED BY <1>2, <1>3, <1>4, <1>5

LEMMA RaiseInv ==
  ASSUME StoreInv, raise
  PROVE  StoreInv'
BY DEF StoreInv, raise, StoreTypeOK, DuringSave, BetweenSaves, AtMostOneAtRisk,
       OnlyTheCalledRow, RowAdded

LEMMA RelaunchInv ==
  ASSUME StoreInv, relaunch
  PROVE  StoreInv'
<1> USE DEF StoreInv, relaunch, Open
<1>1. StoreTypeOK'
  BY DEF StoreTypeOK, Rows, NoRows
<1>2. DuringSave' /\ BetweenSaves' /\ AtMostOneAtRisk'
  BY AnswerSequences DEF DuringSave, BetweenSaves, AtMostOneAtRisk
<1> QED BY <1>1, <1>2

LEMMA StoreStutterInv ==
  ASSUME StoreInv, UNCHANGED storeVars
  PROVE  StoreInv'
BY DEF StoreInv, storeVars, StoreTypeOK, DuringSave, BetweenSaves, AtMostOneAtRisk,
       OnlyTheCalledRow, RowAdded

\* The invariant of the save transaction is preserved: one step per action.
LEMMA StoreStepInv ==
  ASSUME StoreInv, [StoreNext]_storeVars
  PROVE  StoreInv'
<1>1. CASE \E p \in Photo, title, detail \in String : saveNote(p, title, detail)
  BY <1>1, SaveNoteInv
<1>2. CASE add
  BY <1>2, AddInv
<1>3. CASE completion
  BY <1>3, CompletionInv
<1>4. CASE raise
  BY <1>4, RaiseInv
<1>5. CASE commitWrite
  BY <1>5, CommitWriteInv
<1>6. CASE commitFails
  BY <1>6, CommitFailsInv
<1>7. CASE relaunch
  BY <1>7, RelaunchInv
<1>8. CASE UNCHANGED storeVars
  BY <1>8, StoreStutterInv
<1> QED BY <1>1, <1>2, <1>3, <1>4, <1>5, <1>6, <1>7, <1>8 DEF StoreNext

\* The inductive invariant holds in every state of every run of the store.
THEOREM StoreInvariant == StoreSpec => []StoreInv
<1>1. StoreInit => StoreInv
  BY StoreInitInv
<1>2. StoreInv /\ [StoreNext]_storeVars => StoreInv'
  BY StoreStepInv
<1> QED BY <1>1, <1>2, PTL DEF StoreSpec

-----------------------------------------------------------------------------
\* Every variable of the store keeps its type.
THEOREM StoreTypes == StoreSpec => []StoreTypeOK
<1>1. StoreInv => StoreTypeOK
  BY DEF StoreInv
<1> QED BY <1>1, StoreInvariant, PTL

\* getNote answers durable rows whenever no transaction is open.
THEOREM StoreReadsAreDurable == StoreSpec => []ReadsAreDurable
<1>1. StoreInv => ReadsAreDurable
  BY DEF StoreInv, BetweenSaves, ReadsAreDurable
<1> QED BY <1>1, StoreInvariant, PTL

\* A crash, an exception or a full disk costs at most one note.
THEOREM StoreLosesAtMostOne == StoreSpec => []AtMostOneAtRisk
<1>1. StoreInv => AtMostOneAtRisk
  BY DEF StoreInv
<1> QED BY <1>1, StoreInvariant, PTL

\* The last answer a save gave is the truth about the disk.
THEOREM StoreLastAnswerIsTrue == StoreSpec => []LastAnswerIsTrue
<1>1. StoreInv => LastAnswerIsTrue
  <2> SUFFICES ASSUME StoreInv, Idle, answers # <<>>,
                      answers[Len(answers)] = "saved"
               PROVE  disk[call.photoId] = call.note
    BY DEF LastAnswerIsTrue
  <2>1. answers = <<"saved">> \/ answers = <<"saved", "failed">>
    BY DEF StoreInv, StoreTypeOK
  <2>2. answers # <<"saved", "failed">>
    BY AnswerSequences
  <2> QED BY <2>1, <2>2 DEF StoreInv, BetweenSaves, Idle
<1> QED BY <1>1, StoreInvariant, PTL

\* Only a commit moves the disk, and it saves one whole note.
LEMMA StoreStepIsBookStep ==
  ASSUME StoreInv, [StoreNext]_storeVars
  PROVE  [Book!Next]_disk
<1>1. CASE commitWrite
  <2>1. call.photoId \in Photo /\ call.note \in Note
    BY <1>1, CallFields DEF commitWrite, StoreInv, StoreTypeOK, DuringSave
  <2>2. table = [disk EXCEPT ![call.photoId] = call.note]
    BY <1>1, <2>1
    DEF commitWrite, StoreInv, StoreTypeOK, Rows, DuringSave, OnlyTheCalledRow, RowAdded
  <2>3. Book!Save(call.photoId, call.note)
    BY <1>1, <2>2 DEF commitWrite, Book!Save
  <2> QED BY <2>1, <2>3 DEF Book!Next, Note, NewNote, String, Book!Note,
                            Book!NewNote, Book!String
<1>2. CASE ~ commitWrite
  BY <1>2 DEF StoreNext, storeVars, saveNote, add, completion, raise,
              commitFails, relaunch
<1> QED BY <1>1, <1>2

\* The store implements the note book, with the disk as its notes.
THEOREM StoreImplementsNoteBook == StoreSpec => ImplementsNoteBook
<1>1. StoreInit => Book!Init
  BY DEF StoreInit, NoRows, Book!Init
<1>2. StoreInv /\ [StoreNext]_storeVars => [Book!Next]_disk
  BY StoreStepIsBookStep
<1> QED BY <1>1, <1>2, StoreInvariant, PTL
        DEF StoreSpec, ImplementsNoteBook, Book!Spec
=============================================================================
