------------------------------- MODULE Notes -------------------------------
(***************************************************************************)
(* The data of the notebook: photos, the strings a text field can hold,    *)
(* and the Realm row that saveNote builds from a title and a detail.       *)
(* Strings are told apart only where the code does: the empty string, the  *)
(* text view's placeholder, and everything else.                           *)
(***************************************************************************)

CONSTANTS
  Photo,              \* local identifiers of the assets, the primary keys of the rows
  Text,               \* what a user may type: neither empty nor the placeholder
  Empty,              \* ""
  DefaultNoteDetail,  \* Constants.defaultNoteDetail, shown in place of an empty detail
  Nil                 \* the nil of every optional: no row, no photo, no image, no object

ASSUME StringsDiffer ==
  /\ Empty # DefaultNoteDetail
  /\ {Empty, DefaultNoteDetail} \cap Text = {}

String == Text \cup {Empty, DefaultNoteDetail}

\* The row of the Note table without its key.
NoteRow == [hasNote : BOOLEAN, noteTitle : String, noteDetail : String]

ASSUME NilIsNoRow == Nil \notin NoteRow

\* The row saveNote builds: the flag says whether there is anything to read.
NewNote(title, detail) ==
  [hasNote    |-> ~ (title = Empty /\ detail = Empty),
   noteTitle  |-> title,
   noteDetail |-> detail]

\* Every row saveNote can build.
Note == {NewNote(title, detail) : title \in String, detail \in String}

\* "photo?.note?.hasNote ?? false"
HasNote(note) == note # Nil /\ note.hasNote

\* The view model saves the placeholder as an empty detail.
StripPlaceholder(detail) == IF detail = DefaultNoteDetail THEN Empty ELSE detail
=============================================================================
