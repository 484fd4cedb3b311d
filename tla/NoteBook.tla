------------------------------ MODULE NoteBook ------------------------------
(***************************************************************************)
(* What the store promises: a durable map from photos to notes in which a  *)
(* save replaces one note as a whole, and nothing else ever happens. There *)
(* is no operation that removes a note.                                    *)
(***************************************************************************)
EXTENDS Notes

VARIABLE notes   \* notes[p]: the note on p that survives a restart, or Nil

Init == notes = [p \in Photo |-> Nil]

Save(p, note) == notes' = [notes EXCEPT ![p] = note]

Next == \E p \in Photo, note \in Note : Save(p, note)

Spec == Init /\ [][Next]_notes
=============================================================================
