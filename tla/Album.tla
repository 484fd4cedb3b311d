------------------------------- MODULE Album -------------------------------
(***************************************************************************)
(* What the application promises somebody who waits for each photo to      *)
(* appear: an album open at one page, in which one writes only on the page *)
(* that is open.                                                           *)
(***************************************************************************)
EXTENDS Notes

VARIABLES
  notes,  \* the note on each photo
  page    \* the photo the album is open at, or Nil when it is closed

album == <<notes, page>>

Init ==
  /\ notes = [p \in Photo |-> Nil]
  /\ page = Nil

Turn(p) ==
  /\ page' = p
  /\ UNCHANGED notes

Write(note) ==
  /\ page # Nil
  /\ notes' = [notes EXCEPT ![page] = note]
  /\ UNCHANGED page

Next ==
  \/ \E p \in Photo \cup {Nil} : Turn(p)
  \/ \E note \in Note : Write(note)

Spec == Init /\ [][Next]_album
=============================================================================
