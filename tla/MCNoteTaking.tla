---------------------------- MODULE MCNoteTaking ----------------------------
(***************************************************************************)
(* NoteTaking for TLC.  The rows, the default row and the placeholders are *)
(* smaller than in the code (5 placeholders, default row 2) except where a *)
(* run says so; README.md gives the reason for every bound.                *)
(***************************************************************************)
EXTENDS NoteTaking

CONSTANTS p1, p2, t1

TwoPhotos == {p1, p2}
OneText == {t1}

\* The lists of assets.
OnePair == {<<p1, p2>>}
PairOrOne == {<<p1, p2>>, <<p2>>}
EitherOrNone == {<<p1>>, <<p2>>, <<>>}
EitherPhoto == {<<p1>>, <<p2>>}

\* The thumbnails at hand in a handler.
AllThumbnails == {TwoPhotos}
AllOrNone == {TwoPhotos, {}}

\* Rows, all of them or those laid out.
NoRow == {}
OneRow == {0}
TwoRows == 0 .. 1
FiveRows == 0 .. 4

\* What is edited and typed.
BothTexts == {"title", "detail"}
DetailOnly == {"detail"}
TitleOnly == {"title"}
Nothing == {}
TypedOrCleared == {t1, Empty}
=============================================================================
