------------------------ MODULE NoteTakingViewModel ------------------------
(***************************************************************************)
(* NoteTakingViewModel: which row is selected, which photo is current,     *)
(* the text and image the screen is to show, and the cached cell view      *)
(* models, keyed by row.  Selected row and current photo are two           *)
(* variables: the photo changes when a row is tapped, the row only when    *)
(* the large image has arrived.                                            *)
(***************************************************************************)
EXTENDS NoteStore, PhotoManager

CONSTANT DefaultItem   \* the row selected at launch: 2 in the code

ASSUME DefaultItemIsRow == DefaultItem \in Item

VARIABLES
  selectedIndexPath,     \* the selected row
  currentSelectedPhoto,  \* the photo whose note a save writes, or Nil
  cellViewModels,        \* row -> cached cell view model, or Nil
  info                   \* photoCreatedData, largePhoto, noteTitle and noteDetail

modelVars == <<selectedIndexPath, currentSelectedPhoto, cellViewModels, info>>

\* A Photo object.  Its image is told apart by the photo it shows; its note
\* is a live Realm object, so that only its presence is state of its own.
CurrentPhoto == [photoId : Photo, photo : Photo, note : BOOLEAN]

CellViewModel == [photo : Photo \cup {Nil}, hasNote : BOOLEAN, isSelected : BOOLEAN]

\* The creation date is told apart by the photo it belongs to.
Info == [date : Photo \cup {Nil}, image : Photo \cup {Nil}, title : String, detail : String]

ASSUME NilIsNoObject == Nil \notin CurrentPhoto /\ Nil \notin CellViewModel

ModelTypeOK ==
  /\ selectedIndexPath \in Item
  /\ currentSelectedPhoto \in CurrentPhoto \cup {Nil}
  /\ cellViewModels \in [Item -> CellViewModel \cup {Nil}]
  /\ info \in Info

\* At launch the four properties are nil; a nil text shows as the empty one.
NoInfo == [date |-> Nil, image |-> Nil, title |-> Empty, detail |-> Empty]

NoCells == [i \in Item |-> Nil]

-----------------------------------------------------------------------------
\* Photo.init looks its note up when the photo is fetched.
NewPhoto(p) == [photoId |-> p, photo |-> p, note |-> getNote(p) # Nil]

\* photo.note, read through the live object.
NoteOf(photo) == IF photo.note THEN getNote(photo.photoId) ELSE Nil

\* setSelectedPhotoInfo: an absent or empty note shows as "" and the placeholder.
setSelectedPhotoInfo(photo) ==
  LET note == NoteOf(photo) IN
  [date   |-> photo.photoId,
   image  |-> photo.photo,
   title  |-> IF HasNote(note) THEN note.noteTitle ELSE Empty,
   detail |-> IF HasNote(note) THEN note.noteDetail ELSE DefaultNoteDetail]

NewCellViewModel(p, selected) ==
  [photo |-> p, hasNote |-> HasNote(getNote(p)), isSelected |-> selected]

\* The cache after getCellViewModel(item).  The row's view model is cached
\* on first use and never dropped.  A row without a photo or a thumbnail
\* gets a fresh default one instead, even when one is cached.
getCellViewModel(cells, item, selected, ready) ==
  IF fetchPhoto(fetchResult, item, ready) /\ cells[item] = Nil
  THEN [cells EXCEPT ![item] = NewCellViewModel(PhotoAt(fetchResult, item), item = selected)]
  ELSE cells

\* getCellViewModel(item)?.isSelected = flag: lost on a default view model.
SetSelected(cells, item, selected, flag, ready) ==
  IF fetchPhoto(fetchResult, item, ready)
  THEN [getCellViewModel(cells, item, selected, ready) EXCEPT ![item].isSelected = flag]
  ELSE cells

\* setCurrentSelectedPhoto for a row that has a photo: it becomes current at
\* once and its large image is requested, or nothing happens at all.
setCurrentSelectedPhoto(library, item, caller, ready) ==
  /\ HasPhotoAt(library, item)
  /\ \/ /\ fetchPhoto(library, item, ready)
        /\ currentSelectedPhoto' = NewPhoto(PhotoAt(library, item))
        /\ loadLargeImage(item, PhotoAt(library, item), caller)
     \/ /\ ~ fetchPhoto(library, item, ready)
        /\ UNCHANGED <<currentSelectedPhoto, loads>>

\* Mutant of updateSelectedIndexPath: it is never called.
updateSelectedIndexPathForgotten(item) == UNCHANGED selectedIndexPath

updateSelectedIndexPath(item) == selectedIndexPath' = item

\* Mutants of largeImageArrived: nil taken for an image, and an early return.
largeImageArrivedUnchecked(image) ==
  LET photo == [currentSelectedPhoto EXCEPT !.photo = image] IN
  /\ currentSelectedPhoto' = photo
  /\ info' = setSelectedPhotoInfo(photo)

largeImageArrivedOrIgnored(image) ==
  LET photo == [currentSelectedPhoto EXCEPT !.photo = image] IN
  IF image = Nil THEN UNCHANGED <<currentSelectedPhoto, info>>
  ELSE /\ currentSelectedPhoto' = photo
       /\ info' = setSelectedPhotoInfo(photo)

\* The large image of a load goes to whatever photo is current by now, and
\* to whatever view model is cached at the row, which a nil image blanks.
largeImageArrived(image) ==
  LET photo == [currentSelectedPhoto EXCEPT !.photo = IF image = Nil THEN @ ELSE image] IN
  /\ currentSelectedPhoto' = photo
  /\ info' = setSelectedPhotoInfo(photo)

\* Mutant of CellsWithImage: the row is the selected one, not the captured one.
CellsWithImageSelected(item, image) ==
  IF cellViewModels[selectedIndexPath] = Nil THEN cellViewModels
  ELSE [cellViewModels EXCEPT ![selectedIndexPath].photo = image]

CellsWithImage(item, image) ==
  IF cellViewModels[item] = Nil THEN cellViewModels
  ELSE [cellViewModels EXCEPT ![item].photo = image]

\* Mutants of noteSaved: the photo, and the view model, are forgotten.
noteSavedWithoutPhoto ==
  /\ cellViewModels' =
       IF cellViewModels[selectedIndexPath] = Nil THEN cellViewModels
       ELSE [cellViewModels EXCEPT ![selectedIndexPath].hasNote = call.note.hasNote]
  /\ UNCHANGED <<selectedIndexPath, currentSelectedPhoto, info>>

noteSavedWithoutCell ==
  /\ currentSelectedPhoto' = [currentSelectedPhoto EXCEPT !.note = TRUE]
  /\ UNCHANGED <<cellViewModels, selectedIndexPath, info>>

\* The completion that saveNote hands to the note manager, on success: the
\* photo gets its note, the view model of the selected row its indicator.
noteSaved ==
  /\ currentSelectedPhoto' = [currentSelectedPhoto EXCEPT !.note = TRUE]
  /\ cellViewModels' =
       IF cellViewModels[selectedIndexPath] = Nil THEN cellViewModels
       ELSE [cellViewModels EXCEPT ![selectedIndexPath].hasNote = call.note.hasNote]
  /\ UNCHANGED <<selectedIndexPath, info>>
=============================================================================
