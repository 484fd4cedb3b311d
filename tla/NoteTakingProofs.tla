-------------------------- MODULE NoteTakingProofs --------------------------
(***************************************************************************)
(* NoteTaking for every library, every choice of thumbnails, every number  *)
(* of rows and of loads: type correctness, that a save is about what is on *)
(* the screen, that the application uses the store as NoteStore describes, *)
(* so that the theorems of NoteStoreProofs hold of it, and that the screen *)
(* shows the current photo's note.                                         *)
(***************************************************************************)
EXTENDS NoteTaking, NoteStoreProofs

\* A large image is awaited only for a photo that has become current.
LoadsHaveCurrent == loads # <<>> => currentSelectedPhoto # Nil

AppInv == StoreInv /\ TypeOK /\ SaveWritesTheScreen /\ LoadsHaveCurrent

-----------------------------------------------------------------------------
\* The operators that the handlers are built from.

LEMMA StripIsString ==
  ASSUME NEW detail \in String
  PROVE  StripPlaceholder(detail) \in String
BY DEF StripPlaceholder, String

\* The photo of a row that has one.
LEMMA PhotoAtIsPhoto ==
  ASSUME NEW library \in Libraries \cup {Nil}, NEW item \in Item,
         HasPhotoAt(library, item)
  PROVE  PhotoAt(library, item) \in Photo
BY LibrariesFit DEF HasPhotoAt, PhotoAt

LEMMA NewPhotoIsCurrentPhoto ==
  ASSUME NEW p \in Photo
  PROVE  NewPhoto(p) \in CurrentPhoto
BY DEF NewPhoto, CurrentPhoto

LEMMA RowsAreNotes ==
  ASSUME StoreTypeOK, NEW p \in Photo
  PROVE  getNote(p) \in Note \cup {Nil}
BY DEF StoreTypeOK, Rows, getNote

LEMMA NoteFields ==
  ASSUME NEW note \in Note
  PROVE  note.noteTitle \in String /\ note.noteDetail \in String /\ note.hasNote \in BOOLEAN
<1>1. PICK title, detail \in String : note = NewNote(title, detail)
  BY DEF Note
<1>2. note.noteTitle = title /\ note.noteDetail = detail
  BY <1>1 DEF NewNote
<1>3. note.hasNote = (~ (title = Empty /\ detail = Empty))
  BY <1>1, Zenon DEF NewNote
<1>4. note.hasNote \in BOOLEAN
  BY <1>3
<1> QED BY <1>2, <1>4

LEMMA SelectedInfoIsInfo ==
  ASSUME StoreTypeOK, NEW photo \in CurrentPhoto
  PROVE  setSelectedPhotoInfo(photo) \in Info
<1> DEFINE note == NoteOf(photo)
<1>1. photo.photoId \in Photo /\ photo.photo \in Photo
  BY DEF CurrentPhoto
<1>2. note \in Note \cup {Nil}
  BY <1>1, RowsAreNotes DEF NoteOf
<1>3. HasNote(note) => note.noteTitle \in String /\ note.noteDetail \in String
  BY <1>2, NoteFields DEF HasNote
<1>4. Empty \in String /\ DefaultNoteDetail \in String
  BY DEF String
<1> HIDE DEF note
<1> QED BY <1>1, <1>3, <1>4 DEF setSelectedPhotoInfo, Info, note

Cells == [Item -> CellViewModel \cup {Nil}]

LEMMA HasNoteIsBoolean ==
  ASSUME StoreTypeOK, NEW p \in Photo
  PROVE  HasNote(getNote(p)) \in BOOLEAN
BY RowsAreNotes, NoteFields DEF HasNote

LEMMA GetCellIsCells ==
  ASSUME StoreTypeOK, PhotoTypeOK, NEW cells \in Cells, NEW item \in Item,
         NEW selected \in Item, NEW ready \in ThumbnailSets
  PROVE  /\ getCellViewModel(cells, item, selected, ready) \in Cells
         /\ fetchPhoto(fetchResult, item, ready) =>
              getCellViewModel(cells, item, selected, ready)[item] # Nil
<1>1. CASE fetchPhoto(fetchResult, item, ready) /\ cells[item] = Nil
  <2> DEFINE p == PhotoAt(fetchResult, item)
  <2>1. p \in Photo
    BY <1>1, PhotoAtIsPhoto DEF fetchPhoto, PhotoTypeOK
  <2>2. HasNote(getNote(p)) \in BOOLEAN
    BY <2>1, HasNoteIsBoolean
  <2>3. NewCellViewModel(p, item = selected) \in CellViewModel
    BY <2>1, <2>2 DEF NewCellViewModel, CellViewModel
  <2>4. NewCellViewModel(p, item = selected) # Nil
    BY <2>3, NilIsNoObject
  <2> HIDE DEF p
  <2> QED BY <1>1, <2>3, <2>4 DEF getCellViewModel, Cells, p
<1>2. CASE ~ (fetchPhoto(fetchResult, item, ready) /\ cells[item] = Nil)
  BY <1>2 DEF getCellViewModel
<1> QED BY <1>1, <1>2

LEMMA SetSelectedIsCells ==
  ASSUME StoreTypeOK, PhotoTypeOK, NEW cells \in Cells, NEW item \in Item,
         NEW selected \in Item, NEW flag \in BOOLEAN, NEW ready \in ThumbnailSets
  PROVE  SetSelected(cells, item, selected, flag, ready) \in Cells
<1> DEFINE got == getCellViewModel(cells, item, selected, ready)
<1>1. CASE fetchPhoto(fetchResult, item, ready)
  <2>1. got \in Cells /\ got[item] \in CellViewModel
    BY <1>1, GetCellIsCells DEF Cells
  <2> HIDE DEF got
  <2>2. [got[item] EXCEPT !.isSelected = flag] \in CellViewModel
    BY <2>1 DEF CellViewModel
  <2>3. [got EXCEPT ![item].isSelected = flag] \in Cells
    BY <2>1, <2>2 DEF Cells
  <2> QED BY <1>1, <2>3 DEF SetSelected, got
<1>2. CASE ~ fetchPhoto(fetchResult, item, ready)
  BY <1>2 DEF SetSelected
<1> QED BY <1>1, <1>2

LEMMA CellsWithImageIsCells ==
  ASSUME ModelTypeOK, NEW item \in Item, NEW image \in Photo \cup {Nil}
  PROVE  CellsWithImage(item, image) \in Cells
<1>1. cellViewModels \in Cells
  BY DEF ModelTypeOK, Cells
<1>2. CASE cellViewModels[item] # Nil
  <2>1. cellViewModels[item] \in CellViewModel
    BY <1>1, <1>2 DEF Cells
  <2>2. [cellViewModels[item] EXCEPT !.photo = image] \in CellViewModel
    BY <2>1 DEF CellViewModel
  <2> QED BY <1>1, <1>2, <2>2 DEF CellsWithImage, Cells
<1>3. CASE cellViewModels[item] = Nil
  BY <1>1, <1>3 DEF CellsWithImage
<1> QED BY <1>2, <1>3

LEMMA NumberOfItemsIsNat ==
  ASSUME NEW library \in Libraries \cup {Nil}
  PROVE  numberOfItems(library) \in Nat
BY LibrariesFit, PlaceholdersAreRows DEF numberOfItems

\* A sequence without one of its elements.
LEMMA RemoveAtIsSeq ==
  ASSUME NEW S, NEW s \in Seq(S), NEW i \in DOMAIN s
  PROVE  RemoveAt(s, i) \in Seq(S)
BY DEF RemoveAt

-----------------------------------------------------------------------------
\* The operations of the view model.

LEMMA SetCurrentTypes ==
  ASSUME PhotoTypeOK, ModelTypeOK, NEW library \in Libraries \cup {Nil},
         NEW item \in Item, NEW caller \in {"initial", "select"},
         NEW ready \in ThumbnailSets,
         setCurrentSelectedPhoto(library, item, caller, ready)
  PROVE  /\ currentSelectedPhoto' \in CurrentPhoto \cup {Nil}
         /\ currentSelectedPhoto # Nil => currentSelectedPhoto' # Nil
         /\ loads' \in Seq(Load)
         /\ loads' # loads => currentSelectedPhoto' # Nil
<1> DEFINE p == PhotoAt(library, item)
<1>1. p \in Photo
  BY PhotoAtIsPhoto DEF setCurrentSelectedPhoto
<1>2. NewPhoto(p) \in CurrentPhoto /\ NewPhoto(p) # Nil
  BY <1>1, NewPhotoIsCurrentPhoto, NilIsNoObject
<1>3. [item |-> item, photo |-> p, caller |-> caller] \in Load
  BY <1>1 DEF Load
<1> HIDE DEF p
<1> QED BY <1>2, <1>3
        DEF setCurrentSelectedPhoto, loadLargeImage, PhotoTypeOK, ModelTypeOK, p

LEMMA SelectionCompletedTypes ==
  ASSUME StoreTypeOK, PhotoTypeOK, ModelTypeOK, NEW item \in Item,
         NEW cells \in Cells, NEW ready \in ThumbnailSets,
         selectionCompleted(item, cells, ready)
  PROVE  /\ selectedIndexPath' \in Item
         /\ cellViewModels' \in Cells
         /\ raise \/ UNCHANGED storeVars
<1>1. selectedIndexPath \in Item
  BY DEF ModelTypeOK
<1>2. SetSelected(cells, selectedIndexPath, item, FALSE, ready) \in Cells
  BY <1>1, SetSelectedIsCells
<1>3. SetSelected(SetSelected(cells, selectedIndexPath, item, FALSE, ready),
                  item, item, TRUE, ready) \in Cells
  BY <1>2, SetSelectedIsCells
<1> QED BY <1>3 DEF selectionCompleted, updateSelectedIndexPath, reloadItems

LEMMA LargeImageArrivedTypes ==
  ASSUME StoreTypeOK, ModelTypeOK, currentSelectedPhoto # Nil,
         NEW image \in Photo \cup {Nil}, largeImageArrived(image)
  PROVE  /\ currentSelectedPhoto' \in CurrentPhoto /\ currentSelectedPhoto' # Nil
         /\ info' \in Info
<1> DEFINE photo == [currentSelectedPhoto EXCEPT !.photo = IF image = Nil THEN @ ELSE image]
<1>1. photo \in CurrentPhoto
  BY DEF ModelTypeOK, CurrentPhoto
<1>2. currentSelectedPhoto' = photo /\ info' = setSelectedPhotoInfo(photo)
  BY DEF largeImageArrived
<1> HIDE DEF photo
<1>3. setSelectedPhotoInfo(photo) \in Info
  BY <1>1, SelectedInfoIsInfo
<1> QED BY <1>1, <1>2, <1>3, NilIsNoObject

LEMMA NoteSavedTypes ==
  ASSUME ModelTypeOK, currentSelectedPhoto # Nil, call.note \in Note, noteSaved
  PROVE  /\ currentSelectedPhoto' \in CurrentPhoto
         /\ currentSelectedPhoto'.photoId = currentSelectedPhoto.photoId
         /\ currentSelectedPhoto' # Nil
         /\ cellViewModels' \in Cells
<1>1. currentSelectedPhoto \in CurrentPhoto
  BY DEF ModelTypeOK
<1>2. /\ currentSelectedPhoto' \in CurrentPhoto
      /\ currentSelectedPhoto'.photoId = currentSelectedPhoto.photoId
  BY <1>1 DEF noteSaved, CurrentPhoto
<1>3. call.note.hasNote \in BOOLEAN
  BY NoteFields
<1>4. cellViewModels \in Cells /\ selectedIndexPath \in Item
  BY DEF ModelTypeOK, Cells
<1>5. CASE cellViewModels[selectedIndexPath] = Nil
  BY <1>2, <1>4, <1>5, NilIsNoObject DEF noteSaved
<1>6. CASE cellViewModels[selectedIndexPath] # Nil
  <2>1. cellViewModels[selectedIndexPath] \in CellViewModel
    BY <1>4, <1>6 DEF Cells
  <2>2. [cellViewModels[selectedIndexPath] EXCEPT !.hasNote = call.note.hasNote] \in CellViewModel
    BY <1>3, <2>1 DEF CellViewModel
  <2> QED BY <1>2, <1>4, <1>6, <2>2, NilIsNoObject DEF noteSaved, Cells
<1> QED BY <1>5, <1>6

-----------------------------------------------------------------------------
LEMMA AppInitInv == Init => AppInv
<1> SUFFICES ASSUME Init PROVE AppInv
  OBVIOUS
<1>1. StoreInv
  BY StoreInitInv DEF Init
<1>2. PhotoTypeOK
  BY DEF Init, PhotoTypeOK
<1>3. ModelTypeOK
  BY DefaultItemIsRow DEF Init, ModelTypeOK, NoCells, NoInfo, Info, String
<1>4. ViewTypeOK
  BY NumberOfItemsIsNat DEF Init, ViewTypeOK, BlankScreen, Info, String
<1>5. SaveWritesTheScreen /\ LoadsHaveCurrent
  BY DEF Init, StoreInit, SaveWritesTheScreen, LoadsHaveCurrent
<1> QED BY <1>1, <1>2, <1>3, <1>4, <1>5 DEF AppInv, TypeOK, StoreInv
-----------------------------------------------------------------------------
\* What each step keeps beside the store's own invariant, which the store's
\* step keeps by StoreStepInv.
Rest == PhotoTypeOK /\ ModelTypeOK /\ ViewTypeOK /\ SaveWritesTheScreen /\ LoadsHaveCurrent

StoreStep == StoreNext \/ UNCHANGED storeVars

\* A handler that leaves the store alone, or raises, leaves no save running.
LEMMA HandlerLeavesNoSave ==
  ASSUME Idle, raise \/ UNCHANGED storeVars
  PROVE  SaveWritesTheScreen' /\ StoreStep
BY DEF Idle, Running, raise, storeVars, SaveWritesTheScreen, StoreStep, StoreNext

LEMMA AccessGrantedInv ==
  ASSUME AppInv, NEW library \in Libraries, NEW ready \in ThumbnailSets,
         accessGranted(library, ready)
  PROVE  Rest' /\ StoreStep
<1> USE DEF AppInv, TypeOK, accessGranted
<1>1. CASE setCurrentSelectedPhoto(library, selectedIndexPath, "initial", ready) /\ UNCHANGED screen
  <2>1. /\ currentSelectedPhoto' \in CurrentPhoto \cup {Nil}
        /\ currentSelectedPhoto # Nil => currentSelectedPhoto' # Nil
        /\ loads' \in Seq(Load)
        /\ loads' # loads => currentSelectedPhoto' # Nil
    BY <1>1, SetCurrentTypes DEF ModelTypeOK
  <2>2. PhotoTypeOK'
    BY <2>1 DEF PhotoTypeOK
  <2>3. ModelTypeOK'
    BY <2>1 DEF ModelTypeOK
  <2>4. ViewTypeOK'
    BY <1>1, NumberOfItemsIsNat DEF ViewTypeOK, reloadData
  <2>5. LoadsHaveCurrent'
    BY <2>1 DEF LoadsHaveCurrent
  <2> QED BY <2>2, <2>3, <2>4, <2>5, HandlerLeavesNoSave DEF Rest
<1>2. CASE /\ ~ HasPhotoAt(library, selectedIndexPath)
           /\ screen' = info
           /\ UNCHANGED <<currentSelectedPhoto, loads>>
  <2>1. PhotoTypeOK' /\ LoadsHaveCurrent'
    BY <1>2 DEF PhotoTypeOK, LoadsHaveCurrent
  <2>2. ModelTypeOK'
    BY <1>2 DEF ModelTypeOK
  <2>3. ViewTypeOK'
    BY <1>2, NumberOfItemsIsNat DEF ViewTypeOK, ModelTypeOK, reloadData
  <2> QED BY <2>1, <2>2, <2>3, HandlerLeavesNoSave DEF Rest
<1> QED BY <1>1, <1>2

LEMMA AccessDeniedInv ==
  ASSUME AppInv, accessDenied
  PROVE  Rest' /\ StoreStep
<1>1. SaveWritesTheScreen' /\ StoreStep
  BY HandlerLeavesNoSave DEF accessDenied
<1> QED BY <1>1 DEF AppInv, TypeOK, accessDenied, Rest, photoVars, modelVars,
                    PhotoTypeOK, ModelTypeOK, ViewTypeOK, LoadsHaveCurrent

LEMMA DidSelectInv ==
  ASSUME AppInv, NEW item \in Item, NEW ready \in ThumbnailSets,
         didSelectItemAt(item, ready)
  PROVE  Rest' /\ StoreStep
<1> USE DEF AppInv, TypeOK, didSelectItemAt
<1>0. Idle
  BY DEF Touchable
<1>1. CASE /\ setCurrentSelectedPhoto(fetchResult, item, "select", ready)
           /\ UNCHANGED <<storeVars, selectedIndexPath, cellViewModels, screen>>
  <2>1. /\ currentSelectedPhoto' \in CurrentPhoto \cup {Nil}
        /\ currentSelectedPhoto # Nil => currentSelectedPhoto' # Nil
        /\ loads' \in Seq(Load)
        /\ loads' # loads => currentSelectedPhoto' # Nil
    BY <1>1, SetCurrentTypes DEF PhotoTypeOK
  <2>2. PhotoTypeOK' /\ LoadsHaveCurrent'
    BY <2>1 DEF PhotoTypeOK, LoadsHaveCurrent
  <2>3. ModelTypeOK'
    BY <1>1, <2>1 DEF ModelTypeOK
  <2>4. ViewTypeOK'
    BY <1>1 DEF ViewTypeOK
  <2> QED BY <1>0, <1>1, <2>2, <2>3, <2>4, HandlerLeavesNoSave DEF Rest
<1>2. CASE /\ ~ HasPhotoAt(fetchResult, item)
           /\ screen' = info
           /\ selectionCompleted(item, cellViewModels, ready)
           /\ UNCHANGED <<currentSelectedPhoto, loads>>
  <2>1. cellViewModels \in Cells
    BY DEF ModelTypeOK, Cells
  <2>2. /\ selectedIndexPath' \in Item
        /\ cellViewModels' \in Cells
        /\ raise \/ UNCHANGED storeVars
    BY <1>2, <2>1, SelectionCompletedTypes
  <2>3. PhotoTypeOK' /\ LoadsHaveCurrent'
    BY <1>2 DEF PhotoTypeOK, LoadsHaveCurrent
  <2>4. ModelTypeOK'
    BY <1>2, <2>2 DEF ModelTypeOK, Cells
  <2>5. ViewTypeOK'
    BY <1>2 DEF ViewTypeOK, ModelTypeOK
  <2> QED BY <1>0, <2>2, <2>3, <2>4, <2>5, HandlerLeavesNoSave DEF Rest
<1> QED BY <1>1, <1>2

LEMMA LargeImageLoadedInv ==
  ASSUME AppInv, NEW i \in DOMAIN loads, NEW image \in {loads[i].photo, Nil},
         NEW ready \in ThumbnailSets, largeImageLoaded(i, image, ready)
  PROVE  Rest' /\ StoreStep
<1> USE DEF AppInv, TypeOK
<1> DEFINE item == loads[i].item
           cells == CellsWithImage(item, image)
<1>1. loads[i] \in Load
  BY DEF PhotoTypeOK
<1>2. item \in Item /\ image \in Photo \cup {Nil}
  BY <1>1 DEF Load
<1>3. currentSelectedPhoto # Nil
  BY DEF LoadsHaveCurrent
<1>4. /\ currentSelectedPhoto' \in CurrentPhoto /\ currentSelectedPhoto' # Nil
      /\ info' \in Info
  BY <1>2, <1>3, LargeImageArrivedTypes DEF largeImageLoaded
<1>5. loads' \in Seq(Load)
  BY RemoveAtIsSeq DEF largeImageLoaded, answerLoad, PhotoTypeOK
<1>6. cells \in Cells
  BY <1>2, CellsWithImageIsCells
<1>7. /\ selectedIndexPath' \in Item
      /\ cellViewModels' \in Cells
      /\ raise \/ UNCHANGED storeVars
  <2>1. CASE selectionCompleted(item, cells, ready)
    BY <1>2, <1>6, <2>1, SelectionCompletedTypes
  <2>2. CASE cellViewModels' = cells /\ UNCHANGED <<storeVars, selectedIndexPath>>
    BY <1>6, <2>2 DEF ModelTypeOK
  <2> QED BY <2>1, <2>2 DEF largeImageLoaded
<1>8. PhotoTypeOK' /\ LoadsHaveCurrent'
  BY <1>4, <1>5 DEF PhotoTypeOK, LoadsHaveCurrent, largeImageLoaded
<1>9. ModelTypeOK'
  BY <1>4, <1>7 DEF ModelTypeOK, Cells
<1>10. ViewTypeOK'
  BY <1>4 DEF ViewTypeOK, largeImageLoaded
<1> QED BY <1>7, <1>8, <1>9, <1>10, HandlerLeavesNoSave DEF Rest, largeImageLoaded

LEMMA CellForItemInv ==
  ASSUME AppInv, NEW item \in Item, NEW ready \in ThumbnailSets,
         cellForItemAt(item, ready)
  PROVE  Rest' /\ StoreStep
<1> USE DEF AppInv, TypeOK, cellForItemAt
<1>1. cellViewModels \in Cells /\ selectedIndexPath \in Item
  BY DEF ModelTypeOK, Cells
<1>2. cellViewModels' \in Cells
  BY <1>1, GetCellIsCells
<1>3. ModelTypeOK'
  BY <1>2 DEF ModelTypeOK, Cells
<1>4. PhotoTypeOK' /\ ViewTypeOK' /\ LoadsHaveCurrent'
  BY DEF PhotoTypeOK, ViewTypeOK, LoadsHaveCurrent, photoVars, viewVars
<1> QED BY <1>3, <1>4, HandlerLeavesNoSave DEF Rest

LEMMA LibraryChangedInv ==
  ASSUME AppInv, NEW library \in Libraries, libraryChanged(library)
  PROVE  Rest' /\ StoreStep
<1>1. SaveWritesTheScreen' /\ StoreStep
  BY HandlerLeavesNoSave DEF libraryChanged
<1> QED BY <1>1 DEF AppInv, TypeOK, libraryChanged, photoLibraryDidChange, Rest,
                    modelVars, viewVars, PhotoTypeOK, ModelTypeOK, ViewTypeOK,
                    LoadsHaveCurrent

\* Changing one text of the screen.
LEMMA ScreenTexts ==
  ASSUME ViewTypeOK, NEW string \in String
  PROVE  /\ [screen EXCEPT !.detail = string] \in Info
         /\ [screen EXCEPT !.title = string] \in Info
BY DEF ViewTypeOK, Info

LEMMA DetailWhenIsString ==
  ASSUME ViewTypeOK, NEW from, NEW to
  PROVE  DetailWhen(from, to) \in String
BY DEF DetailWhen, ViewTypeOK, Info, String

LEMMA BeginEditingInv ==
  ASSUME AppInv, NEW text \in Texts, beginEditing(text)
  PROVE  Rest' /\ StoreStep
<1> USE DEF AppInv, TypeOK, beginEditing
<1>1. SaveWritesTheScreen' /\ StoreStep
  BY HandlerLeavesNoSave DEF Touchable
<1>2. screen' \in Info
  BY DetailWhenIsString, ScreenTexts
<1>3. ViewTypeOK'
  BY <1>2, UserWrites DEF ViewTypeOK
<1> QED BY <1>1, <1>3 DEF Rest, photoVars, modelVars, PhotoTypeOK, ModelTypeOK, LoadsHaveCurrent

LEMMA TypeInv ==
  ASSUME AppInv, NEW string \in Typed, type(string)
  PROVE  Rest' /\ StoreStep
<1> USE DEF AppInv, TypeOK, type
<1>1. SaveWritesTheScreen' /\ StoreStep
  BY HandlerLeavesNoSave DEF Touchable
<1>2. editing = "title" \/ editing = "detail"
  BY DEF ViewTypeOK
<1>3. screen' \in Info
  BY <1>2, UserWrites, ScreenTexts
<1>4. ViewTypeOK'
  BY <1>3 DEF ViewTypeOK
<1> QED BY <1>1, <1>4 DEF Rest, photoVars, modelVars, PhotoTypeOK, ModelTypeOK, LoadsHaveCurrent

LEMMA EndEditingInv ==
  ASSUME AppInv, NEW next \in Texts \cup {"none"}, endEditing(next)
  PROVE  Rest' /\ StoreStep
<1> USE DEF AppInv, TypeOK
<1> DEFINE detail == DetailWhen(editing, next)
           saved == StripPlaceholder(detail)
<1>0. detail \in String /\ saved \in String /\ screen.title \in String
  BY DetailWhenIsString, StripIsString DEF ViewTypeOK, Info
<1>1. /\ Touchable /\ editing' = next
      /\ screen' = [screen EXCEPT !.detail = detail]
      /\ info' = [info EXCEPT !.title = screen.title, !.detail = detail]
      /\ UNCHANGED <<photoVars, selectedIndexPath, currentSelectedPhoto, cellViewModels, access, shown>>
  BY DEF endEditing
<1>2. \/ /\ currentSelectedPhoto = Nil
         /\ alert' = "notSelected"
         /\ UNCHANGED storeVars
      \/ /\ currentSelectedPhoto # Nil
         /\ saveNote(currentSelectedPhoto.photoId, screen.title, saved)
         /\ UNCHANGED alert
  BY DEF endEditing
<1> HIDE DEF detail, saved
<1>3. PhotoTypeOK' /\ LoadsHaveCurrent'
  BY <1>1 DEF PhotoTypeOK, LoadsHaveCurrent, photoVars
<1>4. ModelTypeOK'
  BY <1>0, <1>1 DEF ModelTypeOK, Info
<1>5. ViewTypeOK'
  BY <1>0, <1>1, <1>2, UserWrites, ScreenTexts DEF ViewTypeOK
<1>6. SaveWritesTheScreen' /\ StoreStep
  <2>1. CASE currentSelectedPhoto = Nil /\ UNCHANGED storeVars
    BY <1>1, <2>1, HandlerLeavesNoSave DEF Touchable
  <2>2. CASE /\ currentSelectedPhoto # Nil
             /\ saveNote(currentSelectedPhoto.photoId, screen.title, saved)
    <3>1. currentSelectedPhoto.photoId \in Photo
      BY <2>2 DEF ModelTypeOK, CurrentPhoto
    <3>2. StoreStep
      BY <1>0, <2>2, <3>1 DEF StoreStep, StoreNext
    <3>3. screen'.title = screen.title /\ StripPlaceholder(screen'.detail) = saved
      BY <1>0, <1>1 DEF ViewTypeOK, Info, saved
    <3>4. SaveWritesTheScreen'
      BY <1>1, <2>2, <3>3 DEF SaveWritesTheScreen, saveNote
    <3> QED BY <3>2, <3>4
  <2> QED BY <1>2, <2>1, <2>2
<1> QED BY <1>3, <1>4, <1>5, <1>6 DEF Rest

LEMMA DismissAlertInv ==
  ASSUME AppInv, dismissAlert
  PROVE  Rest' /\ StoreStep
<1>1. SaveWritesTheScreen' /\ StoreStep
  BY HandlerLeavesNoSave DEF dismissAlert
<1> QED BY <1>1 DEF AppInv, TypeOK, dismissAlert, Rest, photoVars, modelVars,
                    PhotoTypeOK, ModelTypeOK, ViewTypeOK, LoadsHaveCurrent

LEMMA SaveAddsInv ==
  ASSUME AppInv, saveAdds
  PROVE  Rest' /\ StoreStep
<1>1. SaveWritesTheScreen'
  BY DEF AppInv, saveAdds, add, SaveWritesTheScreen, Running, modelVars, viewVars
<1>2. StoreStep
  BY DEF saveAdds, StoreStep, StoreNext
<1> QED BY <1>1, <1>2 DEF AppInv, TypeOK, saveAdds, Rest, photoVars, modelVars, viewVars,
                          PhotoTypeOK, ModelTypeOK, ViewTypeOK, LoadsHaveCurrent

LEMMA SaveCompletesInv ==
  ASSUME AppInv, saveCompletes
  PROVE  Rest' /\ StoreStep
<1> USE DEF AppInv, TypeOK, saveCompletes
<1>1. currentSelectedPhoto # Nil
  BY DEF SaveWritesTheScreen
<1>2. call.note \in Note
  BY CallFields DEF StoreInv, StoreTypeOK, DuringSave
<1>3. /\ currentSelectedPhoto' \in CurrentPhoto
      /\ currentSelectedPhoto'.photoId = currentSelectedPhoto.photoId
      /\ currentSelectedPhoto' # Nil
      /\ cellViewModels' \in Cells
  BY <1>1, <1>2, NoteSavedTypes
<1>4. ModelTypeOK'
  BY <1>3 DEF ModelTypeOK, noteSaved, Cells
<1>5. PhotoTypeOK' /\ ViewTypeOK' /\ LoadsHaveCurrent'
  BY <1>3 DEF PhotoTypeOK, ViewTypeOK, LoadsHaveCurrent, photoVars, viewVars
<1>6. StoreStep
  BY DEF StoreStep, StoreNext
<1>7. SaveWritesTheScreen'
  BY <1>3 DEF SaveWritesTheScreen, completion, raise, Running, viewVars
<1> QED BY <1>4, <1>5, <1>6, <1>7 DEF Rest

LEMMA SaveCommitsInv ==
  ASSUME AppInv, saveCommits
  PROVE  Rest' /\ StoreStep
<1>1. SaveWritesTheScreen' /\ StoreStep
  BY DEF saveCommits, commitWrite, SaveWritesTheScreen, StoreStep, StoreNext
<1> QED BY <1>1 DEF AppInv, TypeOK, saveCommits, Rest, photoVars, modelVars, viewVars,
                    PhotoTypeOK, ModelTypeOK, ViewTypeOK, LoadsHaveCurrent

LEMMA SaveFailsInv ==
  ASSUME AppInv, saveFails
  PROVE  Rest' /\ StoreStep
<1>1. SaveWritesTheScreen' /\ StoreStep
  BY DEF saveFails, commitFails, SaveWritesTheScreen, StoreStep, StoreNext
<1> QED BY <1>1 DEF AppInv, TypeOK, saveFails, Rest, photoVars, modelVars,
                    PhotoTypeOK, ModelTypeOK, ViewTypeOK, LoadsHaveCurrent

LEMMA RelaunchAppInv ==
  ASSUME AppInv, Relaunch
  PROVE  Rest' /\ StoreStep
<1> USE DEF Relaunch
<1>1. PhotoTypeOK'
  BY DEF PhotoTypeOK
<1>2. ModelTypeOK'
  BY DefaultItemIsRow DEF ModelTypeOK, NoCells, NoInfo, Info, String
<1>3. ViewTypeOK'
  BY NumberOfItemsIsNat DEF ViewTypeOK, BlankScreen, Info, String
<1>4. SaveWritesTheScreen' /\ LoadsHaveCurrent'
  BY DEF relaunch, Open, SaveWritesTheScreen, LoadsHaveCurrent
<1>5. StoreStep
  BY DEF StoreStep, StoreNext
<1> QED BY <1>1, <1>2, <1>3, <1>4, <1>5 DEF Rest

LEMMA AppStutterInv ==
  ASSUME AppInv, UNCHANGED vars
  PROVE  Rest' /\ StoreStep
<1>1. UNCHANGED <<storeVars, photoVars, modelVars, viewVars>>
  BY DEF vars
<1>2. SaveWritesTheScreen'
  BY <1>1 DEF AppInv, SaveWritesTheScreen, Running, storeVars, modelVars, viewVars
<1> QED BY <1>1, <1>2 DEF AppInv, TypeOK, StoreStep, Rest, photoVars, modelVars, viewVars,
                          PhotoTypeOK, ModelTypeOK, ViewTypeOK, LoadsHaveCurrent

-----------------------------------------------------------------------------
LEMMA AppStepInv ==
  ASSUME AppInv, [Next]_vars
  PROVE  AppInv' /\ StoreStep
<1>1. Rest' /\ StoreStep
  <2>1. CASE Select
    BY <2>1, DidSelectInv DEF Select
  <2>2. CASE Write
    BY <2>2, BeginEditingInv, TypeInv, EndEditingInv DEF Write
  <2>3. CASE dismissAlert
    BY <2>3, DismissAlertInv
  <2>4. CASE accessAnswered
    BY <2>4, AccessGrantedInv, AccessDeniedInv DEF accessAnswered
  <2>5. CASE \E i \in DOMAIN loads : Answer(i)
    BY <2>5, LargeImageLoadedInv DEF Answer
  <2>6. CASE \E item \in Visible, ready \in ThumbnailSets : cellForItemAt(item, ready)
    BY <2>6, CellForItemInv, PlaceholdersAreRows
  <2>7. CASE \E library \in Libraries : libraryChanged(library)
    BY <2>7, LibraryChangedInv
  <2>8. CASE Save
    BY <2>8, SaveAddsInv, SaveCompletesInv, SaveCommitsInv, SaveFailsInv DEF Save
  <2>9. CASE Relaunch
    BY <2>9, RelaunchAppInv
  <2>10. CASE UNCHANGED vars
    BY <2>10, AppStutterInv
  <2> QED BY <2>1, <2>2, <2>3, <2>4, <2>5, <2>6, <2>7, <2>8, <2>9, <2>10 DEF Next, System
<1>2. StoreInv'
  BY <1>1, StoreStepInv DEF AppInv, StoreStep
<1> QED BY <1>1, <1>2 DEF Rest, AppInv, TypeOK, StoreInv

\* The inductive invariant of the application.
THEOREM AppInvariant == Spec => []AppInv
<1>1. Init => AppInv
  BY AppInitInv
<1>2. AppInv /\ [Next]_vars => AppInv'
  BY AppStepInv
<1> QED BY <1>1, <1>2, PTL DEF Spec

\* Every variable of the application keeps its type.
THEOREM AppTypes == Spec => []TypeOK
<1>1. AppInv => TypeOK
  BY DEF AppInv
<1> QED BY <1>1, AppInvariant, PTL

\* From beginning to commit, a save is about what is on the screen.
THEOREM AppSavesTheScreen == Spec => []SaveWritesTheScreen
<1>1. AppInv => SaveWritesTheScreen
  BY DEF AppInv
<1> QED BY <1>1, AppInvariant, PTL

\* The application uses the note manager as NoteStore describes, so that its
\* theorems hold in the application.
THEOREM AppUsesNoteStore == Spec => StoreSpec
<1>1. Init => StoreInit
  BY DEF Init
<1>2. AppInv /\ [Next]_vars => [StoreNext]_storeVars
  BY AppStepInv DEF StoreStep
<1> QED BY <1>1, <1>2, AppInvariant, PTL DEF Spec, StoreSpec

\* What the store promises its callers, it promises inside the application.
THEOREM AppKeepsNotes ==
  Spec => [](ReadsAreDurable /\ AtMostOneAtRisk /\ LastAnswerIsTrue)
BY AppUsesNoteStore, StoreReadsAreDurable, StoreLosesAtMostOne, StoreLastAnswerIsTrue, PTL
-----------------------------------------------------------------------------
(* What the screen shows.                                                  *)

\* A view of the current photo: the screen, or the properties of the view
\* model that fill it.
Names(view, photo) == view.date = photo.photoId /\ view.image = photo.photo

Tells(view, note) ==
  /\ view.title = IF HasNote(note) THEN note.noteTitle ELSE Empty
  /\ StripPlaceholder(view.detail) = IF HasNote(note) THEN note.noteDetail ELSE Empty

TextsOf(view) == NewNote(view.title, StripPlaceholder(view.detail))

\* The placeholder is never stored: a note whose detail is the placeholder
\* would show as one without a detail.
Storable(note) == note # Nil => note.noteDetail # DefaultNoteDetail

PlaceholderNotStored ==
  /\ \A p \in Photo : Storable(table[p]) /\ Storable(disk[p])
  /\ call # Nil => Storable(call.note)

\* The photo knows whether there is a row to read, except between the row's
\* arrival in the table and the completion that is told of it.
LiveNote ==
  /\ pc \in {"idle", "adding"} =>
       (currentSelectedPhoto.note <=> getNote(currentSelectedPhoto.photoId) # Nil)
  /\ pc = "committing" => currentSelectedPhoto.note

\* Once no image is awaited, the screen and the view model are about the
\* current photo; the view model has its note's texts whatever is being
\* typed, and the screen has them when nothing is.  A save writes what the
\* view model shows.
ScreenFits ==
  Running /\ realm /\ currentSelectedPhoto # Nil =>
    /\ LiveNote
    /\ loads = <<>> => Names(info, currentSelectedPhoto) /\ Names(screen, currentSelectedPhoto)
    /\ loads = <<>> /\ pc = "idle" => Tells(info, getNote(currentSelectedPhoto.photoId))
    /\ loads = <<>> /\ pc = "idle" /\ editing = "none" =>
         Tells(screen, getNote(currentSelectedPhoto.photoId))
    /\ pc # "idle" => call.note = TextsOf(info)

ScreenInv == PlaceholderNotStored /\ ScreenFits

LEMMA NewNoteIsRow ==
  ASSUME NEW title \in String, NEW detail \in String
  PROVE  /\ NewNote(title, detail) # Nil
         /\ NewNote(title, detail).noteTitle = title
         /\ NewNote(title, detail).noteDetail = detail
         /\ NewNote(title, detail).hasNote = (~ (title = Empty /\ detail = Empty))
<1>1. (~ (title = Empty /\ detail = Empty)) \in BOOLEAN
  OBVIOUS
<1>2. NewNote(title, detail) \in NoteRow
  BY <1>1 DEF NewNote, NoteRow
<1>3. NewNote(title, detail) # Nil
  BY <1>2, NilIsNoRow
<1>4. NewNote(title, detail).hasNote = (~ (title = Empty /\ detail = Empty))
  BY Zenon DEF NewNote
<1> QED BY <1>3, <1>4 DEF NewNote

LEMMA StripNeverPlaceholder ==
  ASSUME NEW detail \in String
  PROVE  /\ StripPlaceholder(detail) # DefaultNoteDetail
         /\ StripPlaceholder(StripPlaceholder(detail)) = StripPlaceholder(detail)
BY StringsDiffer DEF StripPlaceholder

LEMMA TellsNote ==
  ASSUME NEW view, NEW note, HasNote(note), view.title = note.noteTitle,
         StripPlaceholder(view.detail) = note.noteDetail
  PROVE  Tells(view, note)
BY DEF Tells

LEMMA TellsNothing ==
  ASSUME NEW view, NEW note, ~ HasNote(note), view.title = Empty,
         StripPlaceholder(view.detail) = Empty
  PROVE  Tells(view, note)
BY DEF Tells

\* A view shows the note that was made of its texts.
LEMMA ViewTellsItsTexts ==
  ASSUME NEW view \in Info
  PROVE  Tells(view, TextsOf(view)) /\ Storable(TextsOf(view)) /\ TextsOf(view) # Nil
<1> DEFINE detail == StripPlaceholder(view.detail)
           note == NewNote(view.title, detail)
<1>1. view.title \in String /\ view.detail \in String
  BY DEF Info
<1>2. detail \in String /\ detail # DefaultNoteDetail
  BY <1>1, StripIsString, StripNeverPlaceholder
<1> HIDE DEF detail
<1>3. /\ note # Nil /\ note.noteTitle = view.title /\ note.noteDetail = detail
      /\ note.hasNote = (~ (view.title = Empty /\ detail = Empty))
  BY <1>1, <1>2, NewNoteIsRow
<1> HIDE DEF note
<1>4. ASSUME view.title = Empty /\ detail = Empty PROVE Tells(view, note)
  <2>1. ~ HasNote(note)
    BY <1>3, <1>4, Zenon DEF HasNote
  <2> QED BY <1>4, <2>1, TellsNothing DEF detail
<1>5. ASSUME ~ (view.title = Empty /\ detail = Empty) PROVE Tells(view, note)
  <2>1. HasNote(note)
    BY <1>3, <1>5, Zenon DEF HasNote
  <2> QED BY <1>3, <2>1, TellsNote DEF detail
<1>6. Tells(view, note) /\ Storable(note) /\ note # Nil
  BY <1>2, <1>3, <1>4, <1>5 DEF Storable
<1> QED BY <1>6 DEF TextsOf, note, detail

\* setSelectedPhotoInfo, for a photo that knows its note.
LEMMA InfoOfPhoto ==
  ASSUME StoreTypeOK, PlaceholderNotStored, NEW photo \in CurrentPhoto,
         photo.note <=> getNote(photo.photoId) # Nil
  PROVE  /\ Names(setSelectedPhotoInfo(photo), photo)
         /\ Tells(setSelectedPhotoInfo(photo), getNote(photo.photoId))
<1> DEFINE note == getNote(photo.photoId)
           view == setSelectedPhotoInfo(photo)
<1>1. photo.photoId \in Photo /\ photo.note \in BOOLEAN
  BY DEF CurrentPhoto
<1>2. NoteOf(photo) = note
  BY <1>1 DEF NoteOf
<1>3. Storable(note)
  BY <1>1 DEF PlaceholderNotStored, getNote
<1>4. view = [date |-> photo.photoId, image |-> photo.photo,
              title |-> IF HasNote(note) THEN note.noteTitle ELSE Empty,
              detail |-> IF HasNote(note) THEN note.noteDetail ELSE DefaultNoteDetail]
  BY <1>2 DEF setSelectedPhotoInfo
<1> HIDE DEF note, view
<1>5. Names(view, photo)
  BY <1>4 DEF Names
<1>6. ASSUME HasNote(note) PROVE Tells(view, note)
  <2>1. view.title = note.noteTitle /\ view.detail = note.noteDetail
    BY <1>4, <1>6
  <2>2. note.noteDetail # DefaultNoteDetail
    BY <1>3, <1>6 DEF Storable, HasNote
  <2>3. StripPlaceholder(view.detail) = note.noteDetail
    BY <2>1, <2>2 DEF StripPlaceholder
  <2> QED BY <1>6, <2>1, <2>3, TellsNote
<1>7. ASSUME ~ HasNote(note) PROVE Tells(view, note)
  <2>1. view.title = Empty /\ view.detail = DefaultNoteDetail
    BY <1>4, <1>7
  <2>2. StripPlaceholder(view.detail) = Empty
    BY <2>1 DEF StripPlaceholder
  <2> QED BY <1>7, <2>1, <2>2, TellsNothing
<1> QED BY <1>5, <1>6, <1>7 DEF note, view

LEMMA ScreenInitInv == Init => ScreenInv
<1> SUFFICES ASSUME Init PROVE ScreenInv
  OBVIOUS
<1>1. PlaceholderNotStored
  BY DEF Init, StoreInit, NoRows, PlaceholderNotStored, Storable
<1>2. ScreenFits
  BY DEF Init, ScreenFits
<1> QED BY <1>1, <1>2 DEF ScreenInv

-----------------------------------------------------------------------------
LEMMA ScreenQuiet ==
  ASSUME ScreenInv,
         UNCHANGED <<storeVars, loads, currentSelectedPhoto, info, screen, editing>>
  PROVE  ScreenInv'
<1>1. UNCHANGED <<realm, disk, table, pc, call, fault>>
  BY DEF storeVars
<1>2. PlaceholderNotStored'
  BY <1>1 DEF ScreenInv, PlaceholderNotStored
<1>3. ScreenFits'
  BY <1>1 DEF ScreenInv, ScreenFits, LiveNote, getNote, Running
<1> QED BY <1>2, <1>3 DEF ScreenInv

LEMMA ScreenRaises ==
  ASSUME ScreenInv, raise
  PROVE  ScreenInv'
BY DEF ScreenInv, raise, PlaceholderNotStored, ScreenFits, Running

\* A photo becomes current: its image is awaited, and it knows its note.
LEMMA SetCurrentScreen ==
  ASSUME AppInv, ScreenInv, NEW library \in Libraries \cup {Nil}, NEW item \in Item,
         NEW caller \in {"initial", "select"}, NEW ready \in ThumbnailSets, Idle,
         setCurrentSelectedPhoto(library, item, caller, ready),
         UNCHANGED <<storeVars, info, screen, editing>>
  PROVE  ScreenInv'
<1>1. CASE fetchPhoto(library, item, ready)
  <2> DEFINE p == PhotoAt(library, item)
             load == [item |-> item, photo |-> p, caller |-> caller]
  <2>1. p \in Photo
    BY <1>1, PhotoAtIsPhoto DEF fetchPhoto
  <2>2. loads \in Seq(Load) /\ load \in Load
    BY <2>1 DEF AppInv, TypeOK, PhotoTypeOK, Load
  <2>3. currentSelectedPhoto' = NewPhoto(p) /\ loads' = Append(loads, load)
    BY <1>1 DEF setCurrentSelectedPhoto, loadLargeImage
  <2> HIDE DEF load
  <2>4. loads' # <<>>
    BY <2>2, <2>3
  <2>5. UNCHANGED <<realm, disk, table, pc, call, fault>> /\ pc = "idle"
    BY DEF storeVars, Idle
  <2>6. currentSelectedPhoto'.photoId = p
        /\ currentSelectedPhoto'.note = (getNote(p) # Nil)
    BY <2>3 DEF NewPhoto
  <2> HIDE DEF p
  <2>7. LiveNote'
    BY <2>5, <2>6 DEF LiveNote, getNote
  <2>8. PlaceholderNotStored'
    BY <2>5 DEF ScreenInv, PlaceholderNotStored
  <2>9. ScreenFits'
    BY <2>4, <2>5, <2>7 DEF ScreenFits
  <2> QED BY <2>8, <2>9 DEF ScreenInv
<1>2. CASE UNCHANGED <<currentSelectedPhoto, loads>>
  BY <1>2, ScreenQuiet
<1> QED BY <1>1, <1>2 DEF setCurrentSelectedPhoto

\* The screen is filled from the view model without a new photo.
LEMMA FillScreen ==
  ASSUME AppInv, ScreenInv, Idle, screen' = info,
         UNCHANGED <<storeVars, loads, currentSelectedPhoto, info, editing>>
  PROVE  ScreenInv'
<1>1. UNCHANGED <<realm, disk, table, pc, call, fault>> /\ pc = "idle"
  BY DEF storeVars, Idle
<1>2. PlaceholderNotStored'
  BY <1>1 DEF ScreenInv, PlaceholderNotStored
<1>3. ScreenFits'
  BY <1>1 DEF ScreenInv, ScreenFits, LiveNote, getNote, Running
<1> QED BY <1>2, <1>3 DEF ScreenInv

LEMMA AccessGrantedScreen ==
  ASSUME AppInv, ScreenInv, NEW library \in Libraries, NEW ready \in ThumbnailSets,
         accessGranted(library, ready)
  PROVE  ScreenInv'
<1>1. Idle /\ UNCHANGED <<storeVars, info, editing>> /\ selectedIndexPath \in Item
  BY DEF accessGranted, AppInv, TypeOK, ModelTypeOK
<1>2. CASE setCurrentSelectedPhoto(library, selectedIndexPath, "initial", ready)
           /\ UNCHANGED screen
  BY <1>1, <1>2, SetCurrentScreen
<1>3. CASE screen' = info /\ UNCHANGED <<currentSelectedPhoto, loads>>
  BY <1>1, <1>3, FillScreen
<1> QED BY <1>2, <1>3 DEF accessGranted

LEMMA DidSelectScreen ==
  ASSUME AppInv, ScreenInv, NEW item \in Item, NEW ready \in ThumbnailSets,
         didSelectItemAt(item, ready)
  PROVE  ScreenInv'
<1>1. Idle /\ UNCHANGED <<info, editing>> /\ fetchResult \in Libraries \cup {Nil}
  BY DEF didSelectItemAt, Touchable, AppInv, TypeOK, PhotoTypeOK
<1>2. CASE setCurrentSelectedPhoto(fetchResult, item, "select", ready)
           /\ UNCHANGED <<storeVars, screen>>
  BY <1>1, <1>2, SetCurrentScreen
<1>3. CASE screen' = info /\ selectionCompleted(item, cellViewModels, ready)
           /\ UNCHANGED <<currentSelectedPhoto, loads>>
  BY <1>1, <1>3, FillScreen, ScreenRaises DEF selectionCompleted, reloadItems
<1> QED BY <1>2, <1>3 DEF didSelectItemAt

\* The last load fills view model and screen with what the photo has by now.
LEMMA LargeImageLoadedScreen ==
  ASSUME AppInv, ScreenInv, NEW i \in DOMAIN loads, NEW image \in {loads[i].photo, Nil},
         NEW ready \in ThumbnailSets, largeImageLoaded(i, image, ready)
  PROVE  ScreenInv'
<1> DEFINE photo == [currentSelectedPhoto EXCEPT !.photo = IF image = Nil THEN @ ELSE image]
<1>1. Idle /\ UNCHANGED editing /\ (raise \/ UNCHANGED storeVars)
  BY DEF largeImageLoaded, selectionCompleted, reloadItems
<1>2. CASE raise
  BY <1>2, ScreenRaises
<1>3. CASE UNCHANGED storeVars
  <2>1. UNCHANGED <<realm, disk, table, pc, call, fault>> /\ pc = "idle"
    BY <1>1, <1>3 DEF storeVars, Idle
  <2>2. PlaceholderNotStored'
    BY <2>1 DEF ScreenInv, PlaceholderNotStored
  <2> SUFFICES ASSUME Running', realm', currentSelectedPhoto' # Nil
               PROVE  ScreenFits'
    BY <2>2 DEF ScreenInv, ScreenFits
  <2>3. currentSelectedPhoto \in CurrentPhoto /\ currentSelectedPhoto # Nil
    BY DEF AppInv, LoadsHaveCurrent, TypeOK, ModelTypeOK
  <2>4. image \in Photo \cup {Nil}
    <3>1. loads[i] \in Load
      BY DEF AppInv, TypeOK, PhotoTypeOK
    <3> QED BY <3>1 DEF Load
  <2>5. /\ photo \in CurrentPhoto /\ photo.photoId = currentSelectedPhoto.photoId
        /\ photo.note = currentSelectedPhoto.note
    BY <2>3, <2>4 DEF CurrentPhoto
  <2>6. /\ currentSelectedPhoto' = photo /\ info' = setSelectedPhotoInfo(photo)
        /\ screen' = info'
    BY DEF largeImageLoaded, largeImageArrived
  <2> HIDE DEF photo
  <2>7. photo.note <=> getNote(photo.photoId) # Nil
    BY <2>1, <2>3, <2>5 DEF ScreenInv, ScreenFits, LiveNote, Running
  <2>8. Names(info', photo) /\ Tells(info', getNote(photo.photoId))
    BY <2>5, <2>6, <2>7, InfoOfPhoto DEF ScreenInv, AppInv, TypeOK
  <2>9. LiveNote'
    BY <2>1, <2>6, <2>7 DEF LiveNote, getNote
  <2> QED BY <2>1, <2>6, <2>8, <2>9 DEF ScreenFits, getNote
<1> QED BY <1>1, <1>2, <1>3

LEMMA BeginEditingScreen ==
  ASSUME AppInv, ScreenInv, NEW text \in Texts, beginEditing(text)
  PROVE  ScreenInv'
<1>1. /\ screen' = [screen EXCEPT !.detail = DetailWhen("none", text)]
      /\ editing' # "none" /\ UNCHANGED <<storeVars, loads, currentSelectedPhoto, info>>
  BY UserWrites DEF beginEditing, photoVars, modelVars
<1>2. screen'.date = screen.date /\ screen'.image = screen.image
  BY <1>1 DEF AppInv, TypeOK, ViewTypeOK, Info
<1>3. UNCHANGED <<realm, disk, table, pc, call, fault>>
  BY <1>1 DEF storeVars
<1>4. PlaceholderNotStored'
  BY <1>3 DEF ScreenInv, PlaceholderNotStored
<1>5. ScreenFits'
  BY <1>1, <1>2, <1>3 DEF ScreenInv, ScreenFits, LiveNote, getNote, Running, Names
<1> QED BY <1>4, <1>5 DEF ScreenInv

LEMMA TypeScreen ==
  ASSUME AppInv, ScreenInv, NEW string \in Typed, type(string)
  PROVE  ScreenInv'
<1>1. /\ screen' = [screen EXCEPT ![editing] = string] /\ editing \in {"title", "detail"}
      /\ editing' = editing /\ UNCHANGED <<storeVars, loads, currentSelectedPhoto, info>>
  BY DEF type, photoVars, modelVars, AppInv, TypeOK, ViewTypeOK
<1>2. screen'.date = screen.date /\ screen'.image = screen.image
  BY <1>1 DEF AppInv, TypeOK, ViewTypeOK, Info
<1>3. UNCHANGED <<realm, disk, table, pc, call, fault>>
  BY <1>1 DEF storeVars
<1>4. PlaceholderNotStored'
  BY <1>3 DEF ScreenInv, PlaceholderNotStored
<1>5. ScreenFits'
  BY <1>1, <1>2, <1>3 DEF ScreenInv, ScreenFits, LiveNote, getNote, Running, Names
<1> QED BY <1>4, <1>5 DEF ScreenInv

\* Both texts go to the view model, and from there into the call.
LEMMA EndEditingScreen ==
  ASSUME AppInv, ScreenInv, NEW next \in Texts \cup {"none"}, endEditing(next)
  PROVE  ScreenInv'
<1> DEFINE detail == DetailWhen(editing, next)
           saved == StripPlaceholder(detail)
<1>1. detail \in String /\ screen.title \in String
  BY DetailWhenIsString DEF AppInv, TypeOK, ViewTypeOK, Info
<1>2. saved \in String /\ saved # DefaultNoteDetail
  BY <1>1, StripIsString, StripNeverPlaceholder
<1>3. /\ Idle
      /\ screen' = [screen EXCEPT !.detail = detail]
      /\ info' = [info EXCEPT !.title = screen.title, !.detail = detail]
      /\ UNCHANGED <<loads, currentSelectedPhoto>>
  BY DEF endEditing, Touchable, photoVars
<1>4. \/ currentSelectedPhoto = Nil /\ UNCHANGED storeVars
      \/ /\ currentSelectedPhoto # Nil
         /\ saveNote(currentSelectedPhoto.photoId, screen.title, saved)
  BY DEF endEditing
<1> HIDE DEF detail
<1>5. /\ info'.title = screen.title /\ info'.detail = detail
      /\ info'.date = info.date /\ info'.image = info.image
      /\ screen'.date = screen.date /\ screen'.image = screen.image
  BY <1>1, <1>3 DEF AppInv, TypeOK, ModelTypeOK, ViewTypeOK, Info
<1>6. CASE currentSelectedPhoto = Nil /\ UNCHANGED storeVars
  <2>1. UNCHANGED <<realm, disk, table, pc, call, fault>>
    BY <1>6 DEF storeVars
  <2>2. PlaceholderNotStored'
    BY <2>1 DEF ScreenInv, PlaceholderNotStored
  <2> QED BY <1>3, <1>6, <2>2 DEF ScreenInv, ScreenFits
<1>7. CASE /\ currentSelectedPhoto # Nil
           /\ saveNote(currentSelectedPhoto.photoId, screen.title, saved)
  <2>1. /\ call'.note = NewNote(screen.title, saved) /\ call'.photoId = currentSelectedPhoto.photoId
        /\ UNCHANGED <<realm, disk, table>>
        /\ Running' /\ realm => pc' = "adding"
    BY <1>7 DEF saveNote, Idle, Running
  <2>2. NewNote(screen.title, saved).noteDetail = saved
    BY <1>1, <1>2, NewNoteIsRow
  <2>3. Storable(call'.note)
    BY <1>2, <2>1, <2>2 DEF Storable
  <2>4. PlaceholderNotStored'
    BY <2>1, <2>3 DEF ScreenInv, PlaceholderNotStored
  <2>5. call'.note = TextsOf(info')
    BY <1>5, <2>1 DEF TextsOf
  <2>6. ScreenFits'
    BY <1>3, <1>5, <2>1, <2>5 DEF ScreenInv, ScreenFits, LiveNote, getNote, Idle, Names
  <2> QED BY <2>4, <2>6 DEF ScreenInv
<1> QED BY <1>4, <1>6, <1>7

LEMMA SaveAddsScreen ==
  ASSUME AppInv, ScreenInv, saveAdds
  PROVE  ScreenInv'
<1>1. /\ UNCHANGED <<loads, currentSelectedPhoto, info, screen, editing>>
      /\ UNCHANGED <<realm, disk, call>> /\ pc = "adding" /\ Running
      /\ \/ table' = [table EXCEPT ![call.photoId] = call.note] /\ pc' = "completing"
         \/ fault' = "RLMException" /\ UNCHANGED <<table, pc>>
  BY DEF saveAdds, add, photoVars, modelVars, viewVars
<1>2. call # Nil /\ table \in Rows
  BY <1>1 DEF AppInv, StoreInv, DuringSave, StoreTypeOK
<1>3. PlaceholderNotStored'
  BY <1>1, <1>2 DEF ScreenInv, PlaceholderNotStored, Rows
<1>4. ScreenFits'
  BY <1>1 DEF ScreenInv, ScreenFits, LiveNote, Running
<1> QED BY <1>3, <1>4 DEF ScreenInv

LEMMA SaveCompletesScreen ==
  ASSUME AppInv, ScreenInv, saveCompletes
  PROVE  ScreenInv'
<1>1. /\ UNCHANGED <<loads, info, screen, editing>>
      /\ UNCHANGED <<realm, disk, call, table>> /\ pc = "completing" /\ Running
      /\ currentSelectedPhoto' = [currentSelectedPhoto EXCEPT !.note = TRUE]
      /\ \/ pc' = "committing" /\ UNCHANGED fault
         \/ raise
  BY DEF saveCompletes, noteSaved, completion, raise, photoVars, viewVars
<1>2. currentSelectedPhoto \in CurrentPhoto /\ currentSelectedPhoto # Nil
  BY <1>1 DEF AppInv, SaveWritesTheScreen, TypeOK, ModelTypeOK
<1>3. /\ currentSelectedPhoto'.photoId = currentSelectedPhoto.photoId
      /\ currentSelectedPhoto'.photo = currentSelectedPhoto.photo
      /\ currentSelectedPhoto'.note = TRUE
  BY <1>1, <1>2 DEF CurrentPhoto
<1>4. PlaceholderNotStored'
  BY <1>1 DEF ScreenInv, PlaceholderNotStored
<1>5. CASE pc' = "committing" /\ UNCHANGED fault
  <2>1. ScreenFits'
    BY <1>1, <1>2, <1>3, <1>5 DEF ScreenInv, ScreenFits, LiveNote, Running, Names
  <2> QED BY <1>4, <2>1 DEF ScreenInv
<1>6. CASE raise
  BY <1>4, <1>6 DEF raise, ScreenInv, ScreenFits, Running
<1> QED BY <1>1, <1>5, <1>6

\* The save ends, committed or not: the table has the texts of the view
\* model and of the screen.
LEMMA SaveEndsScreen ==
  ASSUME AppInv, ScreenInv, pc = "committing", Running, pc' = "idle",
         disk' \in {disk, table}, UNCHANGED <<realm, table, call, fault>>,
         UNCHANGED <<loads, currentSelectedPhoto, info, screen, editing>>
  PROVE  ScreenInv'
<1>1. PlaceholderNotStored'
  BY DEF ScreenInv, PlaceholderNotStored
<1> SUFFICES ASSUME realm, currentSelectedPhoto # Nil
             PROVE  ScreenFits'
  BY <1>1 DEF ScreenInv, ScreenFits
<1> DEFINE note == getNote(currentSelectedPhoto.photoId)
<1>2. call.photoId = currentSelectedPhoto.photoId
      /\ call.note = TextsOf(screen)
  BY DEF AppInv, SaveWritesTheScreen, TextsOf
<1>3. call.note = TextsOf(info)
  BY DEF ScreenInv, ScreenFits
<1>4. note = call.note
  BY <1>2 DEF AppInv, StoreInv, DuringSave, RowAdded, getNote
<1>5. Tells(screen, note) /\ Tells(info, note) /\ note # Nil
  BY <1>2, <1>3, <1>4, ViewTellsItsTexts DEF AppInv, TypeOK, ModelTypeOK, ViewTypeOK
<1>6. LiveNote'
  BY <1>5 DEF ScreenInv, ScreenFits, LiveNote, getNote, note
<1> QED BY <1>5, <1>6 DEF ScreenInv, ScreenFits, getNote, note, Running

LEMMA RelaunchScreen ==
  ASSUME AppInv, ScreenInv, Relaunch
  PROVE  ScreenInv'
<1>1. PlaceholderNotStored'
  BY DEF Relaunch, relaunch, Open, NoRows, ScreenInv, PlaceholderNotStored, Storable
<1>2. ScreenFits'
  BY DEF Relaunch, ScreenFits
<1> QED BY <1>1, <1>2 DEF ScreenInv

LEMMA ScreenStepInv ==
  ASSUME AppInv, ScreenInv, [Next]_vars
  PROVE  ScreenInv'
<1>1. CASE Select
  BY <1>1, DidSelectScreen DEF Select
<1>2. CASE Write
  BY <1>2, BeginEditingScreen, TypeScreen, EndEditingScreen DEF Write
<1>3. CASE dismissAlert \/ accessDenied \/ UNCHANGED vars
  BY <1>3, ScreenQuiet DEF dismissAlert, accessDenied, vars, photoVars, modelVars, viewVars
<1>4. CASE \E library \in Libraries, ready \in ThumbnailSets : accessGranted(library, ready)
  BY <1>4, AccessGrantedScreen
<1>5. CASE \E i \in DOMAIN loads : Answer(i)
  BY <1>5, LargeImageLoadedScreen DEF Answer
<1>6. CASE \E item \in Visible, ready \in ThumbnailSets : cellForItemAt(item, ready)
  BY <1>6, ScreenQuiet DEF cellForItemAt, photoVars, viewVars
<1>7. CASE \E library \in Libraries : libraryChanged(library)
  BY <1>7, ScreenQuiet DEF libraryChanged, photoLibraryDidChange, modelVars, viewVars
<1>8. CASE saveAdds \/ saveCompletes
  BY <1>8, SaveAddsScreen, SaveCompletesScreen
<1>9. CASE saveCommits
  BY <1>9, SaveEndsScreen DEF saveCommits, commitWrite, photoVars, modelVars, viewVars
<1>10. CASE saveFails
  BY <1>10, SaveEndsScreen DEF saveFails, commitFails, photoVars, modelVars
<1>11. CASE Relaunch
  BY <1>11, RelaunchScreen
<1> QED BY <1>1, <1>2, <1>3, <1>4, <1>5, <1>6, <1>7, <1>8, <1>9, <1>10, <1>11
        DEF Next, System, Save, accessAnswered

\* Once nothing is under way, the screen shows the current photo's date,
\* image and note as getNote has them, in whatever order taps, typing, saves,
\* large images and library changes came in.
THEOREM AppShowsCurrentNote == Spec => []ScreenShowsCurrentNote
<1>1. Init => AppInv /\ ScreenInv
  BY AppInitInv, ScreenInitInv
<1>2. AppInv /\ ScreenInv /\ [Next]_vars => (AppInv /\ ScreenInv)'
  BY AppStepInv, ScreenStepInv
<1>3. ScreenInv => ScreenShowsCurrentNote
  BY DEF ScreenInv, ScreenFits, ScreenShowsCurrentNote, AtRest, Idle, Running, Names, Tells
<1> QED BY <1>1, <1>2, <1>3, PTL DEF Spec
=============================================================================
