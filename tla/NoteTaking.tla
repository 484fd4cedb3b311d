---------------------------- MODULE NoteTaking ----------------------------
(***************************************************************************)
(* NoteTakingViewController with everything under it: the whole            *)
(* application.  Every handler runs to its end on the main thread, so it   *)
(* is one action guarded by Idle; only saveNote, at whose steps the        *)
(* process may die, is taken apart, in NoteStore.  Between handlers        *)
(* anything may happen: taps, typing, answers of the Photos framework,     *)
(* library changes, the answer to the permission request, a kill.          *)
(***************************************************************************)
EXTENDS NoteTakingViewModel

CONSTANTS
  Placeholders,  \* the cells shown while there is no photo manager: 5 in the code
  Visible,       \* the rows that the collection view lays out
  Texts,         \* the texts a user edits: the title and the detail
  Typed          \* what a user may leave in a text

ASSUME PlaceholdersAreRows ==
  /\ Placeholders \in Nat
  /\ 0 .. Placeholders - 1 \subseteq Item
  /\ Visible \subseteq Item

ASSUME UserWrites == Texts \subseteq {"title", "detail"} /\ Typed \subseteq String

VARIABLES
  screen,   \* what the date label, the large image and the two texts show
  editing,  \* the text that is first responder
  access,   \* the permission request: "asking", "granted" or "denied"
  shown,    \* the number of cells the collection view counts (UIKit)
  alert     \* the alert on the screen, which takes every touch

viewVars == <<screen, editing, access, shown, alert>>

vars == <<storeVars, photoVars, modelVars, viewVars>>

ViewTypeOK ==
  /\ screen \in Info
  /\ editing \in {"none", "title", "detail"}
  /\ access \in {"asking", "granted", "denied"}
  /\ shown \in Nat
  /\ alert \in {"none", "notSelected", "notSaved"}

TypeOK == StoreTypeOK /\ PhotoTypeOK /\ ModelTypeOK /\ ViewTypeOK

-----------------------------------------------------------------------------
\* UIKit, as the handlers meet it.

numberOfItems(library) == IF library = Nil THEN Placeholders ELSE Len(library)

\* reloadItems raises when a row is out of range, or when the data source
\* has another number of items than the collection view has counted.
CanReload(rows) ==
  /\ shown = numberOfItems(fetchResult)
  /\ \A item \in rows : item < shown

reloadItems(rows) ==
  IF CanReload(rows) THEN UNCHANGED storeVars ELSE raise

\* Mutant of reloadData: the view goes on with the cells it had.
reloadDataForgotten(library) == UNCHANGED shown

\* reloadData makes the collection view count again.
reloadData(library) == shown' = numberOfItems(library)

\* The user can touch the screen.
Touchable == Idle /\ alert = "none"

\* The storyboard's screen: no note, and the placeholder text.
BlankScreen == [date |-> Nil, image |-> Nil, title |-> Empty, detail |-> DefaultNoteDetail]

-----------------------------------------------------------------------------
\* Launch.  viewDidLoad makes the photo manager if access was granted in an
\* earlier launch; the permission request of viewWillAppear is under way.
Init ==
  /\ StoreInit
  /\ fetchResult \in Libraries \cup {Nil}
  /\ loads = <<>>
  /\ selectedIndexPath = DefaultItem
  /\ currentSelectedPhoto = Nil
  /\ cellViewModels = NoCells
  /\ info = NoInfo
  /\ screen = BlankScreen
  /\ editing = "none"
  /\ access = "asking"
  /\ shown = numberOfItems(fetchResult)
  /\ alert = "none"

\* The process ends, by a kill or by a fault, and is launched again: only
\* what is on disk is left.
Relaunch ==
  /\ relaunch
  /\ fetchResult' \in Libraries \cup {Nil}
  /\ loads' = <<>>
  /\ selectedIndexPath' = DefaultItem
  /\ currentSelectedPhoto' = Nil
  /\ cellViewModels' = NoCells
  /\ info' = NoInfo
  /\ screen' = BlankScreen
  /\ editing' = "none"
  /\ access' = "asking"
  /\ shown' = numberOfItems(fetchResult')
  /\ alert' = "none"

\* The answer to the permission request.  Granted: the view model makes its
\* photo manager if there is none, the selected row's photo becomes current,
\* and the collection view counts again.
accessGranted(library, ready) ==
  /\ Idle /\ access = "asking"
  /\ access' = "granted"
  /\ fetchResult' = library
  /\ fetchResult # Nil => library = fetchResult
  /\ reloadData(library)
  /\ \/ /\ setCurrentSelectedPhoto(library, selectedIndexPath, "initial", ready)
        /\ UNCHANGED screen
     \/ /\ ~ HasPhotoAt(library, selectedIndexPath)
        /\ screen' = info
        /\ UNCHANGED <<currentSelectedPhoto, loads>>
  /\ UNCHANGED <<storeVars, selectedIndexPath, cellViewModels, info, editing, alert>>

accessDenied ==
  /\ Idle /\ access = "asking" /\ fetchResult = Nil
  /\ access' = "denied"
  /\ UNCHANGED <<storeVars, photoVars, modelVars, screen, editing, shown, alert>>

-----------------------------------------------------------------------------
\* Selecting a photo.

\* Mutant of selectionCompleted: the previous row is read after the selected
\* one has been updated.
selectionCompletedLate(item, cells, ready) ==
  LET unmarked == SetSelected(cells, item, item, FALSE, ready) IN
  /\ updateSelectedIndexPath(item)
  /\ cellViewModels' = SetSelected(unmarked, item, item, TRUE, ready)
  /\ reloadItems({selectedIndexPath, item})

\* The completion of didSelectItemAt, over the cells that the view model
\* left: the row becomes the selected one, the two view models are marked
\* and the two cells reloaded.
selectionCompleted(item, cells, ready) ==
  LET unmarked == SetSelected(cells, selectedIndexPath, item, FALSE, ready) IN
  /\ updateSelectedIndexPath(item)
  /\ cellViewModels' = SetSelected(unmarked, item, item, TRUE, ready)
  /\ reloadItems({selectedIndexPath, item})

\* A tap on a cell.  On a placeholder there is nothing to load and the
\* completion runs at once.
didSelectItemAt(item, ready) ==
  /\ Touchable /\ access # "denied" /\ item < shown
  /\ \/ /\ setCurrentSelectedPhoto(fetchResult, item, "select", ready)
        /\ UNCHANGED <<storeVars, selectedIndexPath, cellViewModels, screen>>
     \/ /\ ~ HasPhotoAt(fetchResult, item)
        /\ screen' = info
        /\ selectionCompleted(item, cellViewModels, ready)
        /\ UNCHANGED <<currentSelectedPhoto, loads>>
  /\ UNCHANGED <<fetchResult, info, editing, access, shown, alert>>

\* The framework answers a request for a large image, and the view model and
\* the caller's completion fill the screen.
largeImageLoaded(i, image, ready) ==
  LET item  == loads[i].item
      cells == CellsWithImage(item, image)
  IN
  /\ Idle
  /\ answerLoad(i)
  /\ largeImageArrived(image)
  /\ screen' = info'
  /\ \/ /\ loads[i].caller = "select"
        /\ selectionCompleted(item, cells, ready)
     \/ /\ loads[i].caller = "initial"
        /\ cellViewModels' = cells
        /\ UNCHANGED <<storeVars, selectedIndexPath>>
  /\ UNCHANGED <<fetchResult, editing, access, shown, alert>>

\* The collection view lays out a row.
cellForItemAt(item, ready) ==
  /\ Idle /\ item < shown
  /\ cellViewModels' = getCellViewModel(cellViewModels, item, selectedIndexPath, ready)
  /\ UNCHANGED <<storeVars, photoVars, selectedIndexPath, currentSelectedPhoto, info, viewVars>>

\* The photo manager alone follows a change of the library.
libraryChanged(library) ==
  /\ Idle
  /\ photoLibraryDidChange(library)
  /\ UNCHANGED <<storeVars, modelVars, viewVars>>

-----------------------------------------------------------------------------
\* Writing a note.

\* What the text view shows once the first responder has moved: its
\* placeholder leaves when it is about to be edited and returns when it is
\* left empty.
DetailWhen(from, to) ==
  IF to = "detail" /\ screen.detail = DefaultNoteDetail THEN Empty
  ELSE IF from = "detail" /\ screen.detail = Empty THEN DefaultNoteDetail
  ELSE screen.detail

\* The title field also becomes first responder by its edit button, which
\* works without access.
beginEditing(text) ==
  /\ Touchable /\ editing = "none"
  /\ text = "detail" => access # "denied"
  /\ editing' = text
  /\ screen' = [screen EXCEPT !.detail = DetailWhen("none", text)]
  /\ UNCHANGED <<storeVars, photoVars, modelVars, access, shown, alert>>

type(string) ==
  /\ Touchable /\ editing # "none"
  /\ screen' = [screen EXCEPT ![editing] = string]
  /\ UNCHANGED <<storeVars, photoVars, modelVars, editing, access, shown, alert>>

\* Editing ends, by the return key or because the other text is tapped:
\* both texts go to the view model, and the note on the current photo is
\* saved.
endEditing(next) ==
  LET detail == DetailWhen(editing, next) IN
  /\ Touchable /\ editing # "none" /\ next # editing
  /\ next = "detail" => access # "denied"
  /\ editing' = next
  /\ screen' = [screen EXCEPT !.detail = detail]
  /\ info' = [info EXCEPT !.title = screen.title, !.detail = detail]
  /\ \/ /\ currentSelectedPhoto = Nil
        /\ alert' = "notSelected"
        /\ UNCHANGED storeVars
     \/ /\ currentSelectedPhoto # Nil
        /\ saveNote(currentSelectedPhoto.photoId, screen.title, StripPlaceholder(detail))
        /\ UNCHANGED alert
  /\ UNCHANGED <<photoVars, selectedIndexPath, currentSelectedPhoto, cellViewModels, access, shown>>

\* The steps of saveNote.  Its completion runs the view model's, and then,
\* if the selected row has a view model, reloads the row's cell.
saveAdds ==
  /\ add
  /\ UNCHANGED <<photoVars, modelVars, viewVars>>

saveCompletes ==
  /\ pc = "completing" /\ Running
  /\ noteSaved
  /\ IF cellViewModels[selectedIndexPath] = Nil \/ CanReload({selectedIndexPath})
     THEN completion
     ELSE raise
  /\ UNCHANGED <<photoVars, viewVars>>

saveCommits ==
  /\ commitWrite
  /\ UNCHANGED <<photoVars, modelVars, viewVars>>

saveFails ==
  /\ commitFails
  /\ alert' = "notSaved"
  /\ UNCHANGED <<photoVars, modelVars, screen, editing, access, shown>>

dismissAlert ==
  /\ Idle /\ alert # "none"
  /\ alert' = "none"
  /\ UNCHANGED <<storeVars, photoVars, modelVars, screen, editing, access, shown>>

-----------------------------------------------------------------------------
Select == \E item \in Item, ready \in ThumbnailSets : didSelectItemAt(item, ready)

Write ==
  \/ \E text \in Texts : beginEditing(text)
  \/ \E string \in Typed : type(string)
  \/ \E next \in Texts \cup {"none"} : endEditing(next)

Answer(i) ==
  \E image \in {loads[i].photo, Nil}, ready \in ThumbnailSets :
    largeImageLoaded(i, image, ready)

Save == saveAdds \/ saveCompletes \/ saveCommits \/ saveFails

accessAnswered ==
  \/ \E library \in Libraries, ready \in ThumbnailSets : accessGranted(library, ready)
  \/ accessDenied

System ==
  \/ accessAnswered
  \/ \E i \in DOMAIN loads : Answer(i)
  \/ \E item \in Visible, ready \in ThumbnailSets : cellForItemAt(item, ready)
  \/ \E library \in Libraries : libraryChanged(library)
  \/ Save
  \/ Relaunch

Next == Select \/ Write \/ dismissAlert \/ System

Spec == Init /\ [][Next]_vars

\* Somebody who touches the screen only when it has settled: the permission
\* request is answered, no large image is awaited, and no photo is selected
\* while a text is being edited.
Settled == access # "asking" /\ loads = <<>>

PatientNext ==
  \/ Settled /\ editing = "none" /\ Select
  \/ Settled /\ Write
  \/ dismissAlert
  \/ System

PatientSpec == Init /\ [][PatientNext]_vars

\* The main queue runs what is put on it, and the framework answers every
\* request; users, the system's changes and kills are under no obligation.
FairSpec ==
  /\ Spec
  /\ WF_vars(Save)
  /\ WF_vars(accessAnswered)
  /\ \A item \in Item : SF_vars(\E i \in DOMAIN loads : loads[i].item = item /\ Answer(i))

-----------------------------------------------------------------------------
AtRest == Idle /\ loads = <<>> /\ editing = "none"

\* Whatever order taps, typing, saves, large images and library changes come
\* in: once nothing is under way, the screen shows the current photo's date
\* and note as getNote has them.  A load that finishes while a text is
\* edited, or a save whose completion forgets the note object, breaks it.
ScreenShowsCurrentNote ==
  AtRest /\ realm /\ currentSelectedPhoto # Nil =>
    LET note == getNote(currentSelectedPhoto.photoId) IN
    /\ screen.date = currentSelectedPhoto.photoId
    /\ screen.image = currentSelectedPhoto.photo
    /\ screen.title = IF HasNote(note) THEN note.noteTitle ELSE Empty
    /\ StripPlaceholder(screen.detail) = IF HasNote(note) THEN note.noteDetail ELSE Empty

\* From its beginning to its commit a save is about what is on the screen
\* and the photo that is current: no handler slips in between.
SaveWritesTheScreen ==
  Running /\ pc # "idle" =>
    /\ currentSelectedPhoto # Nil
    /\ call = [photoId |-> currentSelectedPhoto.photoId,
               note |-> NewNote(screen.title, StripPlaceholder(screen.detail))]

\* A strip of photos that never changes, each with its thumbnail at hand.

\* At most one cached view model is marked selected, the selected row's:
\* every selection unmarks the one before it, whatever loads overlap.
OneCellSelected ==
  Idle => \A item \in Item :
    cellViewModels[item] # Nil /\ cellViewModels[item].isSelected => item = selectedIndexPath

\* A cached view model shows its row's photo, or nothing after a nil answer.
CellsShowTheirPhotos ==
  \A item \in Item : cellViewModels[item] # Nil =>
    cellViewModels[item].photo \in {PhotoAt(fetchResult, item), Nil}

\* README.md:13 (1.1.0): photos are loaded, and notes written for each: no
\* tap, answer or save ends the process with an exception of the strip.
NoUIKitException == fault # "NSException"

\* For the patient user.

\* Selected row, current photo and large image agree once it has settled.
\* The three are written by different handlers.
SelectionAgrees ==
  Idle /\ Settled /\ currentSelectedPhoto # Nil =>
    /\ currentSelectedPhoto.photoId = PhotoAt(fetchResult, selectedIndexPath)
    /\ screen.image = currentSelectedPhoto.photoId

\* Every cached indicator says whether its photo has a note.
IndicatorsAreRight ==
  Idle /\ realm => \A item \in Item : cellViewModels[item] # Nil =>
    (cellViewModels[item].hasNote <=> HasNote(getNote(PhotoAt(fetchResult, item))))

\* The application is an album: the note that becomes durable is the one of
\* the photo in the selected row.
OpenPage ==
  IF currentSelectedPhoto = Nil THEN Nil ELSE PhotoAt(fetchResult, selectedIndexPath)

TheAlbum == INSTANCE Album WITH notes <- disk, page <- OpenPage

ImplementsAlbum == TheAlbum!Spec

\* A photo that becomes current gets on the screen, unless another one
\* becomes current or the process ends.
Current(p) == currentSelectedPhoto # Nil /\ currentSelectedPhoto.photoId = p

CurrentIsShown ==
  \A p \in Photo : Current(p) ~> ~ Running \/ ~ Current(p) \/ screen.date = p

-----------------------------------------------------------------------------
\* What comments and the README say, and the code does not do.

\* NoteTakingViewModel.swift:59: the image view gets the large image of the
\* selected photo.  Of two loads, the one that ends last fills it.
LargeImageIsCurrent ==
  AtRest /\ currentSelectedPhoto # Nil => screen.image = currentSelectedPhoto.photoId

\* NoteTakingViewController.swift:288: the indicator is updated in real
\* time, which is to say the one of the photo whose note was saved.
SavedPhotoIsIndicated ==
  pc = "committing" =>
    \A item \in Item :
      HasPhotoAt(fetchResult, item) /\ PhotoAt(fetchResult, item) = call.photoId
        /\ cellViewModels[item] # Nil =>
          (cellViewModels[item].hasNote <=> call.note.hasNote)

\* README.md:13 (1.1.0): a note is written for the photo one has before one.
NoteBelongsToPhotoShown ==
  pc # "idle" /\ screen.date # Nil => call.photoId = screen.date

\* README.md:13 (1.1.0): notes are saved locally.  No exception of the
\* screen undoes a save that has begun.
ScreenDoesNotUndoSave == fault = "NSException" => pc = "idle"
=============================================================================
