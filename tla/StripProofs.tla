----------------------------- MODULE StripProofs -----------------------------
(***************************************************************************)
(* NoteTaking over a library that does not change, for every such library, *)
(* number of rows, loads and texts: what the strip of photos shows, and,   *)
(* for a user who waits, that rows, photos and notes belong together.  The *)
(* hypotheses of each theorem are what is asked of the constants.          *)
(***************************************************************************)
EXTENDS NoteTakingProofs

-----------------------------------------------------------------------------
(* What the operations do to the cached view models, row by row.           *)

Noted(item) == HasNote(getNote(PhotoAt(fetchResult, item)))

\* A view model that was there, or one that has just been made of its row.
Kept(cell, old) == old # Nil /\ cell.photo = old.photo /\ cell.hasNote = old.hasNote

Fresh(cell, item) ==
  /\ HasPhotoAt(fetchResult, item)
  /\ cell.photo = PhotoAt(fetchResult, item) /\ cell.hasNote = Noted(item)

Descends(cells, old) ==
  \A item \in Item : cells[item] # Nil =>
    Kept(cells[item], old[item]) \/ Fresh(cells[item], item)

LEMMA DescendsTwice ==
  ASSUME NEW c1, NEW c2, NEW c3, Descends(c1, c2), Descends(c2, c3)
  PROVE  Descends(c1, c3)
<1> SUFFICES ASSUME NEW item \in Item, c1[item] # Nil, ~ Fresh(c1[item], item)
             PROVE  Kept(c1[item], c3[item])
  BY DEF Descends
<1>1. Kept(c1[item], c2[item])
  BY DEF Descends
<1>2. Kept(c2[item], c3[item]) \/ Fresh(c2[item], item)
  BY <1>1 DEF Kept, Descends
<1>3. ~ Fresh(c2[item], item)
  BY <1>1 DEF Kept, Fresh
<1> QED BY <1>1, <1>2, <1>3 DEF Kept

LEMMA NewCellFields ==
  ASSUME NEW p, NEW flag
  PROVE  /\ NewCellViewModel(p, flag).photo = p
         /\ NewCellViewModel(p, flag).hasNote = HasNote(getNote(p))
         /\ NewCellViewModel(p, flag).isSelected = flag
BY Zenon DEF NewCellViewModel

LEMMA GetCellRows ==
  ASSUME StoreTypeOK, PhotoTypeOK, NEW cells \in Cells, NEW item \in Item,
         NEW selected \in Item, NEW ready \in ThumbnailSets
  PROVE  LET got == getCellViewModel(cells, item, selected, ready) IN
         /\ got \in Cells /\ Descends(got, cells)
         /\ \A j \in Item : j # item => got[j] = cells[j]
         /\ fetchPhoto(fetchResult, item, ready) => got[item] # Nil
         /\ \/ got[item] = cells[item]
            \/ got[item].isSelected = (item = selected)
<1> DEFINE got == getCellViewModel(cells, item, selected, ready)
           p == PhotoAt(fetchResult, item)
           cell == NewCellViewModel(p, item = selected)
<1>1. got \in Cells /\ (fetchPhoto(fetchResult, item, ready) => got[item] # Nil)
  BY GetCellIsCells
<1>2. CASE fetchPhoto(fetchResult, item, ready) /\ cells[item] = Nil
  <2>1. got = [cells EXCEPT ![item] = cell]
    BY <1>2 DEF getCellViewModel
  <2>2. /\ cell.photo = p /\ cell.hasNote = HasNote(getNote(p))
        /\ cell.isSelected = (item = selected)
    BY NewCellFields
  <2> HIDE DEF cell
  <2>3. got[item] = cell /\ \A j \in Item : j # item => got[j] = cells[j]
    BY <2>1 DEF Cells
  <2> HIDE DEF got
  <2>4. Fresh(cell, item)
    BY <1>2, <2>2 DEF Fresh, Noted, fetchPhoto
  <2>5. Descends(got, cells)
    BY <2>3, <2>4 DEF Descends, Kept
  <2> QED BY <1>1, <2>2, <2>3, <2>5 DEF got
<1>3. CASE ~ (fetchPhoto(fetchResult, item, ready) /\ cells[item] = Nil)
  <2>1. got = cells
    BY <1>3 DEF getCellViewModel
  <2> HIDE DEF got
  <2>2. Descends(got, cells)
    BY <2>1 DEF Descends, Kept
  <2> QED BY <1>1, <2>1, <2>2 DEF got
<1> QED BY <1>2, <1>3

LEMMA SetSelectedRows ==
  ASSUME StoreTypeOK, PhotoTypeOK, NEW cells \in Cells, NEW item \in Item,
         NEW selected \in Item, NEW flag \in BOOLEAN, NEW ready \in ThumbnailSets
  PROVE  LET set == SetSelected(cells, item, selected, flag, ready) IN
         /\ set \in Cells /\ Descends(set, cells)
         /\ \A j \in Item : j # item => set[j] = cells[j]
         /\ fetchPhoto(fetchResult, item, ready) => set[item].isSelected = flag
         /\ ~ fetchPhoto(fetchResult, item, ready) => set = cells
<1> DEFINE got == getCellViewModel(cells, item, selected, ready)
           set == SetSelected(cells, item, selected, flag, ready)
<1>1. set \in Cells
  BY SetSelectedIsCells
<1>2. CASE fetchPhoto(fetchResult, item, ready)
  <2>1. /\ got \in Cells /\ Descends(got, cells) /\ got[item] # Nil
        /\ \A j \in Item : j # item => got[j] = cells[j]
    BY <1>2, GetCellRows
  <2>2. set = [got EXCEPT ![item].isSelected = flag]
    BY <1>2 DEF SetSelected
  <2> HIDE DEF got, set
  <2>3. got[item] \in CellViewModel
    BY <2>1 DEF Cells
  <2>4. set[item] = [got[item] EXCEPT !.isSelected = flag]
        /\ \A j \in Item : j # item => set[j] = got[j]
    BY <2>1, <2>2 DEF Cells
  <2>5. /\ set[item].isSelected = flag
        /\ set[item].photo = got[item].photo /\ set[item].hasNote = got[item].hasNote
    BY <2>3, <2>4 DEF CellViewModel
  <2>6. Descends(set, got)
    BY <2>1, <2>4, <2>5 DEF Descends, Kept
  <2>7. Descends(set, cells)
    BY <2>1, <2>6, DescendsTwice
  <2> QED BY <1>1, <1>2, <2>1, <2>4, <2>5, <2>7 DEF set
<1>3. CASE ~ fetchPhoto(fetchResult, item, ready)
  <2>1. set = cells
    BY <1>3 DEF SetSelected
  <2> HIDE DEF set
  <2>2. Descends(set, cells)
    BY <2>1 DEF Descends, Kept
  <2> QED BY <1>1, <1>3, <2>1, <2>2 DEF set
<1> QED BY <1>2, <1>3

\* A selection touches two rows and unmarks the one, if its thumbnail is at
\* hand.
LEMMA SelectionRows ==
  ASSUME StoreTypeOK, PhotoTypeOK, ModelTypeOK, NEW item \in Item,
         NEW cells \in Cells, NEW ready \in ThumbnailSets,
         selectionCompleted(item, cells, ready)
  PROVE  /\ cellViewModels' \in Cells /\ Descends(cellViewModels', cells)
         /\ selectedIndexPath' = item
         /\ \A j \in Item : j \notin {item, selectedIndexPath} => cellViewModels'[j] = cells[j]
         /\ selectedIndexPath # item =>
              \/ cellViewModels'[selectedIndexPath] = cells[selectedIndexPath]
                 /\ ~ fetchPhoto(fetchResult, selectedIndexPath, ready)
              \/ cellViewModels'[selectedIndexPath].isSelected = FALSE
<1>0. PICK no \in BOOLEAN, yes \in BOOLEAN : no = FALSE /\ yes = TRUE
  OBVIOUS
<1> DEFINE unmarked == SetSelected(cells, selectedIndexPath, item, no, ready)
           marked == SetSelected(unmarked, item, item, yes, ready)
<1>1. selectedIndexPath \in Item
  BY DEF ModelTypeOK
<1>2. /\ unmarked \in Cells /\ Descends(unmarked, cells)
      /\ \A j \in Item : j # selectedIndexPath => unmarked[j] = cells[j]
      /\ fetchPhoto(fetchResult, selectedIndexPath, ready) =>
           unmarked[selectedIndexPath].isSelected = no
      /\ ~ fetchPhoto(fetchResult, selectedIndexPath, ready) => unmarked = cells
  BY <1>1, SetSelectedRows
<1>3. selectedIndexPath' = item /\ cellViewModels' = marked
  BY <1>0 DEF selectionCompleted, updateSelectedIndexPath
<1> HIDE DEF unmarked
<1>4. /\ marked \in Cells /\ Descends(marked, unmarked)
      /\ \A j \in Item : j # item => marked[j] = unmarked[j]
  BY <1>2, SetSelectedRows
<1> HIDE DEF marked
<1>5. Descends(marked, cells)
  BY <1>2, <1>4, DescendsTwice
<1> QED BY <1>0, <1>1, <1>2, <1>3, <1>4, <1>5

\* A large image changes the picture of one view model.
LEMMA ImageRows ==
  ASSUME ModelTypeOK, NEW item \in Item, NEW image \in Photo \cup {Nil}
  PROVE  LET set == CellsWithImage(item, image) IN
         /\ set \in Cells
         /\ \A j \in Item : set[j] # Nil =>
              /\ cellViewModels[j] # Nil /\ set[j].hasNote = cellViewModels[j].hasNote
              /\ set[j].isSelected = cellViewModels[j].isSelected
              /\ set[j].photo = cellViewModels[j].photo \/ (j = item /\ set[j].photo = image)
<1> DEFINE set == CellsWithImage(item, image)
<1>1. set \in Cells
  BY CellsWithImageIsCells
<1>2. CASE cellViewModels[item] = Nil
  BY <1>1, <1>2 DEF CellsWithImage
<1>3. CASE cellViewModels[item] # Nil
  <2>1. cellViewModels \in Cells /\ cellViewModels[item] \in CellViewModel
    BY <1>3 DEF ModelTypeOK, Cells
  <2>2. set = [cellViewModels EXCEPT ![item].photo = image]
    BY <1>3 DEF CellsWithImage
  <2> HIDE DEF set
  <2>3. set[item] = [cellViewModels[item] EXCEPT !.photo = image]
        /\ \A j \in Item : j # item => set[j] = cellViewModels[j]
    BY <2>1, <2>2 DEF Cells
  <2>4. /\ set[item].photo = image /\ set[item].hasNote = cellViewModels[item].hasNote
        /\ set[item].isSelected = cellViewModels[item].isSelected
    BY <2>1, <2>3 DEF CellViewModel
  <2> QED BY <1>1, <1>3, <2>3, <2>4 DEF set
<1> QED BY <1>2, <1>3

\* The end of a save updates the indicator of the selected row.
LEMMA CompletesRows ==
  ASSUME AppInv, saveCompletes
  PROVE  \A j \in Item :
           /\ cellViewModels'[j] # Nil =>
                /\ cellViewModels[j] # Nil
                /\ cellViewModels'[j].photo = cellViewModels[j].photo
                /\ cellViewModels'[j].isSelected = cellViewModels[j].isSelected
                /\ j = selectedIndexPath => cellViewModels'[j].hasNote = call.note.hasNote
           /\ j # selectedIndexPath => cellViewModels'[j] = cellViewModels[j]
<1> DEFINE row == selectedIndexPath
           flag == call.note.hasNote
<1>1. cellViewModels \in Cells /\ row \in Item
  BY DEF AppInv, TypeOK, ModelTypeOK, Cells
<1>2. cellViewModels' = IF cellViewModels[row] = Nil THEN cellViewModels
                        ELSE [cellViewModels EXCEPT ![row].hasNote = flag]
  BY DEF saveCompletes, noteSaved
<1> HIDE DEF flag, row
<1>3. CASE cellViewModels[row] = Nil
  BY <1>1, <1>2, <1>3 DEF row
<1>4. CASE cellViewModels[row] # Nil
  <2>1. cellViewModels[row] \in CellViewModel
    BY <1>1, <1>4 DEF Cells
  <2>2. cellViewModels'[row] = [cellViewModels[row] EXCEPT !.hasNote = flag]
        /\ \A j \in Item : j # row => cellViewModels'[j] = cellViewModels[j]
    BY <1>1, <1>2, <1>4 DEF Cells
  <2>3. /\ cellViewModels'[row].hasNote = flag
        /\ cellViewModels'[row].photo = cellViewModels[row].photo
        /\ cellViewModels'[row].isSelected = cellViewModels[row].isSelected
    BY <2>1, <2>2 DEF CellViewModel
  <2> QED BY <1>4, <2>2, <2>3 DEF row, flag
<1> QED BY <1>3, <1>4
-----------------------------------------------------------------------------
(* The strip of a library that does not change.                            *)

CellsFit(cells, library) ==
  \A item \in Item : cells[item] # Nil =>
    HasPhotoAt(library, item) /\ cells[item].photo \in {PhotoAt(library, item), Nil}

\* The loads that may be under way: of rows that are there, and their photos.
LoadOf(library) ==
  {load \in Load : HasPhotoAt(library, load.item) /\ load.photo = PhotoAt(library, load.item)}

\* Pictures belong to their rows, and the collection view has counted what
\* the data source has.
StripFits ==
  /\ CellsFit(cellViewModels, fetchResult)
  /\ loads \in Seq(LoadOf(fetchResult))
  /\ shown = numberOfItems(fetchResult)

LEMMA NothingOfNothing ==
  ASSUME StripFits, ModelTypeOK, fetchResult = Nil, NEW library
  PROVE  CellsFit(cellViewModels, library) /\ loads \in Seq(LoadOf(library))
<1>1. \A item \in Item : cellViewModels[item] = Nil
  BY DEF StripFits, CellsFit, HasPhotoAt
<1>2. LoadOf(fetchResult) = {}
  BY DEF LoadOf, HasPhotoAt
<1>3. loads \in Seq({})
  BY <1>2 DEF StripFits
<1>4. loads = <<>>
  BY <1>3
<1> QED BY <1>1, <1>4 DEF CellsFit

LEMMA DescendsFits ==
  ASSUME NEW cells, NEW old, CellsFit(old, fetchResult), Descends(cells, old)
  PROVE  CellsFit(cells, fetchResult)
BY DEF CellsFit, Descends, Kept, Fresh

LEMMA StripQuiet ==
  ASSUME StripFits, UNCHANGED <<fetchResult, loads, cellViewModels, shown>>
  PROVE  StripFits'
BY DEF StripFits

LEMMA NoCellsFit ==
  ASSUME NEW library
  PROVE  CellsFit(NoCells, library) /\ <<>> \in Seq(LoadOf(library))
BY DEF CellsFit, NoCells

LEMMA StripInit ==
  ASSUME Init
  PROVE  StripFits
BY NoCellsFit DEF Init, StripFits

LEMMA SetCurrentLoads ==
  ASSUME AppInv, NEW library \in Libraries \cup {Nil}, NEW item \in Item,
         NEW caller \in {"initial", "select"}, NEW ready \in ThumbnailSets,
         loads \in Seq(LoadOf(library)),
         setCurrentSelectedPhoto(library, item, caller, ready)
  PROVE  loads' \in Seq(LoadOf(library))
<1>1. CASE fetchPhoto(library, item, ready)
  <2> DEFINE load == [item |-> item, photo |-> PhotoAt(library, item), caller |-> caller]
  <2>1. HasPhotoAt(library, item) /\ PhotoAt(library, item) \in Photo
    BY <1>1, PhotoAtIsPhoto DEF fetchPhoto
  <2>2. load \in LoadOf(library)
    BY <2>1 DEF LoadOf, Load
  <2>3. loads' = Append(loads, load)
    BY <1>1 DEF setCurrentSelectedPhoto, loadLargeImage
  <2> HIDE DEF load
  <2> QED BY <2>2, <2>3
<1>2. CASE ~ fetchPhoto(library, item, ready)
  BY <1>2 DEF setCurrentSelectedPhoto
<1> QED BY <1>1, <1>2

LEMMA StripStep ==
  ASSUME AppInv, StripFits, [Next]_vars, NEW library, Libraries = {library}
  PROVE  StripFits'
<1> USE DEF AppInv, TypeOK
<1>0. /\ fetchResult \in Libraries \cup {Nil} /\ cellViewModels \in Cells
      /\ selectedIndexPath \in Item
  BY DEF PhotoTypeOK, ModelTypeOK, Cells
<1>1. ASSUME NEW item \in Item, NEW ready \in ThumbnailSets, didSelectItemAt(item, ready)
      PROVE  StripFits'
  <2>1. UNCHANGED <<fetchResult, shown>>
    BY <1>1 DEF didSelectItemAt
  <2>2. CASE setCurrentSelectedPhoto(fetchResult, item, "select", ready)
             /\ UNCHANGED cellViewModels
    <3>1. loads' \in Seq(LoadOf(fetchResult))
      BY <1>0, <2>2, SetCurrentLoads DEF StripFits
    <3> QED BY <2>1, <2>2, <3>1 DEF StripFits
  <2>3. CASE selectionCompleted(item, cellViewModels, ready) /\ UNCHANGED loads
    <3>1. Descends(cellViewModels', cellViewModels)
      BY <1>0, <2>3, SelectionRows
    <3>2. CellsFit(cellViewModels', fetchResult)
      BY <3>1, DescendsFits DEF StripFits
    <3> QED BY <2>1, <2>3, <3>2 DEF StripFits
  <2> QED BY <1>1, <2>2, <2>3 DEF didSelectItemAt
<1>2. ASSUME NEW lib \in Libraries, NEW ready \in ThumbnailSets, accessGranted(lib, ready)
      PROVE  StripFits'
  <2>1. /\ fetchResult' = lib /\ shown' = numberOfItems(lib) /\ UNCHANGED cellViewModels
        /\ fetchResult # Nil => lib = fetchResult
    BY <1>2 DEF accessGranted, reloadData
  <2>2. CellsFit(cellViewModels, lib) /\ loads \in Seq(LoadOf(lib))
    BY <2>1, NothingOfNothing DEF StripFits
  <2>3. loads' \in Seq(LoadOf(lib))
    BY <1>0, <1>2, <2>2, SetCurrentLoads DEF accessGranted
  <2> QED BY <2>1, <2>2, <2>3 DEF StripFits
<1>3. ASSUME NEW i \in DOMAIN loads, NEW image \in {loads[i].photo, Nil},
             NEW ready \in ThumbnailSets, largeImageLoaded(i, image, ready)
      PROVE  StripFits'
  <2> DEFINE item == loads[i].item
             cells == CellsWithImage(item, image)
  <2>1. loads[i] \in LoadOf(fetchResult)
    BY DEF StripFits
  <2>2. /\ item \in Item /\ loads[i].photo = PhotoAt(fetchResult, item)
        /\ loads[i].photo \in Photo
    BY <2>1 DEF LoadOf, Load
  <2> HIDE DEF item
  <2>3. image \in Photo \cup {Nil}
    BY <2>2
  <2>4. cells \in Cells /\ CellsFit(cells, fetchResult)
    BY <2>2, <2>3, ImageRows DEF StripFits, CellsFit
  <2> HIDE DEF cells
  <2>5. CellsFit(cellViewModels', fetchResult)
    <3>1. CASE selectionCompleted(item, cells, ready)
      BY <2>2, <2>4, <3>1, SelectionRows, DescendsFits
    <3>2. CASE cellViewModels' = cells
      BY <2>4, <3>2
    <3> QED BY <1>3, <3>1, <3>2 DEF largeImageLoaded, item, cells
  <2>6. loads' \in Seq(LoadOf(fetchResult))
    BY <1>3, RemoveAtIsSeq DEF largeImageLoaded, answerLoad, StripFits
  <2> QED BY <1>3, <2>5, <2>6 DEF StripFits, largeImageLoaded
<1>4. ASSUME NEW item \in Item, NEW ready \in ThumbnailSets, cellForItemAt(item, ready)
      PROVE  StripFits'
  <2>1. Descends(cellViewModels', cellViewModels)
    BY <1>0, <1>4, GetCellRows DEF cellForItemAt
  <2>2. CellsFit(cellViewModels', fetchResult)
    BY <2>1, DescendsFits DEF StripFits
  <2> QED BY <1>4, <2>2 DEF StripFits, cellForItemAt, photoVars, viewVars
<1>5. ASSUME NEW lib \in Libraries, libraryChanged(lib)
      PROVE  StripFits'
  BY <1>0, <1>5, StripQuiet DEF libraryChanged, photoLibraryDidChange, modelVars, viewVars
<1>6. CASE saveCompletes
  <2>1. /\ UNCHANGED <<fetchResult, loads, shown>>
        /\ \/ UNCHANGED cellViewModels
           \/ cellViewModels' =
                [cellViewModels EXCEPT ![selectedIndexPath].hasNote = call.note.hasNote]
    BY <1>6 DEF saveCompletes, noteSaved, photoVars, viewVars
  <2>2. \A item \in Item : cellViewModels'[item] # Nil =>
          cellViewModels[item] # Nil /\ cellViewModels'[item].photo = cellViewModels[item].photo
    BY <1>6, CompletesRows
  <2> QED BY <2>1, <2>2 DEF StripFits, CellsFit
<1>7. CASE Relaunch
  BY <1>7, NoCellsFit DEF Relaunch, StripFits
<1>8. CASE Write \/ dismissAlert \/ accessDenied \/ saveAdds \/ saveCommits \/ saveFails
           \/ UNCHANGED vars
  BY <1>8, StripQuiet DEF Write, beginEditing, type, endEditing, dismissAlert, accessDenied,
     saveAdds, saveCommits, saveFails, vars, photoVars, modelVars, viewVars
<1> QED BY <1>1, <1>2, <1>3, <1>4, <1>5, <1>6, <1>7, <1>8, PlaceholdersAreRows
        DEF Next, Select, System, Answer, Save, accessAnswered

\* A cached view model shows its row's photo, or nothing, whatever selections
\* and large images overlap: no closure puts an image into another row.
THEOREM StripShowsItsPhotos ==
  ASSUME NEW library, Libraries = {library}
  PROVE  Spec => []CellsShowTheirPhotos
<1>1. Init => AppInv /\ StripFits
  BY AppInitInv, StripInit
<1>2. AppInv /\ StripFits /\ [Next]_vars => (AppInv /\ StripFits)'
  BY AppStepInv, StripStep
<1>3. StripFits => CellsShowTheirPhotos
  BY DEF StripFits, CellsFit, CellsShowTheirPhotos
<1> QED BY <1>1, <1>2, <1>3, PTL DEF Spec
-----------------------------------------------------------------------------
(* Reloading cells never raises.                                           *)

\* The selected row is one that the collection view has.
RowsFit == NoUIKitException /\ selectedIndexPath < numberOfItems(fetchResult)

LEMMA ReloadFits ==
  ASSUME StripFits, PhotoTypeOK, ModelTypeOK, RowsFit, NEW item \in Item,
         item < numberOfItems(fetchResult)
  PROVE  CanReload({selectedIndexPath, item}) /\ CanReload({selectedIndexPath})
BY DEF StripFits, RowsFit, CanReload

LEMMA RowsStep ==
  ASSUME AppInv, StripFits, RowsFit, [Next]_vars, NEW library, Libraries = {library},
         Placeholders <= Len(library), DefaultItem < Placeholders
  PROVE  RowsFit'
<1> USE DEF AppInv, TypeOK
<1>0. /\ fetchResult \in {library, Nil} /\ library # Nil
      /\ Placeholders \in Nat /\ Len(library) \in Nat /\ Item \subseteq Nat
      /\ selectedIndexPath \in Item
      /\ numberOfItems(library) = Len(library) /\ numberOfItems(Nil) = Placeholders
  BY LibrariesFit, PlaceholdersAreRows, NilIsNoLibrary DEF PhotoTypeOK, ModelTypeOK, numberOfItems
<1>1. ASSUME NEW item \in Item, item < numberOfItems(fetchResult), NEW cells,
             NEW ready, selectionCompleted(item, cells, ready), UNCHANGED fetchResult
      PROVE  RowsFit'
  <2>1. CanReload({selectedIndexPath, item})
    BY <1>1, ReloadFits
  <2>2. selectedIndexPath' = item /\ UNCHANGED storeVars
    BY <1>1, <2>1 DEF selectionCompleted, updateSelectedIndexPath, reloadItems
  <2> QED BY <1>1, <2>2 DEF RowsFit, NoUIKitException, storeVars
<1>2. CASE UNCHANGED <<fault, selectedIndexPath, fetchResult>>
  BY <1>2 DEF RowsFit, NoUIKitException
<1>3. ASSUME NEW item \in Item, NEW ready \in ThumbnailSets, didSelectItemAt(item, ready)
      PROVE  RowsFit'
  <2>1. item < numberOfItems(fetchResult) /\ UNCHANGED fetchResult
    BY <1>3 DEF didSelectItemAt, StripFits
  <2>2. CASE selectionCompleted(item, cellViewModels, ready)
    BY <1>1, <2>1, <2>2
  <2>3. CASE UNCHANGED <<storeVars, selectedIndexPath>>
    BY <1>2, <2>1, <2>3 DEF storeVars
  <2> QED BY <1>3, <2>2, <2>3 DEF didSelectItemAt
<1>4. ASSUME NEW lib \in Libraries, NEW ready \in ThumbnailSets, accessGranted(lib, ready)
      PROVE  RowsFit'
  <2>1. fetchResult' = library /\ UNCHANGED <<fault, selectedIndexPath>>
    BY <1>4 DEF accessGranted, storeVars
  <2>2. selectedIndexPath < Len(library)
    BY <1>0 DEF RowsFit
  <2> QED BY <1>0, <2>1, <2>2 DEF RowsFit, NoUIKitException
<1>5. ASSUME NEW i \in DOMAIN loads, NEW image \in {loads[i].photo, Nil},
             NEW ready \in ThumbnailSets, largeImageLoaded(i, image, ready)
      PROVE  RowsFit'
  <2> DEFINE item == loads[i].item
             cells == CellsWithImage(item, image)
  <2>1. loads[i] \in LoadOf(fetchResult)
    BY DEF StripFits
  <2>2. item \in Item /\ item < numberOfItems(fetchResult)
    BY <2>1 DEF LoadOf, Load, HasPhotoAt, numberOfItems
  <2>3. UNCHANGED fetchResult
    BY <1>5 DEF largeImageLoaded
  <2>4. CASE selectionCompleted(item, cells, ready)
    BY <1>1, <2>2, <2>3, <2>4
  <2>5. CASE UNCHANGED <<storeVars, selectedIndexPath>>
    BY <1>2, <2>3, <2>5 DEF storeVars
  <2> QED BY <1>5, <2>4, <2>5 DEF largeImageLoaded
<1>6. ASSUME NEW lib \in Libraries, libraryChanged(lib)
      PROVE  RowsFit'
  BY <1>0, <1>2, <1>6 DEF libraryChanged, photoLibraryDidChange, storeVars, modelVars
<1>7. CASE saveCompletes
  <2>1. CanReload({selectedIndexPath})
    BY <1>0, ReloadFits DEF RowsFit
  <2>2. UNCHANGED <<fault, selectedIndexPath, fetchResult>>
    BY <1>7, <2>1 DEF saveCompletes, completion, noteSaved, photoVars
  <2> QED BY <1>2, <2>2
<1>8. ASSUME NEW next \in Texts \cup {"none"}, endEditing(next)
      PROVE  RowsFit'
  <2>1. UNCHANGED <<selectedIndexPath, fetchResult>> /\ fault' \in {fault, "RLMException"}
    BY <1>8 DEF endEditing, saveNote, storeVars, photoVars
  <2> QED BY <2>1 DEF RowsFit, NoUIKitException
<1>9. CASE saveAdds
  <2>1. UNCHANGED <<selectedIndexPath, fetchResult>> /\ fault' \in {fault, "RLMException"}
    BY <1>9 DEF saveAdds, add, photoVars, modelVars
  <2> QED BY <2>1 DEF RowsFit, NoUIKitException
<1>10. CASE Relaunch
  <2>1. fault' = "none" /\ selectedIndexPath' = DefaultItem /\ fetchResult' \in {library, Nil}
    BY <1>10 DEF Relaunch, relaunch, Open
  <2>2. DefaultItem \in Nat
    BY <1>0, DefaultItemIsRow
  <2> QED BY <1>0, <2>1, <2>2 DEF RowsFit, NoUIKitException
<1>11. ASSUME \/ \E text \in Texts : beginEditing(text)
              \/ \E string \in Typed : type(string)
              \/ dismissAlert \/ accessDenied \/ saveCommits \/ saveFails \/ UNCHANGED vars
              \/ \E item \in Visible, ready \in ThumbnailSets : cellForItemAt(item, ready)
       PROVE  RowsFit'
  BY <1>2, <1>11 DEF beginEditing, type, dismissAlert, accessDenied, saveCommits, commitWrite,
     saveFails, commitFails, cellForItemAt, vars, storeVars, photoVars, modelVars
<1> QED BY <1>3, <1>4, <1>5, <1>6, <1>7, <1>8, <1>9, <1>10, <1>11
        DEF Next, Select, Write, System, Answer, Save, accessAnswered

\* No tap, answer or save makes the collection view raise, when the library
\* does not change and has as many photos as there were placeholders.
THEOREM StripNeverRaises ==
  ASSUME NEW library, Libraries = {library},
         Placeholders <= Len(library), DefaultItem < Placeholders
  PROVE  Spec => []NoUIKitException
<1>1. Init => AppInv /\ StripFits /\ RowsFit
  <2> SUFFICES ASSUME Init PROVE RowsFit
    BY AppInitInv, StripInit
  <2>1. /\ selectedIndexPath = DefaultItem /\ fault = "none" /\ DefaultItem \in Nat
        /\ fetchResult \in {library, Nil} /\ library # Nil
        /\ Placeholders \in Nat /\ Len(library) \in Nat
    BY LibrariesFit, PlaceholdersAreRows, DefaultItemIsRow, NilIsNoLibrary DEF Init, StoreInit
  <2> QED BY <2>1 DEF RowsFit, NoUIKitException, numberOfItems
<1>2. AppInv /\ StripFits /\ RowsFit /\ [Next]_vars => (AppInv /\ StripFits /\ RowsFit)'
  BY AppStepInv, StripStep, RowsStep
<1>3. RowsFit => NoUIKitException
  BY DEF RowsFit
<1> QED BY <1>1, <1>2, <1>3, PTL DEF Spec

-----------------------------------------------------------------------------
(* One cell is marked.                                                     *)

\* OneCellSelected, during a save as well.
OneMarked(cells, row) ==
  \A item \in Item : cells[item] # Nil /\ cells[item].isSelected => item = row

LEMMA SelectionMarksOne ==
  ASSUME AppInv, NEW item \in Item, NEW cells \in Cells, NEW ready \in ThumbnailSets,
         CellsFit(cells, fetchResult), OneMarked(cells, selectedIndexPath),
         HasPhotoAt(fetchResult, selectedIndexPath) =>
           fetchPhoto(fetchResult, selectedIndexPath, ready),
         selectionCompleted(item, cells, ready)
  PROVE  OneMarked(cellViewModels', selectedIndexPath')
<1> DEFINE old == selectedIndexPath
<1>1. /\ selectedIndexPath' = item
      /\ \A j \in Item : j \notin {item, old} => cellViewModels'[j] = cells[j]
      /\ old # item => \/ cellViewModels'[old] = cells[old] /\ ~ fetchPhoto(fetchResult, old, ready)
                       \/ cellViewModels'[old].isSelected = FALSE
  BY SelectionRows DEF AppInv, TypeOK
<1>2. cells[old] # Nil => HasPhotoAt(fetchResult, old)
  BY DEF CellsFit, AppInv, TypeOK, ModelTypeOK
<1>3. ASSUME NEW j \in Item, cellViewModels'[j] # Nil, cellViewModels'[j].isSelected, j # item
      PROVE  FALSE
  <2>1. CASE j = old
    <3>1. cellViewModels'[old] = cells[old] /\ ~ fetchPhoto(fetchResult, old, ready)
      BY <1>1, <1>3, <2>1
    <3> QED BY <1>2, <1>3, <2>1, <3>1
  <2>2. CASE j # old
    <3>1. cells[j] # Nil /\ cells[j].isSelected
      BY <1>1, <1>3, <2>2
    <3> QED BY <2>2, <3>1 DEF OneMarked
  <2> QED BY <2>1, <2>2
<1> QED BY <1>1, <1>3 DEF OneMarked

LEMMA MarkedStep ==
  ASSUME AppInv, StripFits, OneMarked(cellViewModels, selectedIndexPath), [Next]_vars,
         NEW library, Libraries = {library},
         \A ready \in ThumbnailSets : \A i \in DOMAIN library : library[i] \in ready
  PROVE  OneMarked(cellViewModels, selectedIndexPath)'
<1> USE DEF AppInv, TypeOK
<1>0. /\ fetchResult \in {library, Nil} /\ library # Nil
      /\ cellViewModels \in Cells /\ selectedIndexPath \in Item
      /\ CellsFit(cellViewModels, fetchResult)
  BY NilIsNoLibrary DEF PhotoTypeOK, ModelTypeOK, Cells, StripFits
<1>1. ASSUME NEW item \in Item, NEW ready \in ThumbnailSets, HasPhotoAt(fetchResult, item)
      PROVE  fetchPhoto(fetchResult, item, ready)
  <2>1. fetchResult = library /\ item + 1 \in DOMAIN library
    BY <1>0, <1>1, LibrariesFit DEF HasPhotoAt
  <2> QED BY <1>1, <2>1 DEF fetchPhoto, PhotoAt
<1>2. CASE UNCHANGED <<cellViewModels, selectedIndexPath>>
  BY <1>2 DEF OneMarked
<1>3. ASSUME NEW item \in Item, NEW ready \in ThumbnailSets, didSelectItemAt(item, ready)
      PROVE  OneMarked(cellViewModels', selectedIndexPath')
  <2>1. CASE selectionCompleted(item, cellViewModels, ready)
    BY <1>0, <1>1, <2>1, SelectionMarksOne
  <2> QED BY <1>2, <1>3, <2>1 DEF didSelectItemAt
<1>4. ASSUME NEW i \in DOMAIN loads, NEW image \in {loads[i].photo, Nil},
             NEW ready \in ThumbnailSets, largeImageLoaded(i, image, ready)
      PROVE  OneMarked(cellViewModels', selectedIndexPath')
  <2> DEFINE item == loads[i].item
             cells == CellsWithImage(item, image)
  <2>1. loads[i] \in LoadOf(fetchResult)
    BY DEF StripFits
  <2>2. item \in Item /\ loads[i].photo \in Photo /\ loads[i].photo = PhotoAt(fetchResult, item)
    BY <2>1 DEF LoadOf, Load
  <2> HIDE DEF item
  <2>3. image \in Photo \cup {Nil}
    BY <2>2
  <2>4. /\ cells \in Cells /\ CellsFit(cells, fetchResult)
        /\ OneMarked(cells, selectedIndexPath)
    BY <1>0, <2>2, <2>3, ImageRows DEF CellsFit, OneMarked
  <2> HIDE DEF cells
  <2>5. CASE selectionCompleted(item, cells, ready)
    BY <1>0, <1>1, <2>2, <2>4, <2>5, SelectionMarksOne
  <2>6. CASE cellViewModels' = cells /\ UNCHANGED selectedIndexPath
    BY <2>4, <2>6
  <2> QED BY <1>4, <2>5, <2>6 DEF largeImageLoaded, item, cells
<1>5. ASSUME NEW item \in Item, NEW ready \in ThumbnailSets, cellForItemAt(item, ready)
      PROVE  OneMarked(cellViewModels', selectedIndexPath')
  <2> DEFINE got == getCellViewModel(cellViewModels, item, selectedIndexPath, ready)
  <2>1. /\ \A j \in Item : j # item => got[j] = cellViewModels[j]
        /\ got[item] = cellViewModels[item] \/ got[item].isSelected = (item = selectedIndexPath)
    BY <1>0, GetCellRows
  <2>2. cellViewModels' = got /\ UNCHANGED selectedIndexPath
    BY <1>5 DEF cellForItemAt
  <2> HIDE DEF got
  <2> QED BY <2>1, <2>2 DEF OneMarked
<1>6. CASE saveCompletes
  <2>1. UNCHANGED selectedIndexPath
    BY <1>6 DEF saveCompletes, noteSaved
  <2> QED BY <1>6, <2>1, CompletesRows DEF OneMarked
<1>7. CASE Relaunch
  BY <1>7 DEF Relaunch, NoCells, OneMarked
<1>8. ASSUME \/ Write \/ dismissAlert \/ accessAnswered
             \/ \E lib \in Libraries : libraryChanged(lib)
             \/ saveAdds \/ saveCommits \/ saveFails \/ UNCHANGED vars
      PROVE  UNCHANGED <<cellViewModels, selectedIndexPath>>
  BY <1>8 DEF Write, beginEditing, type, endEditing, dismissAlert, accessAnswered, accessGranted,
     accessDenied, libraryChanged, saveAdds, saveCommits, saveFails, vars, modelVars
<1> QED BY <1>2, <1>3, <1>4, <1>5, <1>6, <1>7, <1>8, PlaceholdersAreRows
        DEF Next, Select, System, Answer, Save

\* At most one cached view model is marked selected, and it is the selected
\* row's, however many selections and large images overlap, when the library
\* does not change and its thumbnails are at hand.
THEOREM StripMarksOneCell ==
  ASSUME NEW library, Libraries = {library},
         \A ready \in ThumbnailSets : \A i \in DOMAIN library : library[i] \in ready
  PROVE  Spec => []OneCellSelected
<1> DEFINE Inv == AppInv /\ StripFits /\ OneMarked(cellViewModels, selectedIndexPath)
<1>1. Init => Inv
  BY AppInitInv, StripInit DEF Init, OneMarked, NoCells
<1>2. Inv /\ [Next]_vars => Inv'
  BY AppStepInv, StripStep, MarkedStep
<1>3. Inv => OneCellSelected
  BY DEF OneMarked, OneCellSelected
<1> QED BY <1>1, <1>2, <1>3, PTL DEF Spec
-----------------------------------------------------------------------------
(* A user who waits: the selected row, the current photo and the screen.   *)

LEMMA PatientIsNext ==
  ASSUME [PatientNext]_vars
  PROVE  [Next]_vars
BY DEF PatientNext, Next

\* The large image that is awaited, if any, is the current photo's, and no
\* save runs meanwhile.  When it arrives the selected row becomes the photo's:
\* it is the one the user tapped, or was the selected one at launch.
Awaited(load) ==
  /\ loads = <<load>> /\ pc = "idle"
  /\ currentSelectedPhoto.photoId = load.photo
  /\ load.caller = "initial" => load.item = selectedIndexPath

\* The current photo shows its own image, and is the selected row's as soon
\* as no image is awaited.
PageFits ==
  currentSelectedPhoto # Nil =>
    /\ currentSelectedPhoto.photo = currentSelectedPhoto.photoId
    /\ loads = <<>> =>
         /\ currentSelectedPhoto.photoId = PhotoAt(fetchResult, selectedIndexPath)
         /\ screen.image = currentSelectedPhoto.photoId

\* There is no current photo before access is granted.
PageInv(library) ==
  /\ selectedIndexPath < Len(library)
  /\ access = "granted" => fetchResult # Nil
  /\ currentSelectedPhoto # Nil => access = "granted"
  /\ loads # <<>> => \E load \in LoadOf(fetchResult) : Awaited(load)
  /\ PageFits

LEMMA PageInit ==
  ASSUME Init, NEW library, DefaultItem < Len(library)
  PROVE  PageInv(library)
BY DEF Init, PageInv, PageFits

\* A step that leaves photo, row and image alone, and begins no save while
\* an image is awaited.
LEMMA PageQuiet ==
  ASSUME NEW library, PageInv(library),
         UNCHANGED <<fetchResult, loads, currentSelectedPhoto, selectedIndexPath, access>>,
         screen'.image = screen.image, loads # <<>> => pc' = pc
  PROVE  PageInv(library)'
BY DEF PageInv, PageFits, Awaited

LEMMA SetCurrentPage ==
  ASSUME AppInv, NEW library, Libraries = {library}, PageInv(library),
         Idle, loads = <<>>,
         NEW item \in Item, NEW caller \in {"initial", "select"}, NEW ready \in ThumbnailSets,
         caller = "initial" => item = selectedIndexPath,
         setCurrentSelectedPhoto(library, item, caller, ready),
         fetchResult' = library, access' = "granted",
         fetchResult = library \/ currentSelectedPhoto = Nil,
         UNCHANGED <<selectedIndexPath, screen, pc>>
  PROVE  PageInv(library)'
<1>0. library \in Libraries /\ library # Nil
  BY NilIsNoLibrary
<1>1. CASE fetchPhoto(library, item, ready)
  <2> DEFINE p == PhotoAt(library, item)
             load == [item |-> item, photo |-> p, caller |-> caller]
  <2>1. HasPhotoAt(library, item) /\ p \in Photo
    BY <1>0, <1>1, PhotoAtIsPhoto DEF fetchPhoto
  <2>2. currentSelectedPhoto' = NewPhoto(p) /\ loads' = <<load>>
    BY <1>1 DEF setCurrentSelectedPhoto, loadLargeImage
  <2>3. load \in LoadOf(library) /\ load.item = item /\ load.photo = p /\ load.caller = caller
    BY <2>1 DEF LoadOf, Load
  <2>4. currentSelectedPhoto'.photoId = p /\ currentSelectedPhoto'.photo = p
    BY <2>2 DEF NewPhoto
  <2>5. loads' # <<>>
    BY <2>2
  <2> HIDE DEF load, p
  <2>6. Awaited(load)'
    BY <2>2, <2>3, <2>4 DEF Awaited, Idle
  <2> QED BY <1>0, <2>3, <2>4, <2>5, <2>6 DEF PageInv, PageFits
<1>2. CASE UNCHANGED <<currentSelectedPhoto, loads>>
  BY <1>0, <1>2 DEF PageInv, PageFits
<1> QED BY <1>1, <1>2 DEF setCurrentSelectedPhoto

LEMMA LargeImagePage ==
  ASSUME AppInv, NEW library, PageInv(library),
         NEW i \in DOMAIN loads, NEW image \in {loads[i].photo, Nil},
         NEW ready \in ThumbnailSets, largeImageLoaded(i, image, ready),
         Libraries = {library}
  PROVE  PageInv(library)'
<1> DEFINE photo == [currentSelectedPhoto EXCEPT !.photo = IF image = Nil THEN @ ELSE image]
<1>1. loads # <<>>
  OBVIOUS
<1>2. PICK load \in LoadOf(fetchResult) : Awaited(load)
  BY <1>1 DEF PageInv
<1>3. i = 1 /\ loads[i] = load /\ RemoveAt(loads, i) = <<>>
  BY <1>2 DEF Awaited, RemoveAt
<1>4. /\ load.item \in Item /\ load.photo = PhotoAt(fetchResult, load.item)
      /\ HasPhotoAt(fetchResult, load.item) /\ load.photo \in Photo
  BY DEF LoadOf, Load
<1>5. currentSelectedPhoto \in CurrentPhoto /\ currentSelectedPhoto # Nil
  BY <1>1 DEF AppInv, LoadsHaveCurrent, TypeOK, ModelTypeOK
<1>6. /\ photo.photoId = load.photo /\ photo.photo = load.photo
  BY <1>2, <1>3, <1>5 DEF CurrentPhoto, Awaited, PageInv, PageFits
<1>7. /\ currentSelectedPhoto' = photo /\ info' = setSelectedPhotoInfo(photo)
      /\ screen' = info' /\ loads' = <<>> /\ UNCHANGED <<fetchResult, access>>
  BY <1>3 DEF largeImageLoaded, largeImageArrived, answerLoad
<1> HIDE DEF photo
<1>8. screen'.image = load.photo
  BY <1>6, <1>7 DEF setSelectedPhotoInfo
<1>9. selectedIndexPath' = load.item
  BY <1>2, <1>3 DEF largeImageLoaded, selectionCompleted, updateSelectedIndexPath, Awaited,
     LoadOf, Load
<1>10. load.item < Len(library)
  BY <1>4, NilIsNoLibrary DEF HasPhotoAt, AppInv, TypeOK, PhotoTypeOK
<1> QED BY <1>4, <1>5, <1>6, <1>7, <1>8, <1>9, <1>10 DEF PageInv, PageFits

LEMMA PageStep ==
  ASSUME AppInv, StripFits, NEW library, Libraries = {library}, PageInv(library),
         [PatientNext]_vars, DefaultItem < Len(library)
  PROVE  PageInv(library)'
<1> USE DEF AppInv, TypeOK
<1>0. /\ fetchResult \in {library, Nil} /\ library # Nil /\ selectedIndexPath \in Item
      /\ HasPhotoAt(library, selectedIndexPath) /\ shown = numberOfItems(fetchResult)
  BY NilIsNoLibrary DEF PhotoTypeOK, ModelTypeOK, StripFits, PageInv, HasPhotoAt
<1>1. ASSUME NEW item \in Item, NEW ready \in ThumbnailSets, Settled,
             didSelectItemAt(item, ready)
      PROVE  PageInv(library)'
  <2>1. /\ access = "granted" /\ access' = access /\ UNCHANGED fetchResult
        /\ Idle /\ item < shown /\ loads = <<>>
    BY <1>1 DEF didSelectItemAt, Settled, Touchable, ViewTypeOK
  <2>2. fetchResult = library
    BY <1>0, <2>1 DEF PageInv
  <2>3. HasPhotoAt(fetchResult, item)
    BY <1>0, <2>1, <2>2 DEF HasPhotoAt, numberOfItems
  <2>4. /\ setCurrentSelectedPhoto(fetchResult, item, "select", ready)
        /\ UNCHANGED <<storeVars, selectedIndexPath, screen>>
    BY <1>1, <2>3 DEF didSelectItemAt
  <2> QED BY <2>1, <2>2, <2>4, SetCurrentPage DEF storeVars
<1>2. ASSUME NEW ready \in ThumbnailSets, accessGranted(library, ready)
      PROVE  PageInv(library)'
  <2>1. /\ Idle /\ access = "asking" /\ access' = "granted" /\ fetchResult' = library
        /\ UNCHANGED <<storeVars, selectedIndexPath>>
    BY <1>2 DEF accessGranted
  <2>2. currentSelectedPhoto = Nil /\ loads = <<>>
    BY <2>1 DEF PageInv, LoadsHaveCurrent
  <2>3. setCurrentSelectedPhoto(library, selectedIndexPath, "initial", ready)
        /\ UNCHANGED screen
    BY <1>0, <1>2 DEF accessGranted
  <2> QED BY <1>0, <2>1, <2>2, <2>3, SetCurrentPage DEF storeVars
<1>3. CASE \E i \in DOMAIN loads : Answer(i)
  BY <1>3, LargeImagePage DEF Answer
<1>4. CASE accessDenied
  <2>1. /\ currentSelectedPhoto = Nil /\ loads = <<>> /\ access' = "denied"
        /\ UNCHANGED <<currentSelectedPhoto, loads, selectedIndexPath>>
    BY <1>4 DEF accessDenied, PageInv, LoadsHaveCurrent, photoVars, modelVars
  <2> QED BY <2>1 DEF PageInv, PageFits
<1>5. CASE Settled /\ Write
  <2>1. screen'.image = screen.image
    BY <1>5 DEF Write, beginEditing, type, endEditing, ViewTypeOK, Info
  <2>2. UNCHANGED <<fetchResult, loads, currentSelectedPhoto, selectedIndexPath, access>>
    BY <1>5 DEF Write, beginEditing, type, endEditing, photoVars, modelVars
  <2> QED BY <1>5, <2>1, <2>2, PageQuiet DEF Settled
<1>6. CASE saveAdds \/ saveCommits \/ saveFails
  <2>1. pc # "idle"
    BY <1>6 DEF saveAdds, add, saveCommits, commitWrite, saveFails, commitFails
  <2>2. loads = <<>>
    BY <2>1 DEF PageInv, Awaited
  <2> QED BY <1>6, <2>2, PageQuiet DEF saveAdds, saveCommits, saveFails, photoVars, modelVars, viewVars
<1>7. CASE saveCompletes
  <2>1. /\ pc # "idle" /\ currentSelectedPhoto' = [currentSelectedPhoto EXCEPT !.note = TRUE]
        /\ UNCHANGED <<fetchResult, loads, selectedIndexPath, access, screen>>
    BY <1>7 DEF saveCompletes, noteSaved, photoVars, viewVars
  <2>2. currentSelectedPhoto \in CurrentPhoto /\ currentSelectedPhoto # Nil
    BY <1>7, <2>1 DEF saveCompletes, SaveWritesTheScreen, ModelTypeOK
  <2>3. currentSelectedPhoto'.photoId = currentSelectedPhoto.photoId
        /\ currentSelectedPhoto'.photo = currentSelectedPhoto.photo
    BY <2>1, <2>2 DEF CurrentPhoto
  <2>4. loads = <<>>
    BY <2>1 DEF PageInv, Awaited
  <2> QED BY <2>1, <2>2, <2>3, <2>4 DEF PageInv, PageFits
<1>8. ASSUME NEW lib \in Libraries, libraryChanged(lib)
      PROVE  PageInv(library)'
  BY <1>0, <1>8, PageQuiet DEF libraryChanged, photoLibraryDidChange, storeVars, modelVars, viewVars
<1>9. CASE Relaunch
  BY <1>9 DEF Relaunch, PageInv, PageFits
<1>10. CASE dismissAlert \/ UNCHANGED vars
            \/ \E item \in Visible, ready \in ThumbnailSets : cellForItemAt(item, ready)
  BY <1>10, PageQuiet DEF dismissAlert, cellForItemAt, vars, storeVars, photoVars, modelVars, viewVars
<1> QED BY <1>1, <1>2, <1>3, <1>4, <1>5, <1>6, <1>7, <1>8, <1>9, <1>10
        DEF PatientNext, Select, System, Save, accessAnswered

\* Everything that holds of the patient user's application.
PatientInv(library) == AppInv /\ StripFits /\ PageInv(library)

LEMMA PatientInitInv ==
  ASSUME Init, NEW library, DefaultItem < Len(library)
  PROVE  PatientInv(library)
BY AppInitInv, StripInit, PageInit DEF PatientInv

LEMMA PatientStepInv ==
  ASSUME NEW library, Libraries = {library}, DefaultItem < Len(library),
         PatientInv(library), [PatientNext]_vars
  PROVE  PatientInv(library)'
BY PatientIsNext, AppStepInv, StripStep, PageStep DEF PatientInv

\* Once the application has settled, the selected row, the current photo and
\* the large image are the same photo's, for a user who waits, over a library
\* that does not change and has a photo at the default row.
THEOREM PatientSelectionAgrees ==
  ASSUME NEW library, Libraries = {library}, DefaultItem < Len(library)
  PROVE  PatientSpec => []SelectionAgrees
<1>1. Init => PatientInv(library)
  BY PatientInitInv
<1>2. PatientInv(library) /\ [PatientNext]_vars => PatientInv(library)'
  BY PatientStepInv
<1>3. PatientInv(library) => SelectionAgrees
  BY DEF PatientInv, PageInv, PageFits, SelectionAgrees, Settled
<1> QED BY <1>1, <1>2, <1>3, PTL DEF PatientSpec
-----------------------------------------------------------------------------
(* A user who waits: the indicators.                                       *)

\* Every cached view model knows whether its photo has a note, except the
\* selected row's between the row's arrival in the table and the completion.
Indicators ==
  Running /\ realm => \A item \in Item : cellViewModels[item] # Nil =>
    \/ pc = "completing" /\ item = selectedIndexPath
    \/ cellViewModels[item].hasNote = Noted(item)

LEMMA IndicatorsQuiet ==
  ASSUME Indicators, UNCHANGED <<realm, table, fetchResult, cellViewModels>>,
         pc # "completing", Running' => Running
  PROVE  Indicators'
BY DEF Indicators, Noted, getNote

\* A handler over the view models, whose indicators it leaves alone.
LEMMA IndicatorsDescend ==
  ASSUME Indicators, Idle, NEW cells, Descends(cellViewModels', cells),
         \A item \in Item : cells[item] # Nil =>
           cellViewModels[item] # Nil /\ cells[item].hasNote = cellViewModels[item].hasNote,
         UNCHANGED <<realm, table, fetchResult>>
  PROVE  Indicators'
<1>1. ASSUME realm, NEW item \in Item, cellViewModels'[item] # Nil
      PROVE  cellViewModels'[item].hasNote = Noted(item)
  BY <1>1 DEF Indicators, Idle, Descends, Kept, Fresh
<1> QED BY <1>1 DEF Indicators, Noted, getNote

LEMMA SelectionIndicates ==
  ASSUME AppInv, Indicators, Idle, NEW item \in Item, NEW cells \in Cells,
         NEW ready \in ThumbnailSets, selectionCompleted(item, cells, ready),
         \A j \in Item : cells[j] # Nil =>
           cellViewModels[j] # Nil /\ cells[j].hasNote = cellViewModels[j].hasNote,
         UNCHANGED fetchResult
  PROVE  Indicators'
<1>1. Descends(cellViewModels', cells)
  BY SelectionRows DEF AppInv, TypeOK
<1>2. UNCHANGED <<realm, table>>
  BY DEF selectionCompleted, reloadItems, raise, storeVars
<1> QED BY <1>1, <1>2, IndicatorsDescend

\* Rows of two places in the library are of two photos.
LEMMA RowsDiffer ==
  ASSUME NEW library \in Libraries, NEW i \in Item, NEW j \in Item, i # j,
         HasPhotoAt(library, i), HasPhotoAt(library, j)
  PROVE  PhotoAt(library, i) # PhotoAt(library, j)
<1>1. i + 1 \in DOMAIN library /\ j + 1 \in DOMAIN library /\ i + 1 # j + 1
  BY LibrariesFit DEF HasPhotoAt
<1>2. IsInjective(library)
  BY LibrariesFit
<1> QED BY <1>1, <1>2 DEF IsInjective, PhotoAt

\* The row that is added is the one of the selected row's photo.
LEMMA SaveAddsIndicates ==
  ASSUME NEW library, Libraries = {library}, PatientInv(library), Indicators, saveAdds
  PROVE  Indicators'
<1> USE DEF PatientInv, AppInv, TypeOK
<1>1. /\ pc = "adding" /\ Running /\ UNCHANGED <<realm, fetchResult, cellViewModels, selectedIndexPath>>
      /\ \/ table' = [table EXCEPT ![call.photoId] = call.note] /\ pc' = "completing"
         \/ fault' # "none"
  BY DEF saveAdds, add, photoVars, modelVars
<1>2. CASE fault' # "none"
  BY <1>2 DEF Indicators, Running
<1>3. CASE table' = [table EXCEPT ![call.photoId] = call.note] /\ pc' = "completing"
  <2>1. loads = <<>> /\ currentSelectedPhoto # Nil /\ call.photoId = currentSelectedPhoto.photoId
    BY <1>1 DEF PageInv, Awaited, SaveWritesTheScreen
  <2>2. call.photoId = PhotoAt(fetchResult, selectedIndexPath) /\ fetchResult = library
        /\ HasPhotoAt(fetchResult, selectedIndexPath) /\ selectedIndexPath \in Item
    BY <2>1 DEF PageInv, PageFits, PhotoTypeOK, ModelTypeOK, HasPhotoAt
  <2>3. ASSUME NEW item \in Item, cellViewModels[item] # Nil, item # selectedIndexPath
        PROVE  table'[PhotoAt(fetchResult, item)] = table[PhotoAt(fetchResult, item)]
    <3>1. HasPhotoAt(fetchResult, item)
      BY <2>3 DEF StripFits, CellsFit
    <3>2. PhotoAt(fetchResult, item) # call.photoId /\ PhotoAt(fetchResult, item) \in Photo
      BY <2>2, <2>3, <3>1, RowsDiffer, PhotoAtIsPhoto
    <3> QED BY <1>3, <3>2 DEF StoreTypeOK, Rows
  <2> QED BY <1>1, <1>3, <2>3 DEF Indicators, Noted, getNote
<1> QED BY <1>1, <1>2, <1>3

\* The completion indicates the note that the table has.
LEMMA SaveCompletesIndicates ==
  ASSUME NEW library, Libraries = {library}, PatientInv(library), Indicators, saveCompletes
  PROVE  Indicators'
<1> USE DEF PatientInv, AppInv, TypeOK
<1>1. /\ pc = "completing" /\ Running
      /\ UNCHANGED <<realm, fetchResult, selectedIndexPath, table>>
      /\ pc' = "committing" \/ fault' # "none"
  BY DEF saveCompletes, noteSaved, completion, raise, photoVars
<1>2. loads = <<>> /\ currentSelectedPhoto # Nil /\ call.photoId = currentSelectedPhoto.photoId
  BY <1>1 DEF PageInv, Awaited, SaveWritesTheScreen
<1>3. call.photoId = PhotoAt(fetchResult, selectedIndexPath)
  BY <1>2 DEF PageInv, PageFits
<1>4. getNote(call.photoId) = call.note /\ call.note \in Note
  BY <1>1, CallFields DEF StoreInv, StoreTypeOK, DuringSave, RowAdded, getNote
<1>5. call.note # Nil /\ call.note.hasNote \in BOOLEAN
  BY <1>4, NoteFields, NewNoteIsRow DEF Note
<1>6. HasNote(call.note) = call.note.hasNote
  BY <1>5 DEF HasNote
<1>7. Noted(selectedIndexPath) = call.note.hasNote
  BY <1>3, <1>4, <1>6 DEF Noted
<1>8. ASSUME realm, NEW j \in Item, cellViewModels'[j] # Nil
      PROVE  cellViewModels'[j].hasNote = Noted(j)
  <2>1. /\ cellViewModels[j] # Nil
        /\ j = selectedIndexPath => cellViewModels'[j].hasNote = call.note.hasNote
        /\ j # selectedIndexPath => cellViewModels'[j] = cellViewModels[j]
    BY <1>8, CompletesRows
  <2> QED BY <1>1, <1>7, <1>8, <2>1 DEF Indicators
<1> QED BY <1>1, <1>8 DEF Indicators, Noted, getNote, Running

LEMMA IndicatorsStep ==
  ASSUME NEW library, Libraries = {library}, PatientInv(library), Indicators,
         [PatientNext]_vars
  PROVE  Indicators'
<1> USE DEF PatientInv, AppInv, TypeOK
<1>0. /\ fetchResult \in {library, Nil} /\ cellViewModels \in Cells
      /\ selectedIndexPath \in Item
  BY DEF PhotoTypeOK, ModelTypeOK, Cells
<1>1. ASSUME NEW item \in Item, NEW ready \in ThumbnailSets, didSelectItemAt(item, ready)
      PROVE  Indicators'
  <2>1. Idle /\ UNCHANGED fetchResult
    BY <1>1 DEF didSelectItemAt, Touchable
  <2>2. CASE UNCHANGED <<storeVars, cellViewModels>>
    BY <2>1, <2>2, IndicatorsQuiet DEF storeVars, Idle, Running
  <2>3. CASE selectionCompleted(item, cellViewModels, ready)
    BY <1>0, <2>1, <2>3, SelectionIndicates
  <2> QED BY <1>1, <2>2, <2>3 DEF didSelectItemAt
<1>2. ASSUME NEW ready \in ThumbnailSets, accessGranted(library, ready)
      PROVE  Indicators'
  <2>1. /\ Idle /\ fetchResult' = library /\ UNCHANGED <<storeVars, cellViewModels>>
    BY <1>2 DEF accessGranted
  <2>2. CASE fetchResult = library
    BY <2>1, <2>2, IndicatorsQuiet DEF storeVars, Idle, Running
  <2>3. CASE fetchResult = Nil
    BY <2>1, <2>3 DEF StripFits, CellsFit, HasPhotoAt, Indicators
  <2> QED BY <1>0, <2>2, <2>3
<1>3. ASSUME NEW i \in DOMAIN loads, NEW image \in {loads[i].photo, Nil},
             NEW ready \in ThumbnailSets, largeImageLoaded(i, image, ready)
      PROVE  Indicators'
  <2> DEFINE item == loads[i].item
             cells == CellsWithImage(item, image)
  <2>1. loads[i] \in Load
    BY DEF PhotoTypeOK
  <2>2. item \in Item /\ image \in Photo \cup {Nil}
    BY <2>1 DEF Load
  <2>3. /\ cells \in Cells
        /\ \A j \in Item : cells[j] # Nil =>
             cellViewModels[j] # Nil /\ cells[j].hasNote = cellViewModels[j].hasNote
    BY <2>2, ImageRows
  <2>4. Idle /\ UNCHANGED fetchResult
        /\ \/ selectionCompleted(item, cells, ready)
           \/ cellViewModels' = cells /\ UNCHANGED storeVars
    BY <1>3 DEF largeImageLoaded
  <2> HIDE DEF cells, item
  <2>5. CASE selectionCompleted(item, cells, ready)
    BY <2>2, <2>3, <2>4, <2>5, SelectionIndicates
  <2>6. CASE cellViewModels' = cells /\ UNCHANGED storeVars
    BY <2>3, <2>4, <2>6 DEF Indicators, Idle, storeVars, Noted, getNote, Running
  <2> QED BY <2>4, <2>5, <2>6
<1>4. ASSUME NEW item \in Item, NEW ready \in ThumbnailSets, cellForItemAt(item, ready)
      PROVE  Indicators'
  <2>1. Descends(cellViewModels', cellViewModels)
    BY <1>0, <1>4, GetCellRows DEF cellForItemAt
  <2> QED BY <1>4, <2>1, IndicatorsDescend DEF cellForItemAt, storeVars, photoVars
<1>5. CASE saveAdds
  BY <1>5, SaveAddsIndicates
<1>6. CASE saveCompletes
  BY <1>6, SaveCompletesIndicates
<1>7. CASE saveCommits \/ saveFails
  BY <1>7, IndicatorsQuiet DEF saveCommits, commitWrite, saveFails, commitFails, photoVars,
     modelVars, Running
<1>8. ASSUME NEW next \in Texts \cup {"none"}, endEditing(next)
      PROVE  Indicators'
  BY <1>8, IndicatorsQuiet DEF endEditing, saveNote, Touchable, Idle, storeVars, photoVars
<1>9. ASSUME NEW lib \in Libraries, libraryChanged(lib)
      PROVE  Indicators'
  BY <1>0, <1>9, IndicatorsQuiet DEF libraryChanged, photoLibraryDidChange, Idle, Running,
     storeVars, modelVars
<1>10. CASE Relaunch
  BY <1>10 DEF Relaunch, NoCells, Indicators
<1>11. ASSUME \/ \E text \in Texts : beginEditing(text)
              \/ \E string \in Typed : type(string)
              \/ dismissAlert \/ accessDenied
       PROVE  Indicators'
  BY <1>11, IndicatorsQuiet DEF beginEditing, type, dismissAlert, accessDenied, Touchable, Idle,
     Running, storeVars, photoVars, modelVars
<1>12. CASE UNCHANGED vars
  BY <1>12 DEF vars, storeVars, photoVars, modelVars, Indicators, Noted, getNote, Running
<1> QED BY <1>1, <1>2, <1>3, <1>4, <1>5, <1>6, <1>7, <1>8, <1>9, <1>10, <1>11, <1>12,
        PlaceholdersAreRows
        DEF PatientNext, Select, Write, System, Answer, Save, accessAnswered

\* Every cached indicator says whether its photo has a note, whatever saves,
\* failed commits and restarts there have been, under the same hypotheses.
THEOREM PatientIndicatorsAreRight ==
  ASSUME NEW library, Libraries = {library}, DefaultItem < Len(library)
  PROVE  PatientSpec => []IndicatorsAreRight
<1>1. Init => PatientInv(library) /\ Indicators
  BY PatientInitInv DEF Init, NoCells, Indicators
<1>2. PatientInv(library) /\ Indicators /\ [PatientNext]_vars
        => PatientInv(library)' /\ Indicators'
  BY PatientStepInv, IndicatorsStep
<1>3. Indicators => IndicatorsAreRight
  BY DEF Indicators, IndicatorsAreRight, Idle, Noted
<1> QED BY <1>1, <1>2, <1>3, PTL DEF PatientSpec
-----------------------------------------------------------------------------
(* A user who waits has an album.                                          *)

\* A commit writes one whole note, on the page that is open.
LEMMA CommitIsWrite ==
  ASSUME NEW library, PatientInv(library), saveCommits
  PROVE  TheAlbum!Next
<1> USE DEF PatientInv, AppInv, TypeOK
<1>1. /\ pc = "committing" /\ Running /\ disk' = table
      /\ UNCHANGED <<fetchResult, selectedIndexPath, currentSelectedPhoto>>
  BY DEF saveCommits, commitWrite, photoVars, modelVars
<1>2. call.photoId \in Photo /\ call.note \in Note
  BY <1>1, CallFields DEF StoreInv, StoreTypeOK, DuringSave
<1>3. table = [disk EXCEPT ![call.photoId] = call.note]
  BY <1>1, <1>2 DEF StoreInv, StoreTypeOK, Rows, DuringSave, OnlyTheCalledRow, RowAdded
<1>4. loads = <<>> /\ currentSelectedPhoto # Nil /\ call.photoId = currentSelectedPhoto.photoId
  BY <1>1 DEF PageInv, Awaited, SaveWritesTheScreen
<1>5. OpenPage = call.photoId
  BY <1>4 DEF OpenPage, PageInv, PageFits
<1>6. OpenPage' = OpenPage
  BY <1>1 DEF OpenPage
<1>7. OpenPage # Nil
  BY <1>2, <1>5, NilIsNoLibrary
<1>8. TheAlbum!Write(call.note)
  BY <1>1, <1>3, <1>5, <1>6, <1>7 DEF TheAlbum!Write
<1>9. call.note \in TheAlbum!Note
  BY <1>2 DEF Note, NewNote, String, TheAlbum!Note, TheAlbum!NewNote, TheAlbum!String
<1> QED BY <1>8, <1>9 DEF TheAlbum!Next

\* Every other step may turn the page and writes nothing.
LEMMA StepIsAlbumStep ==
  ASSUME NEW library, Libraries = {library}, DefaultItem < Len(library),
         PatientInv(library), PatientNext
  PROVE  TheAlbum!Next
<1>1. CASE saveCommits
  BY <1>1, CommitIsWrite
<1>2. CASE ~ saveCommits
  <2>1. UNCHANGED disk
    BY <1>2 DEF PatientNext, Select, didSelectItemAt, Write, beginEditing, type, endEditing,
       dismissAlert, System, accessAnswered, accessGranted, accessDenied, Answer,
       largeImageLoaded, selectionCompleted, reloadItems, cellForItemAt, libraryChanged,
       Save, saveAdds, saveCompletes, saveFails, Relaunch, storeVars,
       saveNote, add, completion, raise, commitFails, relaunch
  <2>2. PatientInv(library)'
    BY PatientStepInv
  <2>3. OpenPage' \in Photo \cup {Nil}
    <3>1. CASE currentSelectedPhoto' # Nil
      <4>1. /\ fetchResult' = library /\ library # Nil /\ selectedIndexPath' \in Item
            /\ HasPhotoAt(library, selectedIndexPath')
        BY <2>2, <3>1, NilIsNoLibrary
           DEF PatientInv, PageInv, HasPhotoAt, AppInv, TypeOK, PhotoTypeOK, ModelTypeOK
      <4>2. PhotoAt(library, selectedIndexPath') \in Photo
        BY <4>1, PhotoAtIsPhoto
      <4> QED BY <4>1, <4>2 DEF OpenPage
    <3> QED BY <3>1 DEF OpenPage
  <2>4. TheAlbum!Turn(OpenPage')
    BY <2>1 DEF TheAlbum!Turn
  <2> QED BY <2>3, <2>4 DEF TheAlbum!Next
<1> QED BY <1>1, <1>2

\* The application implements the album: what becomes durable is one whole
\* note at a time, on the photo of the selected row, and nothing else turns
\* into a write, under the same hypotheses.
THEOREM PatientImplementsAlbum ==
  ASSUME NEW library, Libraries = {library}, DefaultItem < Len(library)
  PROVE  PatientSpec => ImplementsAlbum
<1>1. Init => PatientInv(library)
  BY PatientInitInv
<1>2. PatientInv(library) /\ [PatientNext]_vars => PatientInv(library)'
  BY PatientStepInv
<1>3. Init => TheAlbum!Init
  BY DEF Init, StoreInit, NoRows, OpenPage, TheAlbum!Init
<1>4. PatientInv(library) /\ [PatientNext]_vars => [TheAlbum!Next]_TheAlbum!album
  <2> SUFFICES ASSUME PatientInv(library), UNCHANGED vars
               PROVE  UNCHANGED TheAlbum!album
    BY StepIsAlbumStep
  <2> QED BY DEF vars, storeVars, photoVars, modelVars, OpenPage, TheAlbum!album
<1> QED BY <1>1, <1>2, <1>3, <1>4, PTL DEF PatientSpec, ImplementsAlbum, TheAlbum!Spec
=============================================================================
