---------------------------- MODULE PhotoManager ----------------------------
(***************************************************************************)
(* PhotoManager over the Photos framework: the fetched list of assets,     *)
(* newest first, and the requests for large images that are under way.     *)
(* A thumbnail request answers inside the call or not at all (fetchPhoto   *)
(* returns before a later answer could be of use); a large image arrives   *)
(* on the main thread at any later time, in any order, or as nil when the  *)
(* network fails.                                                          *)
(***************************************************************************)
EXTENDS Notes, SequencesExt

CONSTANTS
  Libraries,      \* the lists of assets a fetch, or a library change, may give
  ThumbnailSets,  \* the sets of photos whose thumbnail may be at hand in one handler
  Item,           \* the rows of the photo strip
  MaxLoads        \* bound on the large images on request at a time

ASSUME LibrariesFit ==
  /\ Item \subseteq Nat
  /\ \A library \in Libraries :
       /\ library \in Seq(Photo)
       /\ IsInjective(library)
       /\ \A i \in DOMAIN library : i - 1 \in Item

ASSUME ThumbnailsOfPhotos == ThumbnailSets \subseteq SUBSET Photo

ASSUME NilIsNoLibrary == Nil \notin Libraries /\ Nil \notin Photo

VARIABLES
  fetchResult,  \* the list of assets, or Nil while there is no photo manager
  loads         \* the requests under way, with the row and the caller that the
                \* closure captured

photoVars == <<fetchResult, loads>>

Load == [item : Item, photo : Photo, caller : {"initial", "select"}]

PhotoTypeOK ==
  /\ fetchResult \in Libraries \cup {Nil}
  /\ loads \in Seq(Load)

-----------------------------------------------------------------------------
\* Rows count from 0, sequences from 1.
HasPhotoAt(library, item) == library # Nil /\ item < Len(library)

PhotoAt(library, item) == library[item + 1]

\* fetchPhoto returns a photo: its row exists and its thumbnail is at hand.
fetchPhoto(library, item, ready) ==
  HasPhotoAt(library, item) /\ PhotoAt(library, item) \in ready

loadLargeImage(item, photo, caller) ==
  /\ Len(loads) < MaxLoads
  /\ loads' = Append(loads, [item |-> item, photo |-> photo, caller |-> caller])

\* The framework answers request i, with the image or with nil.
answerLoad(i) ==
  /\ i \in DOMAIN loads
  /\ loads' = RemoveAt(loads, i)

\* The list is replaced; nobody else is told.
photoLibraryDidChange(library) ==
  /\ fetchResult # Nil
  /\ fetchResult' = library
  /\ UNCHANGED loads
=============================================================================
