# Phonotes in TLA+

Phonotes is an iOS application for writing notes on the photos of the local
album. The repository carries its database, Realm, in source: the object store,
the bindings and the headers of the storage engine. This directory holds TLA+
modules that model the application and the concurrent parts of the object
store, TLC configurations that check the models on small instances, and TLAPS
proofs of theorems about them for every instance.

Paths are relative to `src/Phonotes/Phonotes/` for the application, and to
`src/Phonotes/Pods/Realm/Realm/ObjectStore/src/` for the object store; `RLM...`
files are in `src/Phonotes/Pods/Realm/Realm/`, and headers of the object store
in `src/Phonotes/Pods/Realm/include/`.

## 1. The system

### The application

| component | state | operations | used by |
|---|---|---|---|
| `Services/NoteManager.swift` | one Realm instance, or nil | open, `getNote`, `saveNote` | view model, photo manager |
| Realm (vendored, `Pods/RealmSwift`, `Pods/Realm`) | the committed file, the open transaction | `write`, `add(update: .all)`, commit, lookup by key | note manager |
| `Models/Note.swift`, `Models/Photo.swift` | a row; an asset with image and live note | `Photo.init` looks the note up | all |
| `Services/PhotoManager.swift` | `fetchResult`; requests under way in PhotoKit | `fetchPhoto`, `loadLargeImage`, `photoLibraryDidChange` | view model |
| `Protocols/PhotoProtocol.swift` | none | permission request, unregistering the observer | controller |
| `ViewModel/.../NoteTakingViewModel.swift` | selected row, current photo, cached cell view models, date/image/texts for the screen | `updatePhotoManager`, `setCurrentSelectedPhoto`, `saveNote`, `getCellViewModel`, ... | controller |
| `ViewModel/.../NoteTakingPhotoCellViewModel.swift` | picture, indicator, selected flag | made and updated by the view model | cells |
| `Views/NoteTakingViewController.swift` | the screen: labels, image, two texts, strip, alert | life cycle, selection, text delegates, keyboard | UIKit |
| `Views/PhotoPreviewCollectionViewCell.swift` | what one cell displays | `configCell`, `prepareForReuse` | collection view |
| `AppDelegate.swift`, storyboards, tests | none of interest | templates | |

Everything of the application runs on the main thread. There is still plenty
of concurrency: a handler starts work (a large image, the permission request)
and the closure it leaves behind runs later, after any number of other
handlers, on whatever state they left. The closures capture the row; they do
not capture the photo. The library can change between any two handlers, and the
photo manager is the only part that hears of it. `saveNote` is the one long
operation with failure points inside it, and the one place where state
outlives the process.

What makes each part correct:

* note manager: a durable map from photo to note, changed by one whole note at
  a time; the answer a caller gets is true; no failure costs more than one note.
* photo manager and view model: row, photo, image and texts belong together
  once nothing is under way; every cached view model tells the truth about its
  row; exactly one is selected.
* controller: what is saved is what is on the screen, for the photo on the
  screen; what becomes current gets on the screen; no handler drives UIKit into
  an exception.

### Realm's object store

The application uses one Realm on the main thread, and neither notifications
nor synchronisation; both are part of the program it ships.

| component | state | operations | used by |
|---|---|---|---|
| `impl/collection_notifier.cpp`, `impl/results_notifier.cpp` | a notifier per observed collection: its version, its callbacks, what has accumulated for each, the position in the loop that calls them | add, remove, suppress, package, call; run, hand over, deliver | coordinator, binding |
| `impl/realm_coordinator.cpp` | the new and the running notifiers, the version to skip | register, `on_change`, `process_available_async`, `advance_to_ready`, `promote_to_write`, `commit_write` | `Realm`, the worker |
| `shared_realm.cpp` | the version it reads, whether it writes | `notify`, `refresh`, begin, commit, cancel | binding, run loop |
| `impl/apple/external_commit_helper.cpp` | a named pipe | wake the worker; `notify_others` | coordinator, other processes |
| `impl/collection_change_builder.cpp`, `index_set.cpp`, `impl/transact_log_handler.cpp` | a change set: deletions, insertions, modifications, moves | one function per instruction of a transaction log, `calculate`, `merge`, `finalize` | notifiers |
| `sync/sync_session.cpp` | one of four states, the client library's session, queued completion handlers, a deferred close and commit | revive, close, log out, token answers, errors, waits | manager, user, binding |
| `sync/sync_manager.cpp`, `sync/sync_user.cpp` | the sessions by path; the user's state and sessions | `get_session`, `unregister_session`, `reconnect`; `log_out`, logging in, `invalidate` | binding |
| core, schema, queries, partial sync, permissions, metadata | | | see section 5 |

Four kinds of threads meet here. The main thread's code reads, writes, adds and
removes callbacks, also within a callback. The notifier worker wakes up when
somebody has written to the pipe, runs the queries in a read transaction of its
own and hands the result over. Other threads and processes commit whenever
they like, and write to the pipe some time later. The sync client's thread reports
uploads, completed waits and errors. `m_notifier_mutex` and, per notifier,
`m_callback_mutex` protect the first half; `m_session_mutex`, the user's
`m_mutex` and `m_state_mutex` the second. All are released in the middle of
longer operations, which is where things can go wrong.

* notifications: every callback is told of every commit, once, in order, of the
  version that the Realm reads; a wait for the worker ends.
* change sets: applied to the collection that a callback knows, they give the
  collection it sees, over any number of transactions and merges.
* sync: a session is registered as long as somebody holds it, waits for a token
  only if it has asked for one, uploads before it ends if its policy says so, and
  calls every completion handler once; no two threads wait for each other.

The hazards of all parts, each at the line where it bites and with the
properties that would catch it, are listed in `PROJECT.json`.

## 2. The modules

| module | models | state |
|---|---|---|
| `Notes` | `Note`, the strings that matter, the row `saveNote` builds | none |
| `NoteBook` | abstract: what the store promises | `notes` |
| `NoteStore` | `NoteManager` over Realm, `saveNote` step by step | `realm stage disk table pc call answers fault` |
| `PhotoManager` | `PhotoManager` over PhotoKit | `fetchResult loads` |
| `NoteTakingViewModel` | the view model and the cell view models | `selectedIndexPath currentSelectedPhoto cellViewModels info` |
| `NoteTaking` | the controller and the composition: the whole application | `screen editing access shown alert` |
| `Album` | abstract: what a user who waits may rely on | `notes page` |
| `CollectionNotifier` | operators on one notifier's state: callbacks, packages, runs | none |
| `RealmCoordinator` | the composition: main thread's Realm, notifiers, worker, the others | `latest realm notifiers worker skipVersion pipe signal owed`, and history |
| `IndexSets` | `IndexSet`, as a set of positions | none |
| `CollectionChangeBuilder` | the builder's member functions, from state to state | none |
| `CalculatedChanges` | `calculate` with both of its algorithms | none |
| `TransactLogObserver` | a collection, a log of instructions, the worker's runs | `kind rows keys touched change start shown seen changed accumulated swapped leftover left` |
| `SyncSession` | session, manager, user, threads and the client library | `s entry holders user asked managerLock userLock thread version uploaded`, and history |
| `NoteStoreProofs`, `NoteTakingProofs`, `SyncSessionProofs` | theorems | |
| `StripProofs` | theorems about an unchanging library, and about a user who waits | |
| `RealmCoordinatorProofs`, `RealmDeliveryProofs`, `RealmCoverProofs` | theorems, in three layers | |
| `ChangeSetProofs` | theorems about `TransactLogObserver` and the operators it uses | |
| `MCNoteTaking`, `MCRealmCoordinator`, `MCTransactLogObserver`, `MCSyncSession` | instances for TLC | |

`NoteTaking` extends `NoteTakingViewModel`, which extends `NoteStore` and
`PhotoManager`, as the controller owns the view model and that the two
managers. Names are those of the source wherever it has one.

**Grain of the application.** A handler runs to its end on the main thread, so it is one action
guarded by `Idle`. Closures that the Photos framework or the main queue run
later are actions of their own. `saveNote` is taken apart (`saveNote`, `add`,
`completion`, `commitWrite` or `commitFails`) because the process can die
between any two of its steps and each can fail: opening the file
(`NoteManager.swift:17`), beginning (`RLMRealm.beginWriteTransaction` raises),
adding (`RLMAddObjectToRealm` raises when the file cannot grow), the completion
(interface code inside the transaction may raise), and the commit
(`Realm.write` throws, without cancelling, when the disk is full; the shared
group stays in its writing stage, so reads still see the row and the next
`beginWrite` raises). An Objective-C exception is not caught by Swift's
`catch` and ends the process: `fault`, after which only `Relaunch` is possible.

**Realm, in `NoteStore`.** `table` is what this instance reads, `disk` the latest committed
version. Note objects are live, so a `Photo` holds only whether it has one,
and reading it reads `table`. Rows are overwritten as a whole: `update: .all`.

**Photos.** `requestImage` with `options: nil` may call its handler before it
returns, or not; `fetchPhoto` returns what it has by then. Each handler is
given the set `ready` of photos whose thumbnail is at hand. Large images
(`loads`) are answered once, at any later time, in any order, with an image or
with nil. A load records the row and the caller, the two things the closures
capture.

**UIKit** is external and modelled by how the code uses it: the collection view
keeps the number of cells it last counted (`shown`); `reloadItems` raises if
the data source now has another number or a row is out of range; an alert takes
every touch. When one text takes over editing from the other, the new one's
`ShouldBegin` runs first, then the old one's `ShouldEnd` and `DidEnd`
(`endEditing(next)` with `next # "none"`). The title's edit button works without access.

**Abstractions.** An image is the photo it shows, the date the photo it belongs
to; a thumbnail and a large image of one photo are not told apart. Strings are
`""`, the placeholder, and some others. A nil title or detail is `""`, which
is what the screen and `hasNote` make of it. Sizes and styling are left out.

**Grain of the object store.** What a thread does while it holds a mutex is one
step; what it does after releasing it is another. A run of the worker is
`RunBegins` (clean up, choose versions, take the skip request), `RunNotifiers`,
`HandOver` and `NotifyRealms`. In `SyncSession`, `m_session_mutex` and the user's
`m_mutex` are held across several steps, so they are variables and `thread` says
where each thread is; `m_state_mutex` is not, as one hold is one step.
A thread that waits for a mutex it holds itself, or a failed assertion
(`failed`), is a state without that thread's next step, as in the code.

**Notifications.** A change set is the set of versions it describes; that
merging and delivering change sets adds up is what `TransactLogObserver` is about. A
version is a number, a read transaction a version. `told`, `hushed` (commits a
callback asked not to hear of), `given` and `called` are history: the code does
not have them. `excuses` records the known ways in which the code loses or
repeats a change, or waits in vain, and the action that takes one says when it
does. The properties hold unless the excuse that matters was met, so they say
that there is no *other* way:

| excuse | what has happened | where |
|---|---|---|
| `uncounted` | a callback that was added during a delivery is removed during it: the count that never included it is decremented, so that another callback is passed over or, from 0, the loop has no end | `impl/collection_notifier.cpp:214` |
| `unwoken` | a callback is added within a callback of the same collection: the worker is not woken for its first call | `impl/collection_notifier.cpp:188` |
| `unheard` | a callback was added after a run had looked for callbacks and found none: the run's version is handed over without its change | `impl/collection_notifier.hpp:232` |
| `unread` | a notifier went to a version without being run for it, so that its next change is computed against older rows and repeats what was told | `impl/results_notifier.cpp:134` |
| `jumped` | a write begun within a callback goes on to the newest version, past changes that were still to be computed or told | `shared_realm.cpp:666` |
| `abandoned` | a refresh or a write waits for a collection that another thread destroys | `impl/realm_coordinator.cpp:691` |

A callback's position in the loop and the number of callbacks to call are unsigned in
the code. `SizeMax` stands for the largest `size_t`: taking one from 0 gives `npos` for the
index, which the loop counts up to 0 again, and `SizeMax` for the count. A loop whose
count is beyond the callbacks reads whatever lies behind them; the model stops the main thread
there (`realm.pc = "beyond"`) and lets the others go on.

**Change sets.** `rows` are the links of a list or the rows of a table, as
identities; every instruction of the log changes them and, as `TransactLogObserver`
does, the builder. `Run` is the end of a log: the list's changes or the difference
between the query's old and new results are merged into `accumulated`. `seen` is
the collection a callback knows. `RunOfDeletedList` is the end of a log in which the list's own
row was deleted: the observer drops the builder as it is, and `ListNotifier::run` deletes every
position. `leftover` records that it had insertions or modifications, which are then reported
too. `ListNotifier::run` otherwise adds the links whose rows were modified to the modifications;
the model does that with the instruction (`link_list_set`). An observed query is in table order or sorted by
a property, which is where the two algorithms of `calculate` are used. A new row or
link takes the least identity that nobody remembers, as only equality matters.

**Sync.** `sync::Session` of the prebuilt client library is external: whether
there is one, the waits it was given, and the commits it was told of.
`asked` is the binding's request for an access token (`RLMSyncSessionRefreshHandle`),
with its first try, its retries, and the answers after which it gives up
without telling the session.

**Mutants.** Operators whose comment begins with "Mutant of" are wrong versions
of the operator that follows. No specification uses them; they show, for every
property, a mistake in the code that the property would catch.

## 3. The runs

The runs of the application have two photos and one text beside `""` and the placeholder. Two
photos are enough for every mix-up of photos, as a mix-up is of two; two loads
for every overtaking. A note's content matters only as present, changed or
cleared. `Texts` limits the texts a user edits in a run, `Typed` what is left in
them, `Visible` the rows laid out, `MaxLoads` the large images under way. The
code's default row is 2 and its placeholders are 5; the runs use 0 or 1 and one
or two, keeping their relation to the library's length.

| run | configuration | question |
|---|---|---|
| `screen` | `Screen.cfg` | Whole application, one row, a library that is `p1`, `p2` or empty and changes: does the screen agree with photo and store at rest, and is `saveNote` a durable, truthful save under every failure? |
| `strip` | `Strip.cfg` | Unchanging library with thumbnails at hand, two rows, two loads: are selection and pictures right, and does UIKit never raise? |
| `patient` | `Patient.cfg` | For a user who waits: do row, photo, image and indicators agree, and is the application an `Album`? |
| `arrival` | `Arrival.cfg` | Does every photo that becomes current get on the screen? |
| `collections` | `Collections.cfg` | Two collections, a callback that comes and goes: do packages have one version? |
| `callbacks` | `Callbacks.cfg` | One collection, two callbacks that remove themselves and each other and are added during a delivery: does the loop over them stay within them, and is nobody passed over or told twice? |
| `notices` | `Notices.cfg` | One collection, three versions: is every commit told, once, at the version that is read, and does every wait end? |
| `changes` | `Changes.cfg` | Does the accumulated change set turn the collection a callback knows into the one it sees? |
| `sync` | `SyncSession.cfg` | One thread and the client, every stop policy: the session's life, its handlers, its uploads |

One row is enough in `screen` and `arrival` because their properties speak of
the current photo only, and the library's changes put either photo in that row.
`strip` and `patient` speak of rows, and have two. A strip without a change of
library is also what `CellsShowTheirPhotos` needs: the cache is by row and
is never dropped, so that with a change it does not hold.

The object store's runs. Two collections are what a package with one version
needs; the second version is what a skip, a refresh and another's commit need
to compete, and the third what a callback needs to be told something twice or too
late. `callbacks` has two tokens, each of which can be used once: one callback can remove itself
or the other before, at and after the loop's position, and one can be added during a call and
removed again. Three versions are in `notices`, with one token, so that liveness can be
checked; `collections` has symmetry over collections. `SizeMax` need only be beyond the number
of callbacks there. In `changes` a list of three
links has four instructions, and a table of three rows, or of the four it
grows to, has three, with runs of the worker between any of them; longer logs (five
instructions on a list, four on a table) were checked for one kind at a time with the
same result. A run of three instructions has an erased, a moved and an inserted
row, or three change sets to merge. Any `SizeMax` beyond
twice the rows behaves as the largest `size_t` does. In `sync`, `Budget`
bounds deaths and handlers, together, at two: two deaths, because the second is the
one that an old wait could end, or a handler registered before a death. One handler
is enough because handlers do not meet.

Deadlock is checked in the application's runs; there is none, as a dead process
can be launched again. It is not checked in the others: a model with a bounded
number of commits or instructions stops, and in `SyncSession` threads really can.

**Fairness.** `arrival`: weak fairness of the steps of a save, which is
straight-line code, and of the permission request's answer; and strong fairness, per row, of the Photos framework's
answers. Strong, because an answer waits on the main queue while a save
occupies the main thread: it is disabled again and again, and the queue, being
first in first out, still serves it. Nothing is assumed of the user, of library changes,
or of launches. `notices`: weak fairness of the worker, which is a thread of its own; of
the main run loop, which handles a signal when the stack is empty, finishes the
calls it has begun and a write that was begun; and of the others' write to the pipe
after a commit. Nothing is assumed of anybody's decision to write, to refresh, or to
add or remove a callback. No liveness is claimed of sessions: tokens may never come.

`strip` needs every thumbnail at hand: when a row's is not, `getCellViewModel`
passes over the cached view model for a default one, `isSelected = false` is
lost on it, and two cached view models stay marked. In the same situation a tap,
or the grant of access, does nothing at all (`NoteTakingViewModel.swift:60`):
the selected row's photo is then never loaded, and `CurrentIsShown` speaks only of
photos that did become current.

### Where the code does something else than the repository says

Each of these runs checks one sentence of the repository and TLC finds a
behaviour that breaks it (`findings` in `PROJECT.json` quotes the sentences).

| run | behaviour |
|---|---|
| `wrong_photo` | A row is tapped while a text is edited and its image is under way; the text typed for the photo on the screen is saved for the tapped one. |
| `undone_save` | The library grew or shrank; editing ends; reloading the cell raises inside the write; the note is gone. |
| `lock_order` | One thread logs the user out and holds the user's mutex; another gets the session and holds the manager's; each needs the other's. |

### Seen while modelling

Behaviours of the code that no run of the project is about. Where a property is
named, it is defined in the module and TLC finds the behaviour when it is
added to a configuration.

Application:

* Realm could not be opened: a note is not stored and nobody says so.
* A library of two photos: the first large image's completion reloads row 2, the
  default, which does not exist (`NoteTakingViewModel.swift:21`).
* Of two large images, the one requested first may arrive last and stays on the
  other photo's page; and editing that ends before an image arrives gives the
  previous row's cell the indicator.

These and `wrong_photo` have one cause: the current photo changes at the
tap, the row and the screen only when the image arrives. `patient` shows that this
is the only cause: for a user who waits, with an unchanging library, the
application is an `Album`.

Notifications:

* A callback removes itself while it is called, which leaves a count of 0, adds another
  one and removes that: the `size_t` `m_callback_count` wraps around and the loop goes on
  beyond the end of `m_callbacks` (`CountFits`, the assertion at `collection_notifier.cpp:376`,
  fails in the instance of `callbacks`). `CountFitsIfCounted` is what holds.
* The excuses of section 2. `RealmCoordinator!WaitEnds` fails by `abandoned` alone: the last
  collection is destroyed, `run_async_notifiers` returns at line 691 and does not reach
  its `notify_all`, and the refresh sleeps although what it waits for has become true.
* A callback that was to be skipped is told of the write all the same
  (`SuppressedIsNotTold`): callbacks are suppressed one by one before the commit
  (`RLMRealm.mm:625`), and a hand-over without changes in between uses the suppression up.
* `m_have_callbacks` may be stale, and that does cost a change (`StaleFlagLosesNothing`).

Change sets:

* A link is inserted and then the list's row is deleted, in one transaction: the callback
  is told of an insertion into a list that has no links (`DeletedListIsEmpty`): `run` adds every
  position to the deletions (`list_notifier.cpp:79`) and leaves what else the builder holds.
* After `swap_rows`, `calculate_moves_unsorted` may report a change that is not one:
  rows 1 2 3, two rows added, 1 swapped with 5 and 2 with 4, makes 5 4 3 2 1, and the
  result says that 2 and 3 have kept their order. Its comment (`collection_change_builder.cpp:530`)
  restricts itself to "the absence of swap()", its caller does not, and the check of a
  debug build at line 860 fails. `swapped` excepts this; no other log does it.
* Equal matches are meant to prefer the one with fewer modified rows; line 673 counts
  from `best.j - size + 1` although `best.j` is the start already, and counts positions
  among common rows where the set has positions in the results. Only the choice
  between equally long descriptions depends on it.
* Line 700 compares with `end2` where `end1` is meant, which costs at most a longer
  description.
* `clear_table` deletes every position up to `SIZE_MAX`; `add_shifted_by` would visit each
  when that is merged into a table's builder that is not empty.
* When the row of an observed list is deleted, `erase_rows` puts the last list of
  `m_info.lists` into its place and goes on after it (`transact_log_handler.cpp:576`), so that this
  list's row is not looked at: if it is the row that moves over, what happens to that list
  in the rest of the transaction is missed. One collection is modelled, so no run shows it.
* A row that is moved and modified is told as moved only: `finalize` drops it from
  the modifications, as it drops insertions.

Sync:

* A session somebody holds may be dying (`HeldIsNotDying`, `sync_session.cpp:890`):
  `get_session` revives it before it takes its reference, and a close that was
  under way comes in between.
* Two threads that find a session inactive both unregister it, and the second one's
  assertion fails (`UnregisteredOnce`, `sync_manager.cpp:498`). `advance_state`'s assertion
  fails when a log-out comes between `handle_error`'s look at the state and its step
  (`sync_session.cpp:609`).
* `unregister_session` asks for the external reference in order to look at it; it can
  be the last to hold it, and dropping it closes the session and locks
  `m_session_mutex` a second time on the same thread.
* An answer without a token, or a refusal after a retry, is not passed on to the
  session, which waits until somebody calls `reconnect`.
* A commit during a death is not announced to the client, so the session may end before
  it is uploaded; it is when the session is next active.
* An error of an earlier `sync::Session` object is handled as the present one's;
  completion callbacks of `log_out` run under the user's mutex; `m_config` is replaced
  under `m_state_mutex` (line 884) and read without it (lines 619 and 748).

## 4. The proofs

TLAPS checks every proof; there is no limit on photos, texts, rows, libraries or
loads. The constants' assumptions are named in the modules that declare them:
the empty text, the placeholder and the other texts differ, `Nil` is none of the
things it stands in for, a library is a sequence without repetition whose
rows are in `Item`, the default row and the placeholders are rows.

`NoteStoreProofs`. `StoreTypeOK` and the three safety invariants are not
inductive: they speak of the ends of a save. `StoreInv` adds what holds at each
step (`DuringSave`: the stage is writing, only the called row differs from the
disk, the row is in the table from `add` on, the answers so far) and between
saves (`BetweenSaves`: table and disk agree unless the stage is left writing; if the
only answer was "saved", the row is on disk). One lemma per action preserves
it; `StoreReadsAreDurable`, `StoreLosesAtMostOne` and `StoreLastAnswerIsTrue`
follow. `StoreImplementsNoteBook`: only `commitWrite` moves the disk, and by
`DuringSave` the table it publishes is the disk with the called row replaced.

`NoteTakingProofs`. `AppInv` is `StoreInv`, the types of every component,
`SaveWritesTheScreen` and `LoadsHaveCurrent` (a load is under way only if there
is a current photo: else the closure's assignment would have no type). Each
handler is shown to keep the last three and to be a step of the store or none
(`StoreStep`); the store's own lemma `StoreStepInv` does the rest. So
`AppUsesNoteStore`: the application implements `StoreSpec`, and `AppKeepsNotes`:
the store's guarantees hold in it.

`AppShowsCurrentNote` is about the moments at which nothing is under way, and needs what
holds at the others (`ScreenInv`). The view model's texts are the current note's even
while the screen's are being edited; a save in progress is of the view model's texts; the
photo knows whether there is a row, but for the moment between the row's arrival
in the table and the completion (`LiveNote`), or an image that arrives then would blank the texts;
and a row's detail is never the placeholder (`PlaceholderNotStored`), or it would show as none.

`StripProofs` has a hypothesis that the properties ask for, a library that does not change
(`Libraries = {library}`); everything else is arbitrary: its photos, the order in
which images come, how many are under way, restarts, faults.

* `StripFits`: view models and loads are of rows that have photos, and theirs;
  the collection view has counted what the data source has. `StripShowsItsPhotos` follows.
* `RowsFit` adds that the selected row is one the view has, for `StripNeverRaises`. Its
  hypotheses are what the code takes for granted: as many photos as there were placeholders,
  and a default row among these (5 and 2 in the code).
* `OneMarked` is `OneCellSelected` during a save as well. `StripMarksOneCell` assumes that every
  thumbnail is at hand: section 3 says what happens otherwise.
* For `PatientSpec`, and a library with a photo at the default row: `PageInv` says that at most one image is
  awaited, and only while no save runs; that it is the current photo's and the row it will select is that
  photo's; and that without one the current photo is the selected row's. So a commit, which
  is of the current photo, is on the album's open page: `PatientImplementsAlbum`.
  `Indicators` excepts the selected row while the completion is due. It needs `PageInv`: the view
  model that the completion updates is the selected row's, the note is the current photo's.

`SyncSessionProofs`, for any threads, handlers, policies and numbers of commits and
deaths. `TypeOK` is inductive, and with it `SessionFitsState` (`SyncSessionIsThere`) and
`WaitingHasAsked` (`SyncWaitingHasAsked`). The other three are not:

* `HeldIsRegistered` needs who may change `entry`: `ManagerInv` says for each
  label of a thread whether it holds the manager's mutex (`Locked`), and that nobody
  can hold it without the session being registered: what is looked up under it
  is still there when the reference is made.
* `DiesUploaded` needs that no wait is for a later death than the last, and that in a
  dying session the last one's is for everything announced (`Counted`).
* `HandlersKept` needs that only certain labels have handlers to tell, and no two threads
  the same (`Telling`), besides where each handler is (`Kept`).

`RealmCoordinatorProofs`, `RealmDeliveryProofs` and `RealmCoverProofs`: every safety
property of the notifications, for any collections, tokens and number of commits, from three
assumptions on constants (there is at least one version; `NoOne` is not a collection;
`SizeMax` is a natural number).
The lemmas at the beginning of the first say of each operation on a notifier which fields
it leaves alone and what it does to the others; the step lemmas, one per action, use these
facts instead of the definitions. The argument has three inductive invariants, each on top of
the one before, and each was checked by TLC on the runs' instances before it was proved.

* `CoreInv` says where everybody is. `OneVersion` is not inductive: it speaks of the ends
  of runs. `RunFits` adds that the list is the disjoint union of the run's old and new
  notifiers, that the new ones have not run, and that nobody is beyond the run's target;
  `SameVersion` includes the dead that are still listed. `SkipsForward` needs that a version to
  skip is ahead of everybody listed (`SkipFits`). `CoreInv` also has what is needed of a
  delivery: only the notifier that is being called has an index, and the Realm is at
  least at its target (`CallingFits`, `RealmFits`). `CountFits` is not kept by
  the removal of a callback that was never counted; `CountFitsIfCounted` is, as long as that has not
  happened: a counted callback's removal finds a count of at least 1 (`CountKept`). It is part
  of `CoreInv` because the loop's progress through the callbacks rests on it in the other two.
* `DeliveryInv` says what the changes on their way are. A computed change reaches from the
  notifier's version to the run's target (`ChangesFit`); what has accumulated for a
  callback is at most at its notifier's version, what is delivered at most at the Realm's,
  and neither was told before (`CallbacksFit`); a token has one owner (`TokensFit`).
  `ToldOfWhatIsRead` and, but for `unread`, `OnlyNews` follow.
* `CoverInv` says that nothing is missing. What is delivered lies between the
  loop's index and its count (`OrderFits`), or the loop would pass it by; a write begins only when every
  collection with callbacks is up to date (`WriteFits`), so that a
  suppressed callback is at the version before the commit, and the suppression is
  used up by the run for that commit and no other (`SuppressFits`). Then everything up to the
  notifier's version was told, will be, has accumulated, or is the callback's own write
  (`Covered`), and `NothingIsLost` follows for a behaviour without `uncounted`,
  `unheard` and `jumped`.

`ChangeSetProofs`, for any number of rows and instructions, from `BoundsAssumption`
(identities are finitely many; the number that stands for "unknown size" is not the size of a collection).
What an index set's operations do is stated once, from how many indices are below another:
`unshift` keeps order, `shift` is its inverse off the set, `Ascending` lists a set by rank. Then
each function of the builder gets a lemma that says what it does to each part of the change
(`InsertFields`, `EraseFields`, `MoveFields`, `SwapFields`, `SubsumeFields`, ...), and another
that says that it describes what the instruction did to the rows (`InsertFits` to
`MergeFits`).

* For lists `ListIsDescribed` compares two collections that are left when
  positions are struck out, which no instruction keeps in that form. `ListFits` says it pointwise: the
  positions that neither was deleted nor inserted match by rank (`Aligned`), every move
  is from a deletion to an insertion of the same element (`Moved`), and what is
  modified is known wherever an element can be followed to (`Told`). Nearly every instruction
  carries the matched positions along by an order-preserving map (`ListCarried`); a move of
  a link that was not moved before adds one to each side. `FittingDescribes` leads back.
* For tables `TableFits` says which rows have stayed and that the mapping is exact: a
  row of the old table is in it just if it is in the present table at an insertion. Between
  `subsume` and the `move_over` that follows, two positions stand for one row and the
  mapping is right but for the one that will go (`FitsBut`). `FittingFollows` leads
  to `RowsAreFollowed` by way of what `parse_complete` makes of the mapping.
* `LogInv` adds that no row occurs twice and that positions are bounded, which both need.
* `clean_up_stale_moves` and the first loop of `merge` go through the moves one by one.
  What holds before the first and is kept by each holds after the last: `Steps` has this
  for a set of numbers in place of a predicate, which the provers can take. Cleaning up keeps
  that the change fits because a stale move is of an element that stands between the same
  elements before and after (`PutBack`); it has to know that no two moves go to the same place
  (`OnceEach`), or putting one back would leave the other without its insertion.
* `merge` of two changes that fit in a row (`InARow`) fits the whole. `TakenUpTo` says which
  moves of the first have been taken over, and which of the second are used up; `KeptByBoth` that
  what neither deletes is what the merged sets leave over, with its ranks; and
  `FollowedBack` that a position followed through both is followed through one and then the
  other, so that its modification is found (`MergedFits`).
* `ListInv`, on top of `LogInv`, says of a list that what has accumulated for its callback fits
  the links that the callback knows and those that were there when the worker last ran, with
  each move once; each instruction keeps the last of the builder. From it follow
  `ListsAccumulate`, that is `AccumulatedDescribes` for lists, and `ListModificationsAgree`:
  `finalize` computes the old position of what is kept from the new one (`OriginOfKept`).
  A deleted list's builder fits the list without links if it has neither insertions nor
  modifications (`DeletedFits`); after one that has, `leftover`, nothing is claimed of what has
  accumulated, nor is its type in `ListTypes`.

Only model-checked: liveness (`CurrentIsShown`, `WaitEndsUnlessAbandoned`,
`EveryCommitIsTold`), which is out of the prover's reach; and for a query what becomes of its
change after the log is read (`AccumulatedDescribes`, `ModificationsAgree`, and that part of
`TransactLogObserver`'s `TypeOK`): `calculate` folds over the rows, or searches for the longest
common subsequence recursively, and what it computes needs induction over data. For lists all
three are proved.

## 5. Not modelled

Of the application: the keyboard's and the layout's effect on the content height
(controller lines 74-101 and 190-230), what a cell displays between two reloads and
the reuse of cells, the change observer's registration (the controller lives as
long as the process), image sizes, caching and quality, fonts and colours, the
application delegate, the template tests.

Of notifications: what is in a table view and how it is handed over, key-value
observers and the binding context's callbacks, a notifier's error, opening,
invalidating and closing a Realm, the schema cache, the notifiers of another Realm
in the same process, and the object notifier. Of change sets: the chunks in which an index
set is stored, columns, subtables, the lists that follow their row through the
table, the links that `DeepChangeChecker` follows, and
`IncrementalChangeInfo` beyond merging two change sets.

Of sync: progress notifiers, connection states, a second session object for the same
path, `override_server`, client resets, the metadata file, admin users, the
management and permission Realms, multiplexing.

Not at all: the storage engine, of which the repository has headers and a
prebuilt library, the schema, queries and object accessors, which are
sequential conversions between the two, partial sync, permissions, and the
language bindings beyond the calls from which the modelled operations start.
These are most of the repository's lines: the map's share of them is small
because templates and headers of the storage engine are what the repository mostly holds.

## 6. Plan

1. Done: the application, the notifier worker, change sets, the sync session, and
   theorems about all of them, among them every safety invariant of the first, the second and
   the last.
2. Done: theorems about change sets: what `shift`, `unshift` and the functions of the
   builder do to positions, and from that `ListIsDescribed` and `RowsAreFollowed`; for
   lists also what the change sets of several transactions make when they are merged.
3. `DeepChangeChecker`: what its memo of unmodified rows may hold when the depth is
   limited and links form cycles, against reachability.
4. `Keyboard`: the content height under show, hide and layout passes.
