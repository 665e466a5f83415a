# Verification of gthumb: going through folders, viewing, editing and saving images

TLA+ specifications of the part of `src/gthumb` that loads a folder, shows it as thumbnails and opens, edits and saves an
image, with TLC configurations, and theorems checked by TLAPS. All paths below are under `src/gthumb/`.

The repository holds three programs. `gthumb` is an image viewer; `snappy` and `jpeg-6b` are vendored
libraries (the repository's owner changed allocation in `jpeg-6b` and in gthumb's image saver for
non-volatile memory). The logic of its own is in gthumb, and there the hard part is not pixels but order: one main loop,
worker threads that end at any time, timers, answers that arrive when the user has
gone on, files that change on disk, and several objects that keep copies of the same fact.

## The system

### Components, their state and their operations

| component | code | state | operations | hard behaviours | modules |
|---|---|---|---|---|---|
| image preloader | `gthumb/gth-image-preloader.c` | running and newest request, timer, cache, edited image | load, set the edited image; ready and timer callbacks | a newer request during decoding, one answer each, references, stale cache | `ImagePreloader`, `LoadService` |
| image loader | `gthumb/gth-image-loader.c` | a worker thread | load | ends, fails or is cancelled at any time | in `ImagePreloader` |
| image history | `gthumb/gth-image-history.c` | undo and redo lists | add, undo, redo, revert, clear | bounded lists, the saved image in them | `ImageHistory`, `EditTimeline` |
| viewer page | `extensions/image_viewer/gth-image-viewer-page.c` | file, "changed" flag, loading flag, quality timer | view, get original, set image, undo, redo, revert, save | four kinds of answers, tasks that end on another file | `ViewerPage` |
| browser, open file | `gthumb/gth-browser.c` | current file, is-modified attribute, load and metadata timers | load file, ask, react to changes | two owners of the "modified" fact, delayed loads, notifications | `BrowserFile` |
| tasks and chains | `gthumb/gth-task.c`, `gth-async-task.c`, `gth-image-task-chain.c`, `extensions/image_viewer/gth-image-viewer-task.c` | thread, terminated and cancelled flags, timer | exec, cancel, complete | flags shared with a thread, cancelling at any stage | `Tasks` |
| saving | `gthumb/gth-image-saver.c`, `gth-save-image-task.c`, `gio-utils.c` | the buffer, how much is written | encode, open, write, flush | short and failing writes | `FileWrite`, `Tasks` |
| browser, tasks | `gthumb/gth-browser.c` | background tasks | run, cancel all, close the window | closing waits for tasks | `Tasks` |
| file store | `gthumb/gth-file-store.c` | rows, visible rows, filter, order | add, remove, set, rename, sort, filter, drag | signals that let a view follow | `FileStore` |
| grid view | `gthumb/gth-grid-view.c` | items, selected positions | the store's signals, selecting | positions shift under the selection | `GridView` |
| file list, thumbnail loader | `gthumb/gth-file-list.c`, `gth-thumb-loader.c` | queue of operations, jobs, the scan | add, delete, rename, update, filter, cancel, scroll | operations wait for jobs, answers for rows that moved, process end, timeout and cancel | `FileList` |
| browser, folders | `gthumb/gth-browser.c`, `gth-folder-tree.c` | queue of loads, location, history of locations, tree rows | go to, back and forward, expand, stop, react to changes | several loads at once, late and failing ones, changes while a folder loads | `BrowserLoad` |
| folder monitor | `gthumb/gth-file-source-vfs.c` | created, deleted and changed files not yet reported | watch a folder and those above, report | events merged, dropped and late | `BrowserLoad` |
| monitor, file sources | `gthumb/gth-monitor.c`, `gth-file-source.c` | pauses, queue of operations | signals, list, copy, rename | one operation at a time, partial failure | not modelled |

The rest (widgets, filters, dialogs, extensions, web services, codecs, vendored libraries) is in
`PROJECT.json` with the reason why it is not modelled.

### Interactions

* The **browser** calls the page's `view` with a file, at once or after a timer of 150 ms; the page
  signals `file-loaded`; the browser then reads metadata (another timer and a thread) and calls the
  page's `update_info`.
* The **page** asks the **preloader** for everything it shows: the file, the same at a better quality
  (500 ms timer), and the original for tools and savers. The preloader serves only the newest request,
  and decodes neighbour files in advance. The page gives it every edited image.
* The **history** is owned by the page. Its entries say whether the image is unsaved; the page copies
  that into its `image_changed` and into the browser's `gth::file::is-modified`.
* A **tool** or a **save** is a task of the browser window: it asks the preloader for the original image, works in a
  thread, and gives an image back to the page or writes the file. The window does not close before its tasks have ended.
* A **save** writes the file and tells the **monitor**, which tells the browser, which loads the file again.
* The **browser** loads a folder through a **file source**: the folders above it into the **folder tree**, then its
  attributes, its files and their metadata. The source of the last load that succeeded **monitors** the folder, and the
  browser looks up what the monitor reports before it changes list and tree.
* The browser gives the files of a folder to the **file list**, which keeps them in the **file store** and loads their
  thumbnails one at a time; the store's signals tell the **grid view** what to do to its own items.

## Modules

| module | models |
|---|---|
| `ImagePreloader` | the preloader with its worker thread, timer and idle queue, files that change on disk; at its end the refinement mapping to `LoadService` |
| `LoadService` | abstract: what a loader promises (the newest request waits, answers in order, once); used by `Tasks` in the preloader's place |
| `ImageHistory` | the two lists and the page's operations on them |
| `EditTimeline` | abstract: a line of images with a cursor, which `ImageHistory` implements |
| `ViewerPage` | the page, composed with `ImagePreloader` (EXTENDS) and the lists of `ImageHistory` (INSTANCE) |
| `BrowserFile` | the open file in the browser and in the page, the question to save, metadata, changes on disk |
| `FileStore` | the store's rows, composed with `GridView` (EXTENDS) |
| `GridView` | the grid's items and selection: a view is a record, the signal handlers are operators |
| `FileList` | the file list with its queue, jobs and thumbnailer, and the thumbnail loader |
| `BrowserLoad` | the loads of folders, location and history, the folder tree's rows, the list of files and the monitor's events |
| `Tasks` | tasks and chains, the window that runs them, composed with `FileWrite` (EXTENDS) and `LoadService` (INSTANCE) |
| `FileWrite` | the asynchronous writing of a buffer to a file |
| `Rows` | `Keep`: what is left of a sequence of rows, used by `FileList` and `BrowserLoad` |
| `SequenceLemmas` | lemmas about sequences, folds and least elements that the proofs share |
| `*_proofs` | the theorems |
| `MC*` | instances: neighbour lists, symmetry, a bound on what is explored |

`PROJECT.json` maps every definition to its lines. Definitions whose comment says *Mutant* are
deliberately wrong variants of the definition that follows: each property of a passing run fails for one of them.

**ImagePreloader.** `current`, `last`, `timer`, `cache` are the fields of the private structure; `pos` is
the request's `current_file`; `loading`/`loaded` stand for the thread and the ready callback that is
due; `answers` is the idle queue of completed results; `ref` counts references per request. One action
per function: `LoadFile`/`LoadModified` (`gth_image_preloader_load`, with the cancellation of the running
request and, when the timer runs, its immediate end), `Decode` (the thread), `DropLoaded`/`KeepLoaded`
(`image_loader_ready_cb`), `LoadNext` (the timer), `Deliver` (the callbacks), `SetModifiedImage`. A file's image is its version;
errors are entries of the cache, as in the code. Quirks kept: the cache bound is
tested before adding (one more entry than `CACHE_MAX_SIZE`), a displaced waiting request is neither
answered nor released, and a missing edited image is stored as an error without completing.

**ImageHistory.** Images are numbered; `shown` and `changed` are the page's, `saved` is the image in the
file, `stale` that the file changed since. `AddToList` keeps the code's truncation, which cuts two images
at once. After a revert the history is empty, so the next edit is its only image and cannot be undone; the
model keeps this, and `EditTimeline` allows it.

**ViewerPage.** `calls` records which callback belongs to a request; `tasks` are the tools and savers at
work; `given` remembers which image was given to the preloader. `crashed` is set where the code
dereferences a null pointer. The preloader's own steps leave the page alone, `AnswerReady` composes
`Deliver` with the callback of the request's kind.

**BrowserFile.** The page is reduced to its file, edit and image; a load is one step at some time. The
same file data exist twice (`current`, `page`), as do the facts "modified" (`modified`, `edit`). `DoLoad` keeps
the early return of `view` for a file that is shown already. A save remembers the file object
it was started for (`load`), because a failing save changes that object only. `QueryTime` separates the
moment at which the modification time is read from the callback.

**FileStore and GridView.** `allRows` and `rows` are the two arrays; a file's `key` is all that filter and
sort look at. `UpdateVisibility` is `_gth_file_store_update_visibility` whole: the rows to hide, told from the last one,
each with its place among the visible rows; the permutation of those that stay; the rows to show. A signal is a record, an operation emits a
sequence of them, and `HandleAll` folds the view's handlers over it. The view applies
the signals blindly, as `gth-grid-view.c` does (which follows a null link when a position is past the end: `crashed`).
Dragging files permutes `rows` only; an update after that computes its signals from an order the view does not have, which
the history variable `strayed` records.

**FileList.** The private structure is one record, `list`, and each handler an operator on it, so that a handler that calls
others is written as the code is. `event` is the idle callback that is installed (`start` a job, `restart` the scan, or the scan has
`stopped` for the queue), `timer` the restart timer, `jobs` the thumbnail jobs, newest first, each at a stage of the thumbnail
loader (cache, original, external program, killed, answer). `ScanPos` is the order of the scan: on the screen, then
downwards, then upwards. Quirks kept: freeing the last job marks the list as not loading although the next job is about to start; clearing the
queue removes the event that the list waits for.

**BrowserLoad.** `browser` is the private structure, and each function that changes it an operator, because they call each
other: `Fail` (an error ends a load) calls `StartLoad` as `load_data_done` calls `_gth_browser_load`. A load's `at` is the
operation it waits for; `current` its place in the path from the entry point. `op` and `stopped` are its two cancellables: the
next operation resets the first, so that a stop between two operations is forgotten, the last query only looks at the
second. `shown` and `listed` are the tree's rows and those that are loaded, `rows` the files in the list. `history` begins as that of the last
session (`Saved`, which `_gth_browser_history_load` reads for the first window), with folders that may be gone or on volumes that are not mounted, and a current
place although there is no location yet. `Travel` moves the current place before the load begins, as the code does, also when the
load then waits for a volume. `queue` is what the monitor has not
reported: created, deleted and changed items, merged as `monitor_changed_cb` does (`Created`, `Deleted`, `Changed`); `flushing` is what it reports without letting other callbacks in, `reads` the attribute queries. `mounts` waits for volumes. A listing or the
folder's attributes may fail because the folder is gone, the load is stopped, or somebody keeps it from being read (`FolderUnreadable`).
`crashed` is set where clearing the history dereferences a location that is NULL.
Two fields are for the properties only: `doubt`, the items that the code has lost sight of, each set at the step that loses it, and
`astray`, the folder of a move in the history to a volume that was not mounted, until location and current place meet again.

**FileWrite and Tasks.** A job is of one of four kinds: `edit` (asks for the original image and changes it in a thread), `apply`
(has its image), `load` (hands the original to a tool), `save` (loads, encodes, writes). `at` is the stage; `async` is the flag that the thread and the
timer read, `cancelled` that of the cancellable; the two differ because `gth_async_task_exec` resets the first. In `FileWrite` the buffer is a
row of chunks, `written` the position, `stream` what was written, `file` what the file holds when the stream is dropped. Quirks kept: a cancelled or displaced
request is dropped by the preloader without an answer; a failed write counts −1; the handler of an edit whose original image
fails calls itself without end (`crashed`). Left out: the question whether to overwrite, foreground tasks and searches, a `count` of
0 for a write, an error on closing the stream, the `_USE_NVM` build, and creating a file instead of replacing it.

## Runs

Deadlock is not checked: every module bounds its counters, and a behaviour stops at the bounds; a
program without requests also rests.

| run | bounds | what it shows |
|---|---|---|
| `preloader` | 2 files, 3 requests, 1 edit, cache 1(+1) | the engine never stalls, references are right, only the newest request is answered; under fairness it is answered and running requests end; `LoadService` is implemented |
| `preloader_cache` | 2 files, 1 size besides the original, 2 versions, 2 requests, 2 edits, cache 1(+1) | an answer is never older than the modification time asked for, one cache entry per image, the edited image is the latest |
| `history` | history length 3, 8 images | undo and redo lose nothing, the lists stay within their bound, unchanged means saved, `EditTimeline` is implemented |
| `page` | 2 files, 3 requests, 2 versions, 2 edits, history 3, cache 2(+1), 1 neighbour | the edited image survives in the cache; under fairness the page does not load for ever |
| `browser` | 2 files, 1 edit, 2 versions, 2 loads | browser and page agree, changes that the browser knows of are not given up unasked; under fairness a saved edit is read again |
| `file_store` | 3 files (symmetric), 2 keys, 2 filters, 1 thumbnail | visible rows are the accepted files in order; the view that follows the signals shows them one for one; the selection follows the files |
| `file_list` | 2 files, 1 on the screen, nothing loaded ahead, 2 versions, 2 waiting operations, 3 events from outside | one thumbnail wanted at a time, a loaded thumbnail is shown and new enough; under fairness operations are done and the thumbnails on the screen settle, unless clearing strands the list |
| `tasks` | 2 tasks, 2 chunks, 1 failed write, 2 requests | cancelling in time changes nothing, the file holds the old image or the new, the window waits for what runs; under fairness tasks end and the window closes |
| `load` | a tree of 2 folders and a volume, 2 files, a saved history of the volume, 4 events from outside | the history is a path, whose current place only a move to an unmounted volume parts from the location; the window is busy while loads run, the list follows the disk but for what the code loses; under fairness loads and the loads they start come to an end |
| `page_save`, `tasks_cancel`, `tasks_save` | as above, the last two with 1 task | three violations, below |

Why the bounds are enough to meet the interesting cases: three requests are one running, one waiting
and one that displaces it; two files are the file and its neighbour; the preloader's cache of 1(+1) evicts at the
third image. The page's cache is scaled with the number of neighbours: the code decodes at most 8
neighbours besides the file into a cache of 10(+1), the model at most 1 into 2(+1); what matters for
`UnsavedImageCached` is that a request adds fewer entries than the cache holds. History length 3 (the
code's constant is larger) is reached and cut within 8 images. Two versions are one change, by a save or by another
program. Three rows are the least for which a permutation differs from its inverse. Of the three events of
`file_list` the first is a list of files, so two meet while its thumbnails load; two files with one on the screen have a
thumbnail that is shown and one that is only created. Two tasks are one that works while the other is cancelled, displaces its request, or
closes the window; four events of `load` are two folders and a change on disk with a stop or a second change, or a folder that comes
and goes while it is loaded; or a folder opened and a move to the saved volume, whose mount succeeds or fails, and what follows. One saved entry is
the first current place, which becomes one to go back to with the first folder that is opened; a move between two saved entries
before anything is opened is beyond the run, but not beyond the proofs. Two chunks have a short write in the middle, and one failure moves the position before the buffer.

`file_store` uses symmetry of the files (it has no liveness property) and explores nothing behind a state that has
strayed.

### Fairness

`Fairness` of the preloader: the worker ends (a decoder terminates), and the main loop runs the callbacks and timers that
are due. `PageFairness` adds that tasks end. `BrowserFairness`: the load timer fires, notifications
and attribute queries arrive, saves end one way or another. `FileList`: timers and idle callbacks are run, loads and external
programs end (the program is killed after a timeout). `LoadFairness`: operations of file sources end, their callbacks run, and the
monitor's timer fires; a mount may wait for ever. `TasksFairness`: threads end, input and output calls return, the main loop runs timers and
idle callbacks, and the preloader takes the steps that its own specification guarantees. All of it is weak. Nothing is
assumed of the user, of other programs, or of the metadata. Where a newer request may displace an older one the properties
say so.

### Violations

Each is a run that checks one statement and finds it false.

* **SavesOwnImage** — a tool that ends, or an undo, while the next file loads makes an image of the previous
  file the changed image of the next, and saving writes it there.
* **CancelledTasksEnd** — a task cancelled while it waits for the original image is never completed, because the preloader
  drops the request without an answer; the window then does not close any more.
* **NoErrorMeansSaved** — the error of a write is not looked at, and its count, −1, is added to the position: memory from
  before the buffer goes into the file, and the save reports success.

### Weaknesses that the models show

These behaviours of the code are in the models and excepted from the properties, which say where; no run is spent on them.

* When more edits than the history holds were made the saved image was dropped: *Revert* clears the history and shows
  nothing else.
* An undo while the edited image at a better quality is on its way: the callback takes the answer for one of a file and
  dereferences the NULL that stands for the edited image (`gth-image-viewer-page.c:223`).
* The browser resets is-modified when the image or the metadata arrive, also if the page was edited meanwhile
  (`gth-browser.c:5735`, `5840`); the next file then opens without the question.
* A save that fails resets is-modified as well, and leaves it so although the edit is still there.
* The metadata may bring the new time of a changed file into the page before the notification of the change
  (`gth-browser.c:5734`); the reload is then taken for a view of the file already shown.
* The file that waited for a save is opened when the save ends, also over an edit made in the meantime
  (`gth-browser.c:5940`).
* Dragging files permutes the visible rows, but not all rows (`gth-file-store.c:1636`): the next change of the filter or
  of a file gives the view signals for another order.

* A new list of files that comes between the decision to load a thumbnail and the idle callback that starts the load removes
  this callback (`gth-file-list.c:223`); the list stays "loading", and only queues what comes (`OnlyClearingStrands` says
  that nothing else leads there).
* A load that fails or is stopped empties the list of the folder that is open when it ends, not only its own
  (`gth-browser.c:1111`). When the browser started it itself it goes on to the parent, also if the user has gone elsewhere
  (`1069`); so does a volume that is mounted late (`1676`).
* Going back or forward makes the entry the current place before its load begins (`gth-browser.c:4826`, `4844`, `4862`). When the entry is on a volume that
  has to be mounted first, the place is elsewhere than the location until that succeeds; a mount that fails restores nothing (`1659`), and
  one that ends late shows its folder while the place has moved on. `HistoryIsPath` says that nothing else parts the two.
* Clearing a history of the last session before any folder is opened dereferences a NULL location (`gth-browser.c:4915`); *Clear history* is
  sensitive as soon as there is a history (`399`).
* A created file that is looked up while the user goes to another folder is added to the list of that one
  (`gth-browser.c:2904`).
* A file that is created, deleted and created again within half a second is reported as changed
  (`gth-file-source-vfs.c:558`), and a changed file that the list does not have is not added.
* What changes between the listing of a folder and the start of its monitor is not noticed (`gth-browser.c:1511`); a load that
  fails, or a volume that is not mounted, leaves the folder without a monitor (`1717`).
* An older load that ends its attribute query changes attributes and sort order of the folder that is open now
  (`gth-browser.c:1278`); this one is outside the model, which has no sort order.

## Proofs

TLAPS proves, for every value of the constants allowed by the named assumptions:

* `ViewerPage_proofs`, the preloader: `EngineInvariant`, the inductive invariant `IInv` (types of the engine's
  state, `NeverStalled`, `RefsAccounted`, and the numbering `Ids`), and `NeverStalledHolds`,
  `RefsAccountedHolds`. The wake-up discipline and the counts need each other: that
  a dropped request is released the right number of times depends on whether a thread still holds it,
  which `NeverStalled` decides. Then `CacheInvariant` (`CInv`, inductive relative to `IInv`), and from it all the other
  safety properties of the preloader. The cache is looked at when a request goes on and filled when the
  decoding ends, so one entry per image needs `DecodingOK`: what is being decoded is not in the cache, and stays so because only the
  running request adds entries; fresh answers need `Known`, no request asks for a time that the disk has not reached.
  `PreloaderRefinesService` is the safety part of the refinement: each action is mapped to
  asking, answering, refusing or delivering, or to a stutter. That the promised answer comes needs fairness and
  is model-checked.
* `ImageHistory_proofs`: `HistoryInvariant` (`HInv`), all safety properties and
  `HistoryRefinesTimeline`. `UnchangedIsSaved` is not inductive: undo shows whatever the history says, so the
  invariant adds what a saved entry of the list must be (`SavedEntries`), that it is the oldest, and that a redo list
  has an undo list. `HistoryFits` holds because undo and redo move one image and only edits add, and an edit
  drops the redo list; it is what makes undo and redo inverse, hence the refinement.
* `ViewerPage_proofs`, the page: `PageInvariant` (`PInv`: the preloader's `IInv` and `CInv`, the page's types, nothing under way
  before a file is open, `Requests`, `CacheRoom`), `PageTypes` and `UnsavedImageCachedHolds`. That the
  edited image is not evicted rests on a count: in front of it the cache never holds so many entries that the files that the running
  request may still decode push it out (`CacheRoom`). This needs `PageAssumption`, that a file and its neighbours fit in the
  cache; in the code these are 9 (`N_PRELOADERS` 4 on both sides and the file) and 10 (`CACHE_MAX_SIZE`).
* `BrowserFile_proofs`: `BrowserInvariant` (`BInv`), `PageFollowsBrowserHolds`, `AsksWhenModifiedHolds`, `BrowserTypes`.
  `PageFollowsBrowser` needs itself at `MetadataReady` (the page takes the data only if it has the browser's
  file); the types need that nothing is asked or saved before a file is open (`NothingYet`).
* `Tasks_proofs`: `TasksInvariant` (`TInv`: for every job how stage, flags, thread, timer and write go together; for the
  window who holds it open), the types, `SavedIsWholeHolds` for every size of the buffer and split of the writes, and the
  temporal `WindowWaitsHolds` and `CancelIsHonouredHolds`, each from a state predicate (`Awaited`, `Silenced`) that no step leaves.
* `FileStore_proofs`, one signal at a time, for any number of items: a deletion, an insertion and a permutation keep the list
  of selected positions and the items' flags equal (`SignalsKeepFlags`), and select no file but leave every file that
  stays as selected as it was (`SelectionStaysWithFiles`). Then all the signals of an operation, for any files, keys and filters:
  `StoreInvariant` (`StoreInv`), and from it `StoreTypes`, `RowsAreAcceptedHolds`, `ViewMirrorsStoreHolds` and
  `SelectionFollowsFilesHolds`. A deletion told with a place among the old visible rows is right because the rows are hidden from the
  last one (`DeletionsShow`: the items left after n signals are the rows without the last n); an insertion told with a place
  among the new ones is right because they are shown from the first (`InsertionsShow`); and the permutation is one, because after the
  deletions old and new list the same files. That the deletions come in the order of `rows` is known only as long as `rows` is in the
  order of `all_rows`, which is why the invariant speaks of the view's contents under `~strayed`; what it says in
  any case (`ViewOK`: the view crashed, or has as many items as there are rows, with right flags) must be proved of
  signals whose places are only known to exist (`DeletionsSafe`). An item's data need the marks: an item shows what its
  row has, or a thumbnail that the row, which is marked, will tell (`Told`).

* `FileList_proofs`: `ListInvariant`, `ListTypes`, `OneLiveJobHolds`, `LoadedIsShownHolds`, `ControlInvariant`,
  `OnlyClearingStrandsHolds`, for any files, screen and number of operations. A thumbnail that counts as loaded is in its row because the job that brought it was for the data and the place that
  the row still had: the answer is looked at when it arrives, long after the job was made. The invariant says so of every job of
  an undisturbed list, orders the versions (what the job was made for, the answer, the disk), keeps rows and thumb_data about the same
  files, and lets no job but the newest be alive, so that a late answer of a cancelled one is known by its flag.
  That only clearing strands the list is proved of one handler at a time: each is `Steady`, it keeps `Awaits` (what a cancelled
  list waits for, what its jobs were told) and strands no list that was not stranded. Looking for the next thumbnail leaves a
  callback, a job that will start, or the end of loading (`Onward`), and an operation on a list that is not cancelled sets its timer.
* `BrowserLoad_proofs`: `LoadInvariant` (`BInv`), `LoadTypes`, `HistoryIsPathHolds`, `AccountingInvariant`,
  `WindowFollowsDiskHolds`, for any tree of folders and any saved history. That the history's
  current place is the location, unless a move to an unmounted volume parted them (`InPlace`), is not inductive: a load of the parent starts in the middle of handling an event, or from
  a load that fails when the user has long gone on, and must be an ordinary one, which enters the history (`LoadOK`). It must
  not wait for a volume, because the location and the loads that will show something are on mounted ones (`Reach`); nothing of the kind is said
  of the entries of the history, of which it would be false. That the counter of activity counts the
  loads needs a free place for every load: loads and the events that may start one are not more than their causes (`Pending`).
  That the list follows the disk needs to know what becomes of every event: `Accounting` says of each item that is not in doubt, while
  nothing loads the location, that what is shown and gone will be reported as deleted, that what is missing will be added, and that a
  deletion delivered for a file that exists again is followed by a report of its return, for only then may the list drop it.
  A load that asks for the last attributes knows its folder but for what changed meanwhile (`QueryOK`). Most steps of the window are
  `Harmless`: they start a load of the location, or leave the list, or doubt every file.

Induction is over sets, not over data: `SequenceLemmas` takes the least element of a set of naturals (`LeastNatural`,
`InductionUpTo`), and with it proves what a filtered sequence (`Keep` of `Rows`) and a fold contain.

Only model-checked: liveness and fairness (`RequestsEnd`, `ViewCompletes`, `SavedIsReloaded`, `QueueDrains`, `ThumbnailsSettle`,
`TasksEnd`, `WindowCloses`, `BrowserSettles`, and in `ImplementsService` that the promised answer comes), which are out of the
prover's reach; the violations. Every safety property of a passing run is proved.

## Not modelled

Drawing, decoding, encoding, metadata contents, preferences. Of the page: save-as, the overview, copying
to the clipboard, deactivation when another viewer takes over. Of the browser's open file:
leaving the viewer (it asks the same question), renamed and deleted files. Of the file list: emblems and restoring
the state; of folders: their attributes and sort order, filters, unmounting, saving the history, the notifications of the program's own file operations,
folders in the file list; of the grid: layout, the rubber band and range selection. Foreground tasks, and tasks over a list of files.
`PROJECT.json` lists the components that are not modelled, with the reason.

## Plan left

* `FileSource`: the queue of a source's operations, the monitor's pauses; `BrowserLoad` with a second window.
* Foreground tasks and the search; a recursive copy with the overwrite question; the slideshow as the preloader's second client.
* Proofs go with what is added; of the present modules only liveness is left to TLC.
