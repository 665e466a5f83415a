----------------------------- MODULE ViewerPage -----------------------------
(***************************************************************************)
(* gthumb/extensions/image_viewer/gth-image-viewer-page.c: the page that   *)
(* shows an image, on top of the preloader (ImagePreloader) and the        *)
(* history (ImageHistory).  Everything the page shows comes from the       *)
(* preloader, asked for by four kinds of calls: the file to view, the      *)
(* image at a better quality (by a 500 ms timer), and the original image   *)
(* for an editing tool or for saving.  The preloader serves only the       *)
(* newest of them.  Tools and savers run as background tasks, while the    *)
(* user may go on to another file.                                         *)
(***************************************************************************)
EXTENDS ImagePreloader

CONSTANTS MAX_UNDO_HISTORY_LEN

\* A file and the neighbours decoded with it fit in the cache (N_PRELOADERS and
\* CACHE_MAX_SIZE of the code).
ASSUME PageAssumption ==
    /\ MAX_UNDO_HISTORY_LEN \in Nat
    /\ MAX_UNDO_HISTORY_LEN >= 2
    /\ CACHE_MAX_SIZE > 0
    /\ \A ns \in Neighbours : Len(ns) + 1 <= CACHE_MAX_SIZE

VARIABLES
    file,           \* priv->file_data, NoFile before the first file
    changed,        \* priv->image_changed
    loadingImage,   \* priv->loading_image
    qualityTimer,   \* priv->update_quality_id
    undo, redo,     \* priv->history
    shown,          \* the image in the viewer
    given,          \* the images given to the preloader as modified ones
    calls,          \* who made a request, indexed by the request's id
    tasks,          \* the tools and savers at work on the image they asked for
    crashed         \* a null pointer was dereferenced

pvars == <<file, changed, loadingImage, qualityTimer, undo, redo, shown, given,
           calls, tasks, crashed>>

NoFile == Modified      \* both are NULL

\* An image is known by the file it was made from, and by the number of the edit
\* that made it, 0 for the image in the file.
Images    == [of : Files, by : 0..MaxEdits]
NoImage   == [of |-> GTH_MODIFIED_IMAGE, by |-> 0]
Loaded(f) == [of |-> f, by |-> 0]

CallKinds == {"view", "quality", "edit", "save"}
Calls     == [kind : CallKinds, target : Files]
Tasks     == [id : 1..MaxRequests, kind : {"edit", "save"}, target : Files, image : Images]

\* Only the list operators of the history are used: the rest of its state is here.
History == INSTANCE ImageHistory WITH
    MaxImages <- MaxEdits, saved <- 0, stale <- FALSE, made <- 0

-----------------------------------------------------------------------------
(* Showing an image *)

\* update_image_quality_if_required: not while a tool of the sidebar is active
MayWantQuality(loadingNow) ==
    \/ UNCHANGED qualityTimer
    \/ ~ loadingNow /\ qualityTimer' = TRUE

\* _gth_image_viewer_page_set_image
SetImage(i, modified) ==
    /\ shown' = i
    /\ changed' = modified
    /\ MayWantQuality(loadingImage)
    /\ \/ /\ modified
          /\ SetModifiedImage
          /\ given' = Append(given, i)
       \/ /\ ~ modified
          /\ UNCHANGED <<given, vars>>

\* Asks the preloader; the callback that gets the answer is known by its kind.
Ask(kind, target, f, s, ns, v) ==
    /\ Load(f, s, ns, v)
    /\ calls' = Append(calls, [kind |-> kind, target |-> target.file])

Current == IF changed THEN Modified ELSE file

-----------------------------------------------------------------------------
(* Viewing *)

\* gth_image_viewer_page_real_view; the file that is viewed already is not loaded
\* again.  In the meantime there is a thumbnail in the viewer, or nothing.
View(f, s, ns, v) ==
    /\ file = [file |-> f, mtime |-> v[f]] => changed
    /\ file' = [file |-> f, mtime |-> v[f]]
    /\ changed' = FALSE
    /\ loadingImage' = TRUE
    /\ shown' = NoImage
    /\ Ask("view", file', file', s, ns, v)
    /\ UNCHANGED <<qualityTimer, undo, redo, given, tasks, crashed>>

\* update_quality_cb, the timer's callback: not every type of image can be loaded
\* at a different quality.
UpdateQuality ==
    /\ qualityTimer
    /\ qualityTimer' = FALSE
    /\ \/ /\ ~ loadingImage
          /\ \E s \in AllSizes : Ask("quality", file, Current, s, <<>>, disk)
       \/ /\ loadingImage \/ ~ changed
          /\ UNCHANGED <<vars, calls>>
    /\ UNCHANGED <<file, changed, loadingImage, undo, redo, shown, given, tasks, crashed>>

-----------------------------------------------------------------------------
(* The answers *)

\* Mutant: an error leaves the page loading.
ViewReady_LateFlag(d) ==
    /\ \/ /\ d.image # Failed
          /\ loadingImage' = FALSE
          /\ d.file = file.file
          /\ shown' = Loaded(d.file)
          /\ History!ClearAndAdd(Loaded(d.file))
          /\ MayWantQuality(FALSE)
       \/ /\ d.image = Failed \/ d.file # file.file
          /\ UNCHANGED <<loadingImage, shown, undo, redo, qualityTimer>>
    /\ UNCHANGED <<file, changed, given, tasks, crashed>>

\* preloader_load_ready_cb.  (A failure makes the browser take another viewer.)
ViewReady(d) ==
    /\ loadingImage' = FALSE
    /\ \/ /\ d.image # Failed
          /\ d.file = file.file
          /\ shown' = Loaded(d.file)
          /\ History!ClearAndAdd(Loaded(d.file))
          /\ MayWantQuality(FALSE)
       \/ /\ d.image = Failed \/ d.file # file.file
          /\ UNCHANGED <<shown, undo, redo, qualityTimer>>
    /\ UNCHANGED <<file, changed, given, tasks, crashed>>

\* different_quality_ready_cb: the answer for the modified image names no file,
\* and is compared with the current one all the same when nothing is modified
\* any more.  An image of the same dimensions is not shown.
QualityReady(d) ==
    /\ crashed' = (crashed \/ (d.image # Failed /\ d.file = GTH_MODIFIED_IMAGE /\ ~ changed))
    /\ IF d.image = Failed \/ crashed' \/ d.file \notin {file.file, GTH_MODIFIED_IMAGE}
       THEN UNCHANGED shown
       ELSE shown' \in {shown, IF d.file = file.file THEN Loaded(d.file) ELSE given[d.image]}
    /\ UNCHANGED <<file, changed, loadingImage, qualityTimer, undo, redo, given, tasks>>

\* original_image_ready_cb and what it starts: the task goes on with the image in
\* a thread of its own, or ends with an error.
OriginalReady(i, d) ==
    /\ tasks' = IF d.image = Failed THEN tasks
                ELSE tasks \union
                     {[id |-> i, kind |-> calls[i].kind, target |-> calls[i].target,
                       image |-> IF d.file = GTH_MODIFIED_IMAGE THEN given[d.image]
                                                                ELSE Loaded(d.file)]}
    /\ UNCHANGED <<file, changed, loadingImage, qualityTimer, undo, redo, shown, given, crashed>>

\* Mutant: the better image goes to the callback of the tools.
AnswerReady_SwappedCallback ==
    /\ Deliver
    /\ LET a == Head(answers)
       IN  IF calls[a.req.id].kind = "view" THEN ViewReady(a.data)
                                            ELSE OriginalReady(a.req.id, a.data)
    /\ UNCHANGED calls

AnswerReady ==
    /\ Deliver
    /\ LET a == Head(answers)
           k == calls[a.req.id].kind
       IN  \/ k = "view" /\ ViewReady(a.data)
           \/ k = "quality" /\ QualityReady(a.data)
           \/ k \in {"edit", "save"} /\ OriginalReady(a.req.id, a.data)
    /\ UNCHANGED calls

-----------------------------------------------------------------------------
(* Editing and saving *)

\* gth_image_viewer_page_get_original, for a tool or for saving
GetOriginal(kind) ==
    /\ file # NoFile
    /\ Ask(kind, file, Current, GTH_ORIGINAL_SIZE, <<>>, disk)
    /\ UNCHANGED <<file, changed, loadingImage, qualityTimer, undo, redo, shown, given, tasks, crashed>>

\* A tool was pressed in the palette.
StartEdit == GetOriginal("edit")

\* _gth_image_viewer_page_real_save, for a modified image
StartSave == changed /\ GetOriginal("save")

\* The task was cancelled by the user, while it waits for the image ...
CancelCall(i) ==
    /\ i \in DOMAIN calls
    /\ calls[i].kind \in {"edit", "save"}
    /\ Cancel(i)
    /\ UNCHANGED pvars

\* ... or later, or it failed.
TaskFails(t) ==
    /\ t \in tasks
    /\ tasks' = tasks \ {t}
    /\ UNCHANGED <<file, changed, loadingImage, qualityTimer, undo, redo, shown, given,
                   calls, crashed, vars>>

\* gth_image_viewer_page_set_image, with an image made from the file orig
NewImage(orig) ==
    LET i == [of |-> orig, by |-> edit + 1]
    IN  /\ History!AddImage(i, TRUE)
        /\ SetImage(i, TRUE)
        /\ UNCHANGED <<file, loadingImage, calls, crashed>>

\* gth_image_viewer_task_set_destination: the tool is done
EditDone(t) ==
    /\ t \in tasks
    /\ t.kind = "edit"
    /\ tasks' = tasks \ {t}
    /\ NewImage(t.image.of)

\* clipboard_image_received_cb
Paste ==
    /\ file # NoFile
    /\ NewImage(file.file)
    /\ UNCHANGED tasks

\* save_image_task_completed_cb: the file has changed
SaveDone(t) ==
    /\ t \in tasks
    /\ t.kind = "save"
    /\ tasks' = tasks \ {t}
    /\ FileChanges(t.target)
    /\ UNCHANGED <<file, changed, loadingImage, qualityTimer, undo, redo, shown, given,
                   calls, crashed>>

Undo ==
    /\ History!CanUndo
    /\ undo' = Tail(undo)
    /\ redo' = History!AddToList(redo, Head(undo))
    /\ SetImage(Head(undo').image, Head(undo').unsaved)
    /\ UNCHANGED <<file, loadingImage, calls, tasks, crashed>>

Redo ==
    /\ History!CanRedo
    /\ redo' = Tail(redo)
    /\ undo' = History!AddToList(undo, Head(redo))
    /\ SetImage(Head(redo).image, Head(redo).unsaved)
    /\ UNCHANGED <<file, loadingImage, calls, tasks, crashed>>

\* gth_image_viewer_page_real_revert
Revert ==
    /\ changed
    /\ undo' = <<>>
    /\ redo' = <<>>
    /\ \/ \E d \in History!LastSaved : SetImage(d.image, d.unsaved)
       \/ /\ History!LastSaved = {}
          /\ UNCHANGED <<shown, changed, qualityTimer, given, vars>>
    /\ UNCHANGED <<file, loadingImage, calls, tasks, crashed>>

-----------------------------------------------------------------------------
PageInit ==
    /\ Init
    /\ file = NoFile
    /\ changed = FALSE
    /\ loadingImage = FALSE
    /\ qualityTimer = FALSE
    /\ undo = <<>>
    /\ redo = <<>>
    /\ shown = NoImage
    /\ given = <<>>
    /\ calls = <<>>
    /\ tasks = {}
    /\ crashed = FALSE

\* The preloader's own steps, which the page does not notice.
PreloaderStep ==
    /\ Decode \/ DropLoaded \/ KeepLoaded \/ LoadNext
    /\ UNCHANGED pvars

UserStep ==
    \/ \E v \in KnownVersions, f \in Files, s \in AllSizes, ns \in Neighbours : View(f, s, ns, v)
    \/ StartEdit
    \/ StartSave
    \/ \E i \in 1..MaxRequests : CancelCall(i)
    \/ Paste
    \/ Undo
    \/ Redo
    \/ Revert

TaskStep == \E t \in tasks : TaskFails(t) \/ EditDone(t) \/ SaveDone(t)

PageNext ==
    /\ ~ crashed
    /\ PreloaderStep \/ AnswerReady \/ UpdateQuality \/ UserStep \/ TaskStep

PageSpec == PageInit /\ [][PageNext]_<<vars, pvars>>

\* As for the preloader; the timer and the tasks that have their image end, too.
PageFairness ==
    /\ WF_vars(Decode /\ UNCHANGED pvars)
    /\ WF_vars((DropLoaded \/ KeepLoaded) /\ UNCHANGED pvars)
    /\ WF_vars(LoadNext /\ UNCHANGED pvars)
    /\ WF_<<vars, pvars>>(AnswerReady)
    /\ WF_pvars(TaskStep)

PageFairSpec == PageSpec /\ PageFairness

-----------------------------------------------------------------------------
(* Properties *)

PageEntry == [image : Images, unsaved : BOOLEAN]

\* Type invariant.  There is a caller for every request, and an image for every
\* modified image of the cache.
PageTypeOK ==
    /\ file \in FileData
    /\ changed \in BOOLEAN
    /\ loadingImage \in BOOLEAN
    /\ qualityTimer \in BOOLEAN
    /\ undo \in Seq(PageEntry)
    /\ redo \in Seq(PageEntry)
    /\ shown \in Images \union {NoImage}
    /\ given \in Seq(Images) /\ Len(given) = edit
    /\ calls \in Seq(Calls) /\ Len(calls) = issued
    /\ tasks \subseteq Tasks
    /\ crashed \in BOOLEAN

\* The page keeps no copy of the edited image for the requests to come: it counts
\* on the preloader's cache.  The image is there as long as the page says that it
\* has changes, and for a save that waits for its turn, however many files are
\* decoded in advance in the meantime.
UnsavedImageCached ==
    (changed \/ \E r \in {current, last} : r # NoRequest /\ calls[r.id].kind = "save")
    => \E i \in DOMAIN cache : cache[i].file = GTH_MODIFIED_IMAGE /\ cache[i].image = edit

\* The page does not wait for a file for ever, unless a tool or a save asked the
\* preloader for an image in the meantime.
ViewCompletes ==
    loadingImage ~> (~ loadingImage \/ crashed \/ calls[Len(calls)].kind \in {"edit", "save"})

\* Not so: what is saved in a file was made from that file.
SavesOwnImage == \A t \in tasks : t.kind = "save" => t.image.of = t.target

=============================================================================
