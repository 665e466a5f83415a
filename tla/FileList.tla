------------------------------ MODULE FileList ------------------------------
(***************************************************************************)
(* gthumb/gthumb/gth-file-list.c and gth-thumb-loader.c: the list of files *)
(* of a folder and the loading of its thumbnails.  What is to be done to   *)
(* the list waits in a queue while thumbnails are loaded, one at a time:   *)
(* a job looks for the thumbnail in the cache, in the file itself and last *)
(* with an external program.  Idle callbacks and a timer lead from one job *)
(* to the next.                                                            *)
(*                                                                         *)
(* The list's private data is one record, list; an operator takes the      *)
(* record that the earlier part of a handler left.  The file store is      *)
(* reduced to its rows in order and the files that the filter accepts (see *)
(* FileStore for the rest).  Positions count from 1.                       *)
(***************************************************************************)
EXTENDS Integers, FiniteSets, Rows

CONSTANTS
    Files,
    Screen,     \* number of thumbnails on the screen
    ViewAhead,  \* N_VIEWAHEAD: so many more are loaded before and after them
    MaxVersion, \* bound: versions of a file on disk
    MaxQueue,   \* bound: operations that wait
    MaxEvents   \* bound: what comes from outside in a behaviour, calls and others

ASSUME ListAssumption ==
    /\ Files # {} /\ IsFiniteSet(Files)
    /\ Screen \in Nat \ {0} /\ ViewAhead \in Nat
    /\ MaxVersion \in Nat \ {0} /\ MaxQueue \in Nat /\ MaxEvents \in Nat

VARIABLES
    list,       \* GthFileListPrivateData
    scroll,     \* the first position on the screen
    disk,       \* the version of every file
    young,      \* the files that were changed less than two seconds ago
    events      \* number of events from outside so far

vars == <<list, scroll, disk, young, events>>

\* Results of a load that are not the version of an image.
NoImage   == 0
Failed    == -1
Cancelled == -2

Versions == 1..MaxVersion

\* a listed file: its thumb_data, and the data and the thumbnail of its row
NewRow(version) ==
    [error |-> FALSE, loaded |-> FALSE, created |-> FALSE, shown |-> NoImage, data |-> version]

-----------------------------------------------------------------------------
(* What the store shows. *)

Visible(l) == Keep(l.all, l.accepted)

\* gth_file_view_get_first_visible, gth_file_view_get_last_visible
FirstOnScreen(l) == Min({scroll, Len(Visible(l))})
LastOnScreen(l) == Min({FirstOnScreen(l) + Screen - 1, Len(Visible(l))})

\* get_file_data_iter_with_suggested_pos, and gth_file_store_queue_set: the row is
\* found if there is any visible one at the suggested position.
SetRow(l, f, pos, image) ==
    IF pos <= Len(Visible(l)) /\ f \in DOMAIN l.rows
    THEN [l EXCEPT !.rows[f].shown = image]
    ELSE l

-----------------------------------------------------------------------------
(* Jobs.  The newest one is the first. *)

\* _gth_file_list_done, when the last job is freed
DoneIfIdle(l) == IF l.jobs = <<>> THEN [l EXCEPT !.loading = FALSE] ELSE l

\* thumbnail_job_free
FreeJob(l, i) == DoneIfIdle([l EXCEPT !.jobs = RemoveAt(@, i)])

\* thumbnail_job_cancel for all the jobs: the loads at work are told, the others freed
CancelJobs(l) ==
    LET told == [i \in DOMAIN l.jobs |-> [l.jobs[i] EXCEPT !.cancelled = TRUE]] IN
    IF l.jobs = <<>> THEN l
    ELSE DoneIfIdle([l EXCEPT !.jobs = Keep(told, {j \in Range(told) : j.started})])

\* Mutant: the loads at work are not told to stop.
UpdateThumbKeepingJobs(l, job) ==
    LET row == IF job.inView THEN SetRow(l, job.file, job.pos, NoImage) ELSE l IN
    {[row EXCEPT !.jobs = <<job>> \o @, !.event = "start"]}

\* _gth_file_list_update_thumb.  A thumbnail that is not to be shown is not loaded if
\* the cache has it, or knows that it cannot be made.
UpdateThumb(l, job) ==
    LET f      == job.file
        quiet  == [l EXCEPT !.event = "none"]
        cached == {[quiet EXCEPT !.rows[f].created = TRUE,
                                 !.rows[f].error = failed,
                                 !.event = "restart"] : failed \in BOOLEAN}
        row    == IF job.inView THEN SetRow(quiet, f, job.pos, NoImage) ELSE quiet
        begun  == {[CancelJobs(m) EXCEPT !.jobs = <<job>> \o @, !.event = "start"] : m \in {row}}
    IN  begun \union IF job.inView THEN {} ELSE {DoneIfIdle(c) : c \in cached}

-----------------------------------------------------------------------------
(* The thumbnailer: the positions on the screen, then downward, then upward. *)

Initialize == [phase |-> "initialize", first |-> 0, last |-> 0, at |-> 0]
Completed  == [Initialize EXCEPT !.phase = "completed"]

\* _gth_file_list_thumbnailer_iterate: the position that the i-th step of a scan looks
\* at, in the order of its phases
ScanPos(l, i) ==
    IF l.scan.first + i - 1 <= Len(l.visibles)
    THEN l.scan.first + i - 1
    ELSE Len(l.visibles) + 1 - i

IsInView(scan, pos) == pos \in (scan.first - ViewAhead)..(scan.last + ViewAhead)

\* what the phase asks of the thumbnail was not done yet
Lacks(l, pos) ==
    LET row == l.rows[l.visibles[pos]] IN
    IF IsInView(l.scan, pos) THEN ~row.loaded ELSE ~row.created

IsYoung(l, f) == f \in young /\ l.rows[f].data = disk[f]

\* A file that has no thumb_data is not listed any more, and ends the scan.
Listed(l, i) == l.visibles[ScanPos(l, i)] \in DOMAIN l.rows
TooYoung(l, i) ==
    Listed(l, i) /\ Lacks(l, ScanPos(l, i)) /\ IsYoung(l, l.visibles[ScanPos(l, i)])
ToLoad(l, i) ==
    /\ Listed(l, i) /\ Lacks(l, ScanPos(l, i))
    /\ ~IsYoung(l, l.visibles[ScanPos(l, i)])
    /\ ~l.rows[l.visibles[ScanPos(l, i)]].error

\* the step that ends this run of the scan, if there is one, and the files it passes over
StopsAt(l) ==
    {i \in l.scan.at..Len(l.visibles) :
        /\ ~Listed(l, i) \/ ToLoad(l, i)
        /\ \A k \in l.scan.at..(i - 1) : Listed(l, k) /\ ~ToLoad(l, k)}
PassedOver(l) ==
    {l.visibles[ScanPos(l, i)] :
        i \in {k \in l.scan.at..Len(l.visibles) :
                  TooYoung(l, k) /\ \A stop \in StopsAt(l) : k < stop}}

\* _gth_file_list_get_visibles
Refresh(l) ==
    IF l.changed
    THEN [l EXCEPT !.visibles = Visible(l), !.changed = FALSE, !.scan = Initialize]
    ELSE l

\* THUMBNAILER_PHASE_INITIALIZE
BeginScan(l) ==
    IF l.scan.phase # "initialize" THEN l
    ELSE IF FirstOnScreen(l) \notin DOMAIN l.visibles
         THEN [l EXCEPT !.scan = Completed]
         ELSE [l EXCEPT !.scan = [phase |-> "scan", first |-> FirstOnScreen(l),
                                  last |-> LastOnScreen(l), at |-> 1],
                        !.skipped = {}]

\* _gth_file_list_thumbs_completed, and the timer to come back for the young files
Complete(l, skipped) ==
    [l EXCEPT !.scan = Completed, !.loading = FALSE, !.skipped = @ \union skipped,
              !.timer = @ \/ skipped # {}]

\* _gth_file_list_update_next_thumb: the job for a step of the scan
NewJob(l, i) ==
    LET pos == ScanPos(l, i) IN
    [file |-> l.visibles[pos], pos |-> pos, inView |-> IsInView(l.scan, pos),
     data |-> l.rows[l.visibles[pos]].data, started |-> FALSE, cancelled |-> FALSE,
     stage |-> "none", result |-> NoImage]

FindNextThumb(l) ==
    IF l.scan.phase = "completed" THEN {Complete(l, {})}
    ELSE IF \E i \in StopsAt(l) : Listed(l, i)
    THEN UNION {UpdateThumb([l EXCEPT !.scan.at = i, !.skipped = @ \union PassedOver(l)],
                            NewJob(l, i)) : i \in StopsAt(l)}
    ELSE {Complete(l, PassedOver(l))}

\* Mutant: with operations waiting, nothing is scheduled.
UpdateNextThumbUnscheduled(l) ==
    IF l.queue # <<>> \/ l.cancelling THEN {l}
    ELSE UNION {FindNextThumb(m) : m \in {BeginScan(Refresh(l))}}

\* Mutant: with operations waiting, the thumbnailer comes back later.
UpdateNextThumbLater(l) ==
    IF l.queue # <<>> THEN {[l EXCEPT !.timer = TRUE]}
    ELSE IF l.cancelling THEN {l}
    ELSE UNION {FindNextThumb(m) : m \in {BeginScan(Refresh(l))}}

\* _gth_file_list_update_next_thumb: waiting operations come first.
UpdateNextThumb(l) ==
    IF l.queue # <<>> THEN {[l EXCEPT !.event = "stopped"]}
    ELSE IF l.cancelling THEN {l}
    ELSE UNION {FindNextThumb(m) : m \in {BeginScan(r) : r \in {Refresh(l)}}}

\* start_update_next_thumb (load_thumbs is always set)
StartUpdateNextThumb(l) ==
    IF l.cancelling \/ l.loading THEN l ELSE [l EXCEPT !.timer = TRUE]

-----------------------------------------------------------------------------
(* The operations of the queue. *)

Kinds == {"set", "add", "delete", "update", "rename", "filter", "sort", "enable"}

\* what the callers pass: the files with the version that they have now
Op(kind, files) == [kind |-> kind, files |-> files, data |-> [f \in Range(files) |-> disk[f]]]

\* Mutant: the thumb_data of the file are not reset.
SetFileDataOnly(row, version) == [row EXCEPT !.data = version]

\* gth_file_store_queue_set of the data of a listed file
SetFileData(row, version) == [NewRow(version) EXCEPT !.shown = row.shown]

\* gfl_update_files
UpdateFiles(l, op) ==
    [l EXCEPT !.rows = [f \in DOMAIN @ |->
                           IF f \in Range(op.files) THEN SetFileData(@[f], op.data[f]) ELSE @[f]],
              !.changed = TRUE]

\* gfl_add_files: files that are already listed are left as they are
AddFiles(l, op) ==
    LET new == Keep(op.files, Files \ DOMAIN l.rows) IN
    [l EXCEPT !.all = @ \o Reverse(new),
              !.rows = [f \in DOMAIN @ \union Range(new) |->
                            IF f \in Range(new) THEN NewRow(op.data[f]) ELSE @[f]],
              !.changed = TRUE]

\* gfl_set_files, or gfl_clear_list without files: it does not tell that the visible
\* files have changed.
SetFiles(l, op) ==
    LET cleared == [l EXCEPT !.all = <<>>, !.rows = <<>>] IN
    IF op.files = <<>> THEN cleared ELSE AddFiles(cleared, op)

\* Mutant: the thumb_data of a file that is deleted are kept.
DeleteRowsOnly(l, op) ==
    LET gone == Range(op.files) \intersect DOMAIN l.rows IN
    [l EXCEPT !.all = Keep(@, Files \ gone), !.changed = gone # {} \/ @]

\* gfl_delete_files
DeleteFiles(l, op) ==
    LET gone == Range(op.files) \intersect DOMAIN l.rows IN
    IF gone = {} THEN l
    ELSE [l EXCEPT !.all = Keep(@, Files \ gone),
                   !.rows = [f \in DOMAIN @ \ gone |-> @[f]],
                   !.changed = TRUE]

\* gfl_rename_file: the row and its thumb_data go to the new name, which nobody has
RenameFile(l, f, g, version) ==
    IF f \notin DOMAIN l.rows \/ g \in DOMAIN l.rows THEN l
    ELSE [l EXCEPT !.all = [i \in DOMAIN @ |-> IF @[i] = f THEN g ELSE @[i]],
                   !.rows = [x \in (DOMAIN @ \ {f}) \union {g} |->
                                 IF x = g THEN [@[f] EXCEPT !.data = version] ELSE @[x]],
                   !.changed = TRUE,
                   !.disturbed = @ \/ l.rows[f].data # version]

\* gfl_enable_thumbs with TRUE: all the thumbnails are shown again
EnableThumbs(l) ==
    StartUpdateNextThumb(
        [l EXCEPT !.rows = [f \in DOMAIN @ |-> [@[f] EXCEPT !.loaded = FALSE, !.shown = NoImage]],
                  !.scan = Initialize])

\* _gth_file_list_exec_next_op, one operation
Exec(l, op) ==
    CASE op.kind = "set"    -> SetFiles(l, op)
      [] op.kind = "add"    -> AddFiles(l, op)
      [] op.kind = "delete" -> DeleteFiles(l, op)
      [] op.kind = "update" -> UpdateFiles(l, op)
      [] op.kind = "rename" -> RenameFile(l, op.files[1], op.files[2], op.data[op.files[1]])
      [] op.kind = "filter" -> [l EXCEPT !.accepted = Range(op.files), !.changed = TRUE]
      [] op.kind = "sort"   -> [l EXCEPT !.all = Reverse(@), !.changed = TRUE]
      [] op.kind = "enable" -> EnableThumbs(l)

\* _gth_file_list_exec_next_op: the operations are executed up to an "enable", which
\* starts the thumbnailer and leaves the others in the queue; without one the
\* thumbnailer is started at the end.
ExecNextOp(l) ==
    LET enables == {i \in DOMAIN l.queue : l.queue[i].kind = "enable"}
        last    == IF enables = {} THEN Len(l.queue)
                   ELSE CHOOSE i \in enables : \A k \in enables : i <= k
        done    == FoldLeft(Exec,
                            [l EXCEPT !.queue = SubSeq(@, last + 1, Len(@)),
                                      !.disturbed = @ \/ (l.queue # <<>> /\ l.jobs # <<>>)],
                            SubSeq(l.queue, 1, last))
    IN  IF enables = {} THEN StartUpdateNextThumb(done) ELSE done

\* _gth_file_list_clear_queue: also what would go on with the thumbnails is removed
ClearQueue(l) == [l EXCEPT !.event = "none", !.timer = FALSE, !.queue = <<>>]

\* _gth_file_list_queue_op: a new list makes what waits useless, and a new filter an
\* older one
QueueOp(l, op) ==
    LET cleared == CASE op.kind = "set" -> ClearQueue(l)
                     [] op.kind = "filter" ->
                            [l EXCEPT !.queue = Keep(@, {o \in Range(@) : o.kind # "filter"})]
                     [] OTHER -> l
        queued  == [cleared EXCEPT !.queue = Append(@, op)]
    IN  IF l.loading THEN queued ELSE ExecNextOp(queued)

-----------------------------------------------------------------------------
(* Actions. *)

\* something from outside, of which the first is a list of files
Event(kind) ==
    /\ events < MaxEvents
    /\ events = 0 => kind = "set"
    /\ events' = events + 1

\* gth_file_list_init
Init ==
    /\ list = [all |-> <<>>, accepted |-> Files, rows |-> <<>>,
               queue |-> <<>>, loading |-> FALSE, timer |-> FALSE, event |-> "none",
               jobs |-> <<>>, cancelling |-> FALSE, waits |-> 0,
               visibles |-> <<>>, changed |-> FALSE, scan |-> Initialize,
               skipped |-> {},       \* history: young files that the last scan passed over
               stopped |-> FALSE,    \* history: gth_file_list_cancel was called
               disturbed |-> FALSE]  \* history: an operation was done while a job was there
    /\ scroll = 1
    /\ disk = [f \in Files |-> 1]
    /\ young = {}
    /\ events = 0

\* gth_file_list_set_files, gth_file_list_add_files, ...
Call(op) ==
    /\ Event(op.kind)
    /\ Len(list.queue) < MaxQueue
    /\ list' = QueueOp(list, op)
    /\ UNCHANGED <<scroll, disk, young>>

\* gth_file_list_rename_file, when a file took a new name with its contents
Rename(f, g) ==
    /\ Event("other")
    /\ Len(list.queue) < MaxQueue
    /\ f # g /\ g \notin DOMAIN list.rows /\ disk[g] <= disk[f]
    /\ list' = QueueOp(list, Op("rename", <<f, g>>))
    /\ disk' = [disk EXCEPT ![g] = disk[f]]
    /\ young' = IF f \in young THEN young \union {g} ELSE young \ {g}
    /\ UNCHANGED scroll

\* gth_file_list_cancel
Cancel ==
    /\ Event("other")
    /\ list' = CancelJobs([ClearQueue(list) EXCEPT !.cancelling = TRUE, !.waits = @ + 1,
                                                   !.stopped = TRUE])
    /\ UNCHANGED <<scroll, disk, young>>

\* wait_for_jobs_to_finish
CancelDone ==
    /\ list.waits > 0
    /\ list.jobs = <<>>
    /\ list' = [list EXCEPT !.cancelling = FALSE, !.waits = @ - 1]
    /\ UNCHANGED <<scroll, disk, young, events>>

\* Mutant: the scan goes on where it was.
ScrollGoingOn(pos) ==
    /\ Event("other")
    /\ scroll' = pos
    /\ list' = StartUpdateNextThumb(list)
    /\ UNCHANGED <<disk, young>>

\* vadj_changed_cb: the user scrolls, or the view was laid out again
Scroll(pos) ==
    /\ Event("other")
    /\ scroll' = pos
    /\ list' = StartUpdateNextThumb([list EXCEPT !.scan = Initialize])
    /\ UNCHANGED <<disk, young>>

\* restart_thumb_update_cb, from its timer or from an idle callback
RestartThumbUpdate ==
    /\ list.timer \/ list.event = "restart"
    /\ \E l \in {[list EXCEPT !.event = "none", !.timer = FALSE, !.loading = TRUE]} :
           list' \in UpdateNextThumb(l)
    /\ UNCHANGED <<scroll, disk, young, events>>

\* update_thumbs_stopped
UpdateThumbsStopped ==
    /\ list.event = "stopped"
    /\ list' = ExecNextOp([list EXCEPT !.event = "none", !.loading = FALSE])
    /\ UNCHANGED <<scroll, disk, young, events>>

\* start_thumbnail_job and gth_thumb_loader_load: a thumbnail that could not be made
\* before, or a file too big, is answered at once; then comes the cache.
StartThumbnailJob ==
    /\ list.event = "start"
    /\ \E next \in {<<"answer", Failed>>, <<"cache", NoImage>>, <<"original", NoImage>>} :
           list' = [list EXCEPT !.event = "none", !.jobs[1].started = TRUE,
                                !.jobs[1].stage = next[1], !.jobs[1].result = next[2]]
    /\ UNCHANGED <<scroll, disk, young, events>>

Loading(i, stages) == i \in DOMAIN list.jobs /\ list.jobs[i].stage \in stages

Goto(i, stage, result) ==
    /\ list' = [list EXCEPT !.jobs[i].stage = stage, !.jobs[i].result = result]
    /\ UNCHANGED <<scroll, disk, young, events>>

\* cache_image_ready_cb: the cache has an image for the modification time of the
\* file's data, made from that version or, if the data were old, from a later one.
CacheImageReady(i) ==
    /\ Loading(i, {"cache"})
    /\ \/ \E version \in list.jobs[i].data..disk[list.jobs[i].file] :
              Goto(i, "answer", version)
       \/ Goto(i, "original", NoImage)

\* original_image_ready_cb: after an error the external program is tried
OriginalImageReady(i) ==
    /\ Loading(i, {"original"})
    /\ \/ Goto(i, "answer", disk[list.jobs[i].file])
       \/ list.jobs[i].cancelled /\ Goto(i, "answer", Cancelled)
       \/ Goto(i, "script", NoImage)
       \/ Goto(i, "answer", Failed)

\* kill_thumbnailer_cb by its timer
ThumbnailerTimeout(i) == Loading(i, {"script"}) /\ Goto(i, "killed", NoImage)

\* check_cancellable_cb
ThumbnailerCancelled(i) ==
    /\ Loading(i, {"script"})
    /\ list.jobs[i].cancelled
    /\ Goto(i, "killed", Cancelled)

\* watch_thumbnailer_cb: the program has ended, perhaps before it was killed
ThumbnailerEnds(i) ==
    /\ Loading(i, {"script", "killed"})
    /\ IF list.jobs[i].result = Cancelled
       THEN Goto(i, "answer", Cancelled)
       ELSE Goto(i, "answer", Failed) \/ Goto(i, "answer", disk[list.jobs[i].file])

\* thumbnail_job_ready_cb: the answer, for a file that is still listed
Answered(l, job) ==
    LET f   == job.file
        row == IF job.inView
               THEN SetRow(l, f, job.pos, IF job.result = Failed THEN NoImage ELSE job.result)
               ELSE l
        m   == [row EXCEPT !.disturbed = @ \/ job.cancelled \/ l.rows[f].error]
    IN  IF f \notin DOMAIN l.rows THEN l
        ELSE IF job.result = Failed
        THEN [m EXCEPT !.rows[f].error = TRUE, !.rows[f].loaded = FALSE, !.rows[f].created = FALSE]
        ELSE [m EXCEPT !.rows[f].error = FALSE, !.rows[f].created = TRUE,
                       !.rows[f].loaded = @ \/ job.inView]

\* thumbnail_job_ready_cb: after a cancellation nothing goes on
JobReady(i) ==
    /\ Loading(i, {"answer"})
    /\ LET job == list.jobs[i] IN
       IF job.result = Cancelled \/ list.cancelling
       THEN list' = FreeJob(list, i)
       ELSE \E l \in {FreeJob(Answered(list, job), i)} : list' \in UpdateNextThumb(l)
    /\ UNCHANGED <<scroll, disk, young, events>>

\* another program writes a file
FileChanges(f) ==
    /\ Event("other")
    /\ disk[f] < MaxVersion
    /\ disk' = [disk EXCEPT ![f] = @ + 1]
    /\ young' = young \union {f}
    /\ UNCHANGED <<list, scroll>>

\* two seconds pass
Ages(f) ==
    /\ f \in young
    /\ young' = young \ {f}
    /\ UNCHANGED <<list, scroll, disk, events>>

-----------------------------------------------------------------------------
Calls ==
    \/ \E kind \in {"set", "filter"}, fs \in SUBSET Files : Call(Op(kind, SetToSeq(fs)))
    \/ \E f \in Files, kind \in {"add", "delete", "update"} : Call(Op(kind, <<f>>))
    \/ \E f, g \in Files : Rename(f, g)
    \/ \E kind \in {"sort", "enable"} : Call(Op(kind, <<>>))

JobSteps ==
    \E i \in 1..Len(list.jobs) :
        \/ CacheImageReady(i)
        \/ OriginalImageReady(i)
        \/ ThumbnailerTimeout(i)
        \/ ThumbnailerCancelled(i)
        \/ ThumbnailerEnds(i)
        \/ JobReady(i)

Next ==
    \/ Calls
    \/ Cancel
    \/ CancelDone
    \/ \E pos \in 1..Cardinality(Files) : Scroll(pos)
    \/ RestartThumbUpdate
    \/ UpdateThumbsStopped
    \/ StartThumbnailJob
    \/ JobSteps
    \/ \E f \in Files : FileChanges(f) \/ Ages(f)

Spec == Init /\ [][Next]_vars

\* Timers expire, idle callbacks are called, and loads and programs end.
FairSpec ==
    /\ Spec
    /\ WF_vars(CancelDone)
    /\ WF_vars(RestartThumbUpdate)
    /\ WF_vars(UpdateThumbsStopped)
    /\ WF_vars(StartThumbnailJob)
    /\ WF_vars(JobSteps)

-----------------------------------------------------------------------------
(* Properties. *)

\* Nothing will go on with the thumbnails, although they are said to be loading:
\* all that comes is put in the queue.
Stranded ==
    /\ list.loading \/ list.queue # <<>>
    /\ list.event = "none" /\ ~list.timer
    /\ \A i \in DOMAIN list.jobs : list.jobs[i].started => list.jobs[i].cancelled

\* Type invariant: the rows of the store and the thumb_data are of the same files.
ListTypeOK ==
    /\ Range(list.all) = DOMAIN list.rows /\ IsInjective(list.all)
    /\ list.all \in Seq(Files) /\ list.visibles \in Seq(Files)
    /\ \A f \in DOMAIN list.rows :
           list.rows[f] \in [error : BOOLEAN, loaded : BOOLEAN, created : BOOLEAN,
                             shown : {NoImage} \union Versions, data : Versions]
    /\ \A i \in DOMAIN list.queue : list.queue[i].kind \in Kinds
    /\ list.event \in {"none", "start", "restart", "stopped"}
    /\ list.waits \in 0..events
    /\ list.scan.phase \in {"initialize", "scan", "completed"}
    /\ disk \in [Files -> Versions]

\* However the user scrolls and the list changes, one thumbnail is wanted at a time:
\* any other load that is still at work was cancelled.
OneLiveJob == \A i \in 2..Len(list.jobs) : list.jobs[i].started /\ list.jobs[i].cancelled

\* A thumbnail that counts as loaded is in its row, and is not older than the
\* file's data, unless it is the list that was disturbed: an operation was
\* done under a job, a rename came with a change or a job was cancelled too late.
LoadedIsShown ==
    ~list.disturbed => \A f \in DOMAIN list.rows :
        list.rows[f].loaded => list.rows[f].shown >= list.rows[f].data

\* The list is stranded only by a new list of files, or a cancellation, that removes
\* the idle callback it waits for.
OnlyClearingStrands ==
    [][~Stranded /\ Stranded' =>
           (\E fs \in SUBSET Files : Call(Op("set", SetToSeq(fs)))) \/ Cancel]_vars

\* Unless it is stranded or cancelled, what waits in the queue is done.
QueueDrains == (list.queue # <<>>) ~> (list.queue = <<>> \/ Stranded \/ list.stopped)

\* When everybody has stopped asking, the thumbnails on the screen are there, or are
\* known to fail, but for files that were too young when the thumbnailer passed and,
\* once answers came out of turn, those that are only marked as created.
Settled(f) ==
    \/ list.rows[f].loaded
    \/ list.rows[f].error
    \/ f \in list.skipped
    \/ list.disturbed /\ list.rows[f].created
ThumbnailsSettle ==
    <>[](\/ Stranded
         \/ list.stopped
         \/ \A pos \in FirstOnScreen(list)..LastOnScreen(list) :
                pos = 0 \/ Settled(Visible(list)[pos]))
=============================================================================
