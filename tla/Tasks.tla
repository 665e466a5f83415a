------------------------------- MODULE Tasks -------------------------------
(***************************************************************************)
(* The tasks that run in the background of a browser window: gth-task.c,   *)
(* gth-async-task.c, gth-image-task-chain.c and gth-save-image-task.c,     *)
(* gth-image-viewer-task.c and gth-image-viewer-page-tool.c, how the       *)
(* window runs them and waits for them when it is closed (gth-browser.c).  *)
(*                                                                         *)
(* A task of the kind "edit" asks for the original image and changes it in *)
(* a thread; one of the kind "apply" has its image already; one of the     *)
(* kind "load" hands the original image to a tool; and "save" is a chain   *)
(* that loads the original image, encodes it in a thread and writes it.    *)
(* The original image comes from the preloader, of which LoadService says  *)
(* what it promises (ImagePreloader implements it).                        *)
(***************************************************************************)
EXTENDS FileWrite, FiniteSets

CONSTANT MaxRequests    \* bound: the images that are asked for, also by the page

ASSUME TasksAssumption == MaxRequests \in Nat /\ 0 \notin Jobs

VARIABLES
    job,        \* the tasks
    background, \* priv->background_tasks
    applied,    \* the tasks whose image was given to the page
    closing,    \* how far the window is closed
    closer,     \* the task that saves the image before the window is closed
    crashed,    \* the main loop does not come back from a handler
    latest, waiting, queue, delivered   \* the preloader

tvars == <<job, background, applied, closing, closer, crashed>>
svars == <<latest, waiting, queue, delivered>>
vars  == <<tvars, svars, out>>

Preloader == INSTANCE LoadService

NoJob == 0

Kinds  == {"edit", "apply", "load", "save"}
Places == {"new", "loading", "thread", "leaving", "encoding", "writing", "over"}

\* thread: the thread's function runs, or has set the terminated flag; timer: the
\* progress event; cancelled: the state of the cancellable; async: the flag of
\* GthAsyncTask that the thread and the timer read.
NewJob ==
    [kind |-> "edit", at |-> "new", request |-> 0, cancelled |-> FALSE, async |-> FALSE,
     thread |-> "none", timer |-> FALSE, error |-> FALSE]

Running(t) == job[t].at \notin {"new", "over"}

-----------------------------------------------------------------------------
(* Parts of the handlers.  They take the tasks as the earlier part left them. *)

\* g_cancellable_cancel, the first time: gth_async_task_cancelled is called.  A chain
\* has nothing to do, its tasks look at the cancellable.
Cancelled(j) == [j EXCEPT !.cancelled = TRUE, !.async = (j.kind # "save")]

\* Mutant: the timer is not started.
ExecThread_NoTimer(j) == [j EXCEPT !.at = "thread", !.async = FALSE, !.thread = "running"]

\* gth_async_task_exec: the flags are reset after the cancellable was connected.
ExecThread(j) == [j EXCEPT !.at = "thread", !.async = FALSE, !.thread = "running", !.timer = TRUE]

\* _gth_browser_cancel
CancelAll(jobs) ==
    [t \in Jobs |-> IF t \in background /\ jobs[t].at \notin {"new", "over"} /\ ~ jobs[t].cancelled
                    THEN Cancelled(jobs[t]) ELSE jobs[t]]

\* _gth_browser_real_close
RealClose(jobs) ==
    /\ closing = "open"
    /\ closing' = "cancelling"
    /\ job' = CancelAll(jobs)

\* Mutant: the destination is set whatever the error.
SetDestination_Always(t, error) ==
    applied' = IF job[t].kind \in {"edit", "apply"} THEN applied \union {t} ELSE applied

\* gth_image_viewer_task_set_destination
SetDestination(t, error) ==
    applied' = IF job[t].kind \in {"edit", "apply"} /\ ~ error
               THEN applied \union {t} ELSE applied

\* The task is freed; a thread that is still there is not.
Over(j, error) ==
    [j EXCEPT !.at = "over", !.request = 0, !.cancelled = FALSE, !.async = FALSE,
              !.timer = FALSE, !.error = error,
              !.thread = IF @ = "running" THEN "running" ELSE "none"]

\* Mutant: the task stays in the window's list.
Complete_Listed(t, error) ==
    LET ended == [job EXCEPT ![t] = Over(@, error)]
    IN  /\ SetDestination(t, error)
        /\ UNCHANGED background
        /\ IF t = closer /\ ~ error
           THEN RealClose(ended)
           ELSE job' = ended /\ UNCHANGED closing
        /\ closer' = IF t = closer THEN NoJob ELSE closer
        /\ UNCHANGED crashed

\* gth_task_completed and its handlers: what the caller connected comes before
\* background_task_completed_cb.  The window closes after saving, if that was asked
\* for and went well (save_image_task_completed_cb, ask_whether_to_save__done).
Complete(t, error) ==
    LET ended == [job EXCEPT ![t] = Over(@, error)]
    IN  /\ SetDestination(t, error)
        /\ background' = background \ {t}
        /\ IF t = closer /\ ~ error
           THEN RealClose(ended)
           ELSE job' = ended /\ UNCHANGED closing
        /\ closer' = IF t = closer THEN NoJob ELSE closer
        /\ UNCHANGED crashed

\* The task that waits for the preloader.
WaitingJobs == {t \in Jobs : job[t].at = "loading" /\ waiting # 0 /\ job[t].request = waiting}

\* gth_image_preloader_load displaces the waiting request, and cancels its cancellable
\* if its file is being decoded.  Here the request is answered from the cache or waits:
\* the file can be decoded or the edited image is in the cache (UnsavedImageCached).
AskPreloader(jobs) ==
    /\ Preloader!Ask
    /\ waiting' = 0 => queue' # queue
    /\ job' \in {jobs} \union {[jobs EXCEPT ![t] = Cancelled(@)] : t \in WaitingJobs}

-----------------------------------------------------------------------------
(* Starting and cancelling *)

\* gth_browser_exec_task, gth_progress_dialog_add_task, gth_task_exec and the exec
\* method of the kind: gth_image_viewer_task_exec, gth_original_image_task_exec,
\* gth_image_task_chain_exec.
Exec(t, kind) ==
    /\ job[t].at = "new"
    /\ background' = background \union {t}
    /\ \/ /\ kind = "apply"
          /\ job' = [job EXCEPT ![t] = ExecThread([@ EXCEPT !.kind = kind])]
          /\ UNCHANGED svars
       \/ /\ kind # "apply"
          /\ AskPreloader([job EXCEPT ![t] = [@ EXCEPT !.kind = kind, !.at = "loading",
                                                       !.request = latest + 1]])
    /\ UNCHANGED <<applied, closing, crashed, out>>

\* A tool is pressed, or the image is saved.
Start(t, kind) ==
    /\ closing # "destroyed"
    /\ Exec(t, kind)
    /\ UNCHANGED closer

\* The page loads an image for itself.
PageLoads ==
    /\ closing # "destroyed"
    /\ AskPreloader(job)
    /\ UNCHANGED <<background, applied, closing, closer, crashed, out>>

\* gth_task_cancel, by the button of the progress dialog or by the tool.  Cancelling
\* a cancelled task has no effect.
Cancel(t) ==
    /\ Running(t)
    /\ ~ job[t].cancelled
    /\ job' = [job EXCEPT ![t] = Cancelled(@)]
    /\ UNCHANGED <<background, applied, closing, closer, crashed, svars, out>>

-----------------------------------------------------------------------------
(* The original image *)

\* The preloader answers; when the task was cancelled it drops the request.
PreloaderStep ==
    /\ \/ Preloader!Answer
       \/ Preloader!Refuse /\ \E t \in WaitingJobs : job[t].cancelled
    /\ UNCHANGED <<tvars, out>>

\* The original image is there, or could not be loaded.  original_image_ready_cb and
\* get_original_image_ready_cb, an idle callback after the other, and what the task
\* that is done calls in its own.
OriginalReady(t) ==
    \/ /\ job[t].kind = "edit"      \* original_image_task_completed_cb of the viewer task
       /\ job' = [job EXCEPT ![t] = ExecThread(@)]
       /\ UNCHANGED <<background, applied, closing, closer, crashed>>
    \/ /\ job[t].kind = "load"      \* the same of the tool
       /\ Complete(t, FALSE)
    \/ /\ job[t].kind = "save"      \* image_task_completed_cb, gth_save_image_task_exec
       /\ job' = [job EXCEPT ![t].at = "encoding"]
       /\ UNCHANGED <<background, applied, closing, closer, crashed>>

\* With an error.  The handler of the viewer task completes the task that it was
\* called for once more, which calls the handler again, and so on.
OriginalFails(t) ==
    \/ /\ job[t].kind = "edit"
       /\ crashed' = TRUE
       /\ UNCHANGED <<job, background, applied, closing, closer>>
    \/ /\ job[t].kind # "edit"
       /\ Complete(t, TRUE)

Askers == {t \in Jobs : job[t].at = "loading" /\ queue # <<>> /\ job[t].request = Head(queue)}

Deliver ==
    /\ Preloader!DeliverNext
    /\ \/ \E t \in Askers : OriginalReady(t) \/ OriginalFails(t)
       \/ Askers = {} /\ UNCHANGED tvars        \* it was the page that asked
    /\ UNCHANGED out

-----------------------------------------------------------------------------
(* The thread of an asynchronous task *)

\* exec_task, in the thread: the function has ended and the flag is set.
ThreadEnds(t) ==
    /\ job[t].thread = "running"
    /\ job' = [job EXCEPT ![t].thread = "ended"]
    /\ UNCHANGED <<background, applied, closing, closer, crashed, svars, out>>

\* Mutant: the timer does not look at the flag.
Tick_Early(t) ==
    /\ job[t].timer
    /\ job' = [job EXCEPT ![t].timer = FALSE, ![t].at = "leaving",
                          ![t].error = job[t].async]
    /\ UNCHANGED <<background, applied, closing, closer, crashed, svars, out>>

\* update_progress, when it finds that the thread has ended
Tick(t) ==
    /\ job[t].timer
    /\ job[t].thread = "ended"
    /\ job' = [job EXCEPT ![t].timer = FALSE, ![t].at = "leaving",
                          ![t].error = job[t].async]
    /\ UNCHANGED <<background, applied, closing, closer, crashed, svars, out>>

\* task_completed, the idle callback
Leave(t) ==
    /\ job[t].at = "leaving"
    /\ Complete(t, job[t].error)
    /\ UNCHANGED <<svars, out>>

-----------------------------------------------------------------------------
(* Saving *)

\* save_to_buffer_ready_cb: the thread that encodes the image is done.  A cancellation
\* is an error up to here.
Encoded(t) ==
    /\ job[t].at = "encoding"
    /\ \/ /\ ~ job[t].cancelled
          /\ job' = [job EXCEPT ![t].at = "writing"]
          /\ BeginWrite(t, FALSE)
          /\ UNCHANGED <<background, applied, closing, closer, crashed>>
       \/ /\ Complete(t, TRUE)
          /\ UNCHANGED out
    /\ UNCHANGED svars

WriteStep(t) ==
    /\ \/ Opened(t, job[t].cancelled)
       \/ \E n \in 1..Size + MaxErrors : Wrote(t, n, job[t].cancelled)
       \/ WriteFails(t, job[t].cancelled)
       \/ Flushed(t)
    /\ UNCHANGED <<tvars, svars>>

\* file_saved_cb, save_completed, save_to_file_ready_cb and the end of the chain
WriteEnds(t) ==
    /\ \/ OpenFails(t) /\ Complete(t, TRUE)
       \/ Notified(t) /\ Complete(t, out[t].error)
    /\ UNCHANGED svars

-----------------------------------------------------------------------------
(* Closing the window *)

\* _gth_browser_close: not while there are tasks.  The user may be asked whether to
\* save the image, and the window stays if the answer is to cancel.
Close ==
    /\ closing = "open"
    /\ background = {}
    /\ \/ RealClose(job) /\ UNCHANGED <<background, applied, closer, crashed, svars, out>>
       \/ \E t \in Jobs : Exec(t, "save") /\ closer' = t

\* Mutant: it does not wait for the tasks.
Poll_NoWait ==
    /\ closing = "cancelling"
    /\ closing' = "lists"
    /\ UNCHANGED <<job, background, applied, closer, crashed, svars, out>>

\* check_cancellable_cb, every 100 ms
Poll ==
    /\ closing = "cancelling"
    /\ background = {}
    /\ closing' = "lists"
    /\ UNCHANGED <<job, background, applied, closer, crashed, svars, out>>

\* _gth_browser_close_final_step, when the thumbnail lists have stopped
Destroy ==
    /\ closing = "lists"
    /\ closing' = "destroyed"
    /\ UNCHANGED <<job, background, applied, closer, crashed, svars, out>>

-----------------------------------------------------------------------------
TasksInit ==
    /\ job = [t \in Jobs |-> NewJob]
    /\ background = {}
    /\ applied = {}
    /\ closing = "open"
    /\ closer = NoJob
    /\ crashed = FALSE
    /\ Preloader!ServiceInit
    /\ WriteInit

UserStep ==
    \/ \E t \in Jobs, k \in Kinds : Start(t, k)
    \/ \E t \in Jobs : Cancel(t)
    \/ PageLoads
    \/ Close

JobStep(t) ==
    ThreadEnds(t) \/ Tick(t) \/ Leave(t) \/ Encoded(t) \/ WriteStep(t) \/ WriteEnds(t)

TasksNext ==
    /\ ~ crashed
    /\ UserStep \/ PreloaderStep \/ Deliver \/ Poll \/ Destroy \/ \E t \in Jobs : JobStep(t)

TasksSpec == TasksInit /\ [][TasksNext]_vars

\* The threads get time and end, the input and output calls return, the main loop
\* runs its timers and idle callbacks, and the preloader keeps its promise.
TasksFairness ==
    /\ \A t \in Jobs : WF_vars(~ crashed /\ JobStep(t))
    /\ WF_vars(~ crashed /\ PreloaderStep)
    /\ WF_vars(~ crashed /\ Deliver)
    /\ WF_vars(~ crashed /\ Poll)
    /\ WF_vars(~ crashed /\ Destroy)

TasksFairSpec == TasksSpec /\ TasksFairness

-----------------------------------------------------------------------------
(* Properties *)

JobRecord ==
    [kind : Kinds, at : Places, request : 0..MaxRequests, cancelled : BOOLEAN,
     async : BOOLEAN, thread : {"none", "running", "ended"}, timer : BOOLEAN, error : BOOLEAN]

\* Type invariant.  The window's list holds the tasks that run, there is one event
\* for each of them to wait for, and none is over while its thread runs on the image.
TasksTypeOK ==
    /\ job \in [Jobs -> JobRecord]
    /\ background = {t \in Jobs : Running(t)}
    /\ \A t \in Jobs :
          /\ job[t].timer <=> job[t].at = "thread"
          /\ job[t].thread = "running" => job[t].at = "thread"
          /\ job[t].at = "writing" <=> out[t].at # "idle"
    /\ applied \subseteq Jobs
    /\ closing \in {"open", "cancelling", "lists", "destroyed"}
    /\ closer \in background \union {NoJob}
    /\ crashed \in BOOLEAN
    /\ WriteTypeOK

\* The cancellation of a task that is noticed in time.
Heard(t) ==
    \/ job[t].at = "thread" /\ job[t].async
    \/ job[t].kind = "save" /\ job[t].at \in {"loading", "encoding"} /\ job[t].cancelled

\* A task that is cancelled while its thread is at work never changes the page, and a save
\* that is cancelled before the image is encoded never touches the file, in whatever order
\* the thread, the timer and the idle callback come.  (A cancellation that comes after the
\* preloader's answer or after the last tick of the timer is lost.)
CancelIsHonoured ==
    \A t \in Jobs : [](Heard(t) => [](t \notin applied /\ out[t].file = NotWritten))

\* What runs when the window begins to close has ended when the window is gone, be it a
\* task of the user's or the save that the user asked for before closing.
WindowWaits ==
    \A t \in Jobs :
        [](Running(t) /\ closing = "cancelling"
           => [](closing \in {"lists", "destroyed"} => ~ Running(t) /\ job[t].thread # "running"))

\* A save that succeeds, and none of whose writes failed, has put the image in the file;
\* whatever else happens the file holds the old image or the new one.
SavedIsWhole ==
    \A t \in Jobs :
        /\ WrittenPrefix(t)
        /\ job[t].kind = "save" /\ job[t].at = "over" /\ ~ job[t].error /\ out[t].failed = 0
           => out[t].file = Buffer

\* The preloader dropped the request of the task.
Dropped(t) ==
    /\ job[t].at = "loading"
    /\ job[t].request # waiting
    /\ \A k \in DOMAIN queue : queue[k] # job[t].request

\* Every task ends: unless the preloader drops its request, or a write fails, or the
\* original image of an edit cannot be loaded.
TasksEnd == \A t \in Jobs : Running(t) ~> (~ Running(t) \/ Dropped(t) \/ out[t].failed > 0 \/ crashed)

\* A window that the user closes goes away, unless there is such a task.
WindowCloses ==
    closing = "cancelling"
    ~> (closing = "destroyed" \/ crashed \/ \E t \in Jobs : Dropped(t) \/ out[t].failed > 0)

\* Not so: a task that is cancelled ends.
CancelledTasksEnd == \A t \in Jobs : (Running(t) /\ job[t].cancelled) ~> (~ Running(t) \/ crashed)

\* Not so: a save that reports no error has put the image in the file.
NoErrorMeansSaved ==
    \A t \in Jobs :
        job[t].kind = "save" /\ job[t].at = "over" /\ ~ job[t].error => out[t].file = Buffer
=============================================================================
