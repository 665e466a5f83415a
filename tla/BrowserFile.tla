---------------------------- MODULE BrowserFile ----------------------------
(***************************************************************************)
(* gthumb/gthumb/gth-browser.c: the file that is open in a browser window, *)
(* and whether it has changes to be saved.  Two objects keep this state:   *)
(* the browser (current_file with its "gth::file::is-modified" attribute,  *)
(* by which the user is asked to save) and the viewer page (file_data and  *)
(* image_changed).  Requests to open a file may wait for a timer, for the  *)
(* user's answer, or for a save; after a file is loaded its metadata are   *)
(* read, slowly; and files change on disk.  How the page gets its images   *)
(* is left to ViewerPage: here a load ends, at some time, in one step.     *)
(***************************************************************************)
EXTENDS Integers, FiniteSets

CONSTANTS
    Files,
    NoFile,
    MaxVersion,     \* bound: versions of a file on disk
    MaxEdits,       \* bound: edits in a behaviour
    MaxLoads        \* bound: the user opens no more files once the page was given as many

ASSUME BrowserFileAssumption ==
    /\ NoFile \notin Files
    /\ MaxVersion \in Nat \ {0}
    /\ MaxEdits \in Nat
    /\ MaxLoads \in Nat

VARIABLES
    current,    \* priv->current_file: the file and its modification time
    modified,   \* current_file's attribute "gth::file::is-modified"
    loadTimer,  \* load_file_timeout: the file to open
    metaTimer,  \* load_metadata_timeout: the file whose metadata to read
    query,      \* the metadata being read; the time is 0 until it is known
    dialogs,    \* questions "Save changes?", by the file that waits for the answer
    attributes, \* the attributes of changed files, on their way to the browser
    page,       \* the page's file_data
    edit,       \* the page's edit (image_changed), 0 if none
    loading,    \* the page waits for the image
    image,      \* the version of the image in the viewer, 0 if none
    saves,      \* the save tasks at work
    loads,      \* number of times that the page was given a file
    edits,      \* number of edits so far; edits are numbered
    written,    \* history: the edits that were saved
    disk,       \* the version of every file
    unnoticed   \* the files whose latest change was not notified yet

browserVars == <<current, modified, loadTimer, metaTimer, query, dialogs, attributes>>
pageVars    == <<page, edit, loading, image, loads>>
bvars       == <<browserVars, pageVars, saves, edits, written, disk, unnoticed>>

Data   == [file : Files, mtime : 1..MaxVersion]
NoData == [file |-> NoFile, mtime |-> 0]

-----------------------------------------------------------------------------
(* Opening a file.  m and q are the values that an earlier part of the handler *)
(* left in metaTimer and query.                                                *)

\* gth_viewer_page_file_loaded_cb: the metadata are read after another delay, and
\* whatever was being read is cancelled (load_file_data_new).
FileLoaded(f) ==
    /\ modified' = FALSE
    /\ metaTimer' = f
    /\ query' = NoData

\* _gth_browser_load_file and the page's view function, which does nothing for a
\* file that it shows already.  The new current_file has no is-modified attribute.
DoLoad(d, m, q) ==
    /\ loads' = loads + 1
    /\ current' = d
    /\ IF page = d /\ edit = 0
       THEN /\ FileLoaded(d.file)
            /\ UNCHANGED <<page, edit, loading, image>>
       ELSE /\ page' = d
            /\ edit' = 0
            /\ loading' = TRUE
            /\ image' = 0
            /\ modified' = FALSE
            /\ metaTimer' = m
            /\ query' = q

\* Mutant: the user is not asked.
OpenOrAsk_Open(d, m, q) == DoLoad(d, m, q) /\ UNCHANGED dialogs

\* load_file_delayed_cb
OpenOrAsk(d, m, q) ==
    IF modified
    THEN /\ dialogs' = dialogs \union {d}
         /\ metaTimer' = m
         /\ query' = q
         /\ UNCHANGED <<current, modified, pageVars>>
    ELSE /\ DoLoad(d, m, q)
         /\ UNCHANGED dialogs

\* gth_browser_load_file: the timers of an earlier request are removed and what
\* was being read is cancelled.  The file is opened at once, or after a delay.
LoadFile(d, view) ==
    \/ /\ view
       /\ loadTimer' = NoData
       /\ OpenOrAsk(d, NoFile, NoData)
    \/ /\ ~ view
       /\ loadTimer' = d
       /\ metaTimer' = NoFile
       /\ query' = NoData
       /\ UNCHANGED <<current, modified, dialogs, pageVars>>

\* The user opens a file, as the file list knows it (it is behind the disk until the
\* change is noticed); not while a dialog is open, which is modal.
Open(f, t, view) ==
    /\ dialogs = {}
    /\ loads < MaxLoads
    /\ t <= disk[f]
    /\ t = disk[f] \/ f \in unnoticed \/ \E d \in attributes : d.file = f
    /\ LoadFile([file |-> f, mtime |-> t], view)
    /\ UNCHANGED <<attributes, saves, edits, written, disk, unnoticed>>

\* load_file_timeout expires.
LoadDelayed ==
    /\ loadTimer # NoData
    /\ loadTimer' = NoData
    /\ OpenOrAsk(loadTimer, metaTimer, query)
    /\ UNCHANGED <<attributes, saves, edits, written, disk, unnoticed>>

\* The image is there, read at some time since it was asked for; see ViewReady in
\* ViewerPage for what it leaves of an edit made while it was loading.
ImageLoaded ==
    /\ loading
    /\ loading' = FALSE
    /\ image' \in page.mtime .. disk[page.file]
    /\ FileLoaded(page.file)
    /\ UNCHANGED <<current, loadTimer, dialogs, attributes, page, edit, loads, saves,
                   edits, written, disk, unnoticed>>

\* load_metadata_cb
ReadMetadata ==
    /\ metaTimer # NoFile
    /\ metaTimer' = NoFile
    /\ query' = IF metaTimer = current.file THEN [file |-> metaTimer, mtime |-> 0] ELSE query
    /\ UNCHANGED <<current, modified, loadTimer, dialogs, attributes, pageVars, saves,
                   edits, written, disk, unnoticed>>

\* The modification time is read first, in a thread, the other metadata later.
QueryTime ==
    /\ query # NoData
    /\ query.mtime = 0
    /\ query' = [query EXCEPT !.mtime = disk[query.file]]
    /\ UNCHANGED <<current, modified, loadTimer, metaTimer, dialogs, attributes, pageVars,
                   saves, edits, written, disk, unnoticed>>

\* Mutant: the answer is used before the modification time is known.
MetadataReady_Early ==
    /\ query # NoData
    /\ query' = NoData
    /\ current' = query
    /\ modified' = FALSE
    /\ page' = query
    /\ UNCHANGED <<loadTimer, metaTimer, dialogs, attributes, edit, loading, image, loads,
                   saves, edits, written, disk, unnoticed>>

\* Mutant: the page is not told.
MetadataReady_BrowserOnly ==
    /\ query.mtime # 0
    /\ query' = NoData
    /\ query.file = current.file
    /\ current' = query
    /\ modified' = FALSE
    /\ UNCHANGED <<loadTimer, metaTimer, dialogs, attributes, pageVars,
                   saves, edits, written, disk, unnoticed>>

\* file_metadata_ready_cb and the page's update_info function
MetadataReady ==
    /\ query.mtime # 0
    /\ query' = NoData
    /\ IF query.file = current.file
       THEN /\ current' = query
            /\ modified' = FALSE
            /\ page' = IF page.file = query.file THEN query ELSE page
       ELSE UNCHANGED <<current, modified, page>>
    /\ UNCHANGED <<loadTimer, metaTimer, dialogs, attributes, edit, loading, image, loads,
                   saves, edits, written, disk, unnoticed>>

-----------------------------------------------------------------------------
(* Editing and saving *)

\* _gth_image_viewer_page_set_image, for an image that is modified ...
Edit ==
    /\ dialogs = {}
    /\ page # NoData
    /\ edits < MaxEdits
    /\ edits' = edits + 1
    /\ edit' = edits'
    /\ modified' = TRUE
    /\ UNCHANGED <<current, loadTimer, metaTimer, query, dialogs, attributes, page, loading,
                   image, loads, saves, written, disk, unnoticed>>

\* ... or, all the changes undone, not.
UndoAll ==
    /\ dialogs = {}
    /\ edit # 0
    /\ edit' = 0
    /\ modified' = FALSE
    /\ UNCHANGED <<current, loadTimer, metaTimer, query, dialogs, attributes, page, loading,
                   image, loads, saves, edits, written, disk, unnoticed>>

\* _gth_image_viewer_page_real_save; next is the file to open after the save.
StartSave(next) ==
    /\ saves' = saves \union {[data |-> current, load |-> loads, edit |-> edit, next |-> next]}
    /\ modified' = FALSE

\* The command is enabled for a modified file.
Save ==
    /\ dialogs = {}
    /\ modified
    /\ StartSave(NoData)
    /\ UNCHANGED <<current, loadTimer, metaTimer, query, dialogs, attributes, pageVars,
                   edits, written, disk, unnoticed>>

\* The answers to the question: save first ...
AnswerSave(d) ==
    /\ d \in dialogs
    /\ dialogs' = dialogs \ {d}
    /\ StartSave(d)
    /\ UNCHANGED <<current, loadTimer, metaTimer, query, attributes, pageVars,
                   edits, written, disk, unnoticed>>

\* ... do not save ...
AnswerDiscard(d) ==
    /\ d \in dialogs
    /\ dialogs' = dialogs \ {d}
    /\ DoLoad(d, metaTimer, query)
    /\ UNCHANGED <<loadTimer, attributes, saves, edits, written, disk, unnoticed>>

\* ... or stay.  (ask_whether_to_save__done)
AnswerCancel(d) ==
    /\ d \in dialogs
    /\ dialogs' = dialogs \ {d}
    /\ modified' = TRUE
    /\ UNCHANGED <<current, loadTimer, metaTimer, query, attributes, pageVars, saves,
                   edits, written, disk, unnoticed>>

\* Mutant: the folder is not told that the file has changed.
SaveSucceeds_Untold(s) ==
    /\ s \in saves
    /\ saves' = saves \ {s}
    /\ disk[s.data.file] < MaxVersion
    /\ disk' = [disk EXCEPT ![s.data.file] = @ + 1]
    /\ written' = written \union {s.edit}
    /\ \/ s.next = NoData /\ UNCHANGED <<current, modified, metaTimer, query, pageVars>>
       \/ s.next # NoData /\ DoLoad(s.next, metaTimer, query)
    /\ UNCHANGED <<loadTimer, dialogs, attributes, edits, unnoticed>>

\* save_image_task_completed_cb, without an error: the file that waited is opened,
\* and the folder is told that the saved one has changed.
SaveSucceeds(s) ==
    /\ s \in saves
    /\ saves' = saves \ {s}
    /\ disk[s.data.file] < MaxVersion
    /\ disk' = [disk EXCEPT ![s.data.file] = @ + 1]
    /\ unnoticed' = unnoticed \union {s.data.file}
    /\ written' = written \union {s.edit}
    /\ \/ s.next = NoData /\ UNCHANGED <<current, modified, metaTimer, query, pageVars>>
       \/ s.next # NoData /\ DoLoad(s.next, metaTimer, query)
    /\ UNCHANGED <<loadTimer, dialogs, attributes, edits>>

\* save_image_task_completed_cb, with an error: current_file, if it is still the
\* object that was to be saved, is not modified; if a file waited, it is again.
SaveFails(s) ==
    /\ s \in saves
    /\ saves' = saves \ {s}
    /\ modified' = IF s.next # NoData THEN TRUE
                   ELSE IF s.load = loads THEN FALSE ELSE modified
    /\ UNCHANGED <<current, loadTimer, metaTimer, query, dialogs, attributes, pageVars,
                   edits, written, disk, unnoticed>>

-----------------------------------------------------------------------------
(* The disk *)

\* Another program writes a file.
FileChanges(f) ==
    /\ disk[f] < MaxVersion
    /\ disk' = [disk EXCEPT ![f] = @ + 1]
    /\ unnoticed' = unnoticed \union {f}
    /\ UNCHANGED <<browserVars, pageVars, saves, edits, written>>

\* folder_changed_cb: the attributes of the changed file are read ...
FolderChanged(f) ==
    /\ f \in unnoticed
    /\ unnoticed' = unnoticed \ {f}
    /\ attributes' = attributes \union {[file |-> f, mtime |-> disk[f]]}
    /\ UNCHANGED <<current, modified, loadTimer, metaTimer, query, dialogs, pageVars,
                   saves, edits, written, disk>>

\* ... at some time, and if it is open it is loaded again.  (file_attributes_ready_cb)
AttributesReady(d) ==
    /\ d \in attributes
    /\ attributes' = attributes \ {d}
    /\ IF d.file = current.file
       THEN \E t \in d.mtime .. disk[d.file] : LoadFile([d EXCEPT !.mtime = t], FALSE)
       ELSE UNCHANGED <<current, modified, loadTimer, metaTimer, query, dialogs, pageVars>>
    /\ UNCHANGED <<saves, edits, written, disk, unnoticed>>

-----------------------------------------------------------------------------
BInit ==
    /\ current = NoData
    /\ modified = FALSE
    /\ loadTimer = NoData
    /\ metaTimer = NoFile
    /\ query = NoData
    /\ dialogs = {}
    /\ attributes = {}
    /\ page = NoData
    /\ edit = 0
    /\ loading = FALSE
    /\ image = 0
    /\ saves = {}
    /\ loads = 0
    /\ edits = 0
    /\ written = {}
    /\ disk = [f \in Files |-> 1]
    /\ unnoticed = {}

User ==
    \/ \E f \in Files, t \in 1..MaxVersion, view \in BOOLEAN : Open(f, t, view)
    \/ Edit
    \/ UndoAll
    \/ Save
    \/ \E d \in dialogs : AnswerSave(d) \/ AnswerDiscard(d) \/ AnswerCancel(d)

Callbacks ==
    \/ LoadDelayed
    \/ ImageLoaded
    \/ ReadMetadata
    \/ QueryTime
    \/ MetadataReady
    \/ \E s \in saves : SaveSucceeds(s) \/ SaveFails(s)
    \/ \E f \in unnoticed : FolderChanged(f)
    \/ \E d \in attributes : AttributesReady(d)

BNext == User \/ Callbacks \/ \E f \in Files : FileChanges(f)

BSpec == BInit /\ [][BNext]_bvars

\* The timers and tasks of the main loop end; the user need not do anything.
BrowserFairness ==
    /\ WF_bvars(LoadDelayed)
    /\ \A f \in Files : WF_bvars(FolderChanged(f))
    /\ \A d \in Data : WF_bvars(AttributesReady(d))
    /\ WF_bvars(\E s \in saves : SaveSucceeds(s) \/ SaveFails(s))

BFairSpec == BSpec /\ BrowserFairness

-----------------------------------------------------------------------------
(* Properties *)

\* Type invariant.
BrowserTypeOK ==
    /\ {current, loadTimer, page} \subseteq Data \union {NoData}
    /\ {modified, loading} \subseteq BOOLEAN
    /\ metaTimer \in Files \union {NoFile}
    /\ query \in [file : Files, mtime : 0..MaxVersion] \union {NoData}
    /\ dialogs \union attributes \subseteq Data
    /\ {edit, edits} \union written \subseteq 0..MaxEdits
    /\ image \in 0..MaxVersion
    /\ loads \in Nat
    /\ saves \subseteq [data : Data, load : 0..loads, edit : 0..MaxEdits,
                        next : Data \union {NoData}]
    /\ disk \in [Files -> 1..MaxVersion]
    /\ unnoticed \subseteq Files

\* The browser and the page keep a copy each of what is known of the open file.
\* Whatever order timers, metadata, answers of the user, saves and notifications
\* come in, the copies agree: what the page shows is saved in the file that the
\* browser names.
PageFollowsBrowser == page = current

\* As long as the browser knows of changes, no timer and no notification replaces
\* the image unasked: only the user's answer and the end of a save that was
\* started to open a file do.
AsksWhenModified ==
    [][loads' # loads /\ modified => dialogs' # dialogs \/ saves' # saves]_bvars

Saving(e) == \E s \in saves : s.edit = e

\* An edit that was saved does not stay in the page as if it were unsaved: unless
\* the save fails, the page reads the file again, or gets another edit, or the user
\* is asked whether to.
SavedIsReloaded ==
    \A e \in 1..MaxEdits :
        edit = e /\ Saving(e)
        ~> edit # e \/ dialogs # {} \/ (e \notin written /\ ~ Saving(e))

=============================================================================
