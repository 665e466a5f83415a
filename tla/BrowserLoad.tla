---------------------------- MODULE BrowserLoad ----------------------------
(***************************************************************************)
(* How the browser goes from folder to folder (gth-browser.c): the queue of *)
(* loads, the location, its history and its monitor, the tree of folders,   *)
(* and the list of the files of the location, which must follow the disk.   *)
(*                                                                          *)
(* A load is a chain of asynchronous operations on a file source of its     *)
(* own.  Any number of loads run at once, the user can stop them, and only  *)
(* the end of a load tells whether its folder is still the one to show.     *)
(* What happens on disk is reported by the monitor of the location, half a  *)
(* second after the last change, and is looked up before it is listed.      *)
(*                                                                          *)
(* The browser's private structure is one record, `browser', and what its   *)
(* functions do to it is an operator, because they call each other.  While  *)
(* the monitor delivers its events no other callback runs.                  *)
(*                                                                          *)
(* The history of the last session may name folders that are gone, or whose *)
(* volume is not mounted.                                                   *)
(*                                                                          *)
(* Left out: the folder's own attributes and sort order, the file to select *)
(* afterwards, other windows, saving the history, and the end of a mount.   *)
(* The list shows no folders, as the usual filters do, and an entry point   *)
(* is the root of its file system, always there.  Equal requests for a      *)
(* volume wait as one.                                                      *)
(***************************************************************************)
EXTENDS Integers, FiniteSets, Rows

CONSTANTS Folders,      \* the folders, volumes included
          Path,         \* load_data->list: from the entry point down to the folder
          Files,        \* the files
          FolderOf,     \* the folder of a file
          Volumes,      \* entry points that have to be mounted first
          NoFolder,     \* GFile NULL
          Disk,         \* what is on disk at first
          Saved,        \* the history of the last session, for a first window
          MaxInputs     \* bound on what the user and other programs do

VARIABLES browser,   \* the private structure of the window
          disk,      \* what exists
          mounted,   \* the volumes that are mounted
          mounts,    \* loads that wait for their volume
          queue,     \* monitor_queue of the file source of the location
          flushing,  \* the events that process_event_queue is delivering
          reads,     \* attribute queries of files that were created or changed
          inputs     \* what the user and other programs did so far

lvars == <<browser, disk, mounted, mounts, queue, flushing, reads, inputs>>

Items == Folders \union Files
Places == Folders \union {NoFolder}
Slots == 1..MaxInputs

Above(f) == {Path[f][k] : k \in DOMAIN Path[f]}
Below(f) == {g \in Folders : f \in Above(g)}
EntryPoints == {f \in Folders : Len(Path[f]) = 1}

\* g_file_get_parent, which is NULL for an entry point
Parent(x) == IF x \in Files THEN FolderOf[x]
             ELSE IF x \in EntryPoints THEN NoFolder ELSE Path[x][Len(Path[x]) - 1]

LoadAssumption ==
    /\ Files \intersect Folders = {}
    /\ NoFolder \notin Items
    /\ FolderOf \in [Files -> Folders]
    /\ Path \in [Folders -> Seq(Folders)]
    /\ \A f \in Folders : /\ Len(Path[f]) \in Nat \ {0} /\ Path[f][Len(Path[f])] = f
                           /\ \A k \in DOMAIN Path[f] : Path[Path[f][k]] = SubSeq(Path[f], 1, k)
    /\ Volumes \subseteq EntryPoints
    /\ EntryPoints \subseteq Disk /\ Disk \subseteq Items
    /\ Saved \in Seq(Folders) /\ IsInjective(Saved)
    /\ MaxInputs \in Nat
ASSUME LoadAssumption

-----------------------------------------------------------------------------
(* The queue of loads *)

\* LoadData.  A load goes to a folder, goes back or forward in the history, or lists
\* the children of a folder of the tree.  current is the place of the folder that is
\* being loaded in the path.  op: the operation of the file source is cancelled;
\* stopped: the load is, before the last query or during it.  found is what the listing
\* saw of the folder, missed what has changed in it since.
Load == [at : {"free", "attributes", "listing", "query"}, folder : Places,
         action : {"go", "travel", "list"}, automatic : BOOLEAN,
         current : Nat, op : BOOLEAN, stopped : {"no", "early", "late"},
         found : SUBSET Items, missed : SUBSET Items]

FreeLoad == [at |-> "free", folder |-> NoFolder, action |-> "go", automatic |-> FALSE,
             current |-> 0, op |-> FALSE, stopped |-> "no", found |-> {}, missed |-> {}]

NewLoad(f, action, automatic) ==
    [FreeLoad EXCEPT !.folder = f, !.action = action, !.automatic = automatic]

Queued(b) == {i \in Slots : b.loads[i].at # "free"}
Loading(b, f) == \E i \in Queued(b) : b.loads[i].folder = f /\ b.loads[i].action # "list"
FreeSlot(b) == CHOOSE i \in Slots \ Queued(b) : \A j \in Slots \ Queued(b) : i <= j
Current(l) == Path[l.folder][l.current]

\* gth_folder_tree_set_children
SetChildren(b, f, children) ==
    IF f \notin b.shown THEN b
    ELSE LET gone == UNION {Below(g) : g \in {h \in Folders : Parent(h) = f} \ children}
         IN  [b EXCEPT !.shown = (@ \ gone) \union (children \intersect Folders),
                       !.listed = (@ \ gone) \union {f}]

\* gth_folder_tree_loading_children, gth_folder_tree_delete_children
RemoveRows(b, rows) == [b EXCEPT !.shown = @ \ rows, !.listed = @ \ rows]
LoadingChildren(b, f) == IF f \in b.shown THEN RemoveRows(b, Below(f) \ {f}) ELSE b

\* The next folder of the path that the tree has not listed, or the last one, whose
\* attributes are read first.
NextFolder(b, l) ==
    LET path == Path[l.folder]
        k == CHOOSE n \in l.current + 1..Len(path) :
                /\ n = Len(path) \/ path[n] \notin b.listed
                /\ \A m \in l.current + 1..n - 1 : path[m] \in b.listed
    IN  [l EXCEPT !.current = k, !.op = FALSE,
                  !.at = IF l.action # "list" /\ k = Len(path) THEN "attributes" ELSE "listing"]

\* Mutant: a folder that is visited again stays at its old place, too.
AddToHistoryTwice(b, f) ==
    IF b.pos > 0 /\ b.history[b.pos] = f THEN [b EXCEPT !.astray = NoFolder]
    ELSE [b EXCEPT !.history = <<f>> \o (IF b.pos = 0 THEN <<>> ELSE SubSeq(@, b.pos, Len(@))),
                   !.pos = 1, !.astray = NoFolder]

\* The newest location comes first; what is before the current one, and where the new
\* one was, is forgotten.
AddToHistory(b, f) ==
    IF b.pos > 0 /\ b.history[b.pos] = f THEN [b EXCEPT !.astray = NoFolder]
    ELSE LET kept == IF b.pos = 0 THEN <<>> ELSE SubSeq(b.history, b.pos, Len(b.history))
         IN  [b EXCEPT !.history = <<f>> \o Keep(kept, Folders \ {f}), !.pos = 1,
                       !.astray = NoFolder]

\* For the properties only: `astray' is the folder on a volume, gone back or forward to
\* before it was mounted, that parted the current place from the location.
Arrive(b, f) ==
    [b EXCEPT !.astray = IF b.pos \in DOMAIN b.history /\ b.history[b.pos] = f
                         THEN NoFolder ELSE f]

\* Mutant: the monitor is only replaced when the new folder is shown.
KeepMonitor(b) == b

StopMonitor(b) == [b EXCEPT !.monitor = NoFolder]

\* _gth_browser_load of a folder whose volume is mounted
StartLoad(b, f, action, automatic) ==
    LET prepared == IF action = "list" THEN LoadingChildren(b, f)
                    ELSE [StopMonitor(b) EXCEPT !.rows = {}, !.doubt = {}, !.location = f]
        placed == CASE action = "go" -> AddToHistory(prepared, f)
                    [] action = "travel" -> Arrive(prepared, f)
                    [] action = "list" -> prepared
    IN  [placed EXCEPT !.activity = @ + 1,
                       !.loads[FreeSlot(b)] = NextFolder(placed, NewLoad(f, action, automatic))]

\* The end of a load, load_data_done without an error and load_data_free.
Done(b, i) == [b EXCEPT !.activity = @ - 1, !.loads[i] = FreeLoad]

\* load_data_error.  The list is emptied whatever it shows now, and the parent of a
\* folder that was loaded by the browser itself is loaded even if the user has gone on.
Fail(b, i, cancelled) ==
    LET l == b.loads[i]
        emptied == SetChildren(b, Current(l), {})
        c == IF l.action = "list" THEN emptied
             ELSE [emptied EXCEPT !.rows = {},
                                  !.doubt = @ \union Files \union
                                               (IF l.folder = b.location THEN {l.folder} ELSE {})]
    IN  IF ~ cancelled /\ l.automatic /\ Parent(l.folder) # NoFolder
        THEN StartLoad(Done(c, i), Parent(l.folder), l.action, TRUE)
        ELSE Done(c, i)

\* load_data_continue after the last query: the files are shown and the location is
\* monitored from now on.
Show(b, i) ==
    LET l == b.loads[i]
        c == Done(SetChildren(b, l.folder, l.found), i)
    IN  [c EXCEPT !.rows = l.found \intersect Files, !.monitor = b.location, !.doubt = l.missed]

-----------------------------------------------------------------------------
(* The user *)

Quiet == flushing = <<>> /\ ~ browser.crashed
Mounted(f) == Path[f][1] \in Volumes => Path[f][1] \in mounted

NoEvents == [created |-> <<>>, deleted |-> <<>>, changed |-> <<>>]

\* _gth_browser_load.  Nothing but the monitor changes before the volume is mounted.
LoadLocation(b, f, action) ==
    IF Mounted(f) THEN browser' = StartLoad(b, f, action, FALSE) /\ UNCHANGED mounts
    ELSE /\ browser' = [StopMonitor(b) EXCEPT !.astray = IF action = "travel" THEN f ELSE @]
         /\ mounts' = mounts \union {[folder |-> f, action |-> action]}

Request ==
    /\ Quiet
    /\ inputs < MaxInputs
    /\ inputs' = inputs + 1
    /\ UNCHANGED <<disk, mounted, queue, flushing, reads>>

\* gth_browser_go_to; a reload and the parent are locations, too
GoTo(f) == Request /\ LoadLocation(browser, f, "go")

\* gth_browser_go_back, gth_browser_go_forward, gth_browser_go_to_history_pos.  The current
\* place moves before the load begins.  The menu of the history is empty at first.
Travel(k) ==
    /\ Request
    /\ k \in DOMAIN browser.history \ {browser.pos}
    /\ browser.location = NoFolder => k \in {browser.pos - 1, browser.pos + 1}
    /\ LoadLocation([browser EXCEPT !.pos = k], browser.history[k], "travel")

\* folder_tree_list_children_cb: a row is expanded that was not listed yet
ListChildren(f) ==
    /\ Request
    /\ f \in browser.shown \ browser.listed
    /\ browser' = StartLoad(browser, f, "list", FALSE)
    /\ UNCHANGED mounts

\* gth_browser_clear_history, which reads the location also when there is none yet
ClearHistory ==
    /\ Request
    /\ browser.history # <<>>
    /\ LET cleared == [browser EXCEPT !.history = <<>>, !.pos = 0]
       IN  browser' = IF browser.location # NoFolder THEN AddToHistory(cleared, browser.location)
                      ELSE [cleared EXCEPT !.crashed = TRUE, !.astray = NoFolder]
    /\ UNCHANGED mounts

\* gth_browser_stop: for every load the operation of its file source and its own last query
Stop ==
    /\ Request
    /\ Queued(browser) # {}
    /\ browser' = [browser EXCEPT !.loads = [i \in Slots |->
                     LET l == browser.loads[i]
                     IN  [l EXCEPT !.op = l.at # "free",
                                   !.stopped = IF l.at = "free" \/ @ # "no" THEN @
                                               ELSE IF l.at = "query" THEN "late" ELSE "early"]]]
    /\ UNCHANGED mounts

\* mount_volume_ready_cb
MountReady(m) ==
    /\ Quiet
    /\ m \in mounts
    /\ mounts' = mounts \ {m}
    /\ \/ /\ mounted' = mounted \union {Path[m.folder][1]}
          /\ browser' = StartLoad([browser EXCEPT !.shown = @ \union {Path[m.folder][1]}],
                                  m.folder, m.action, FALSE)
       \/ UNCHANGED <<mounted, browser>>
    /\ UNCHANGED <<disk, queue, flushing, reads, inputs>>

-----------------------------------------------------------------------------
(* The steps of a load *)

\* The callback of an operation of a load: only success gives the monitor to the file
\* source of the load, and the events of the one before are lost with it.
Callback(i, stage) ==
    /\ Quiet
    /\ i \in Slots /\ browser.loads[i].at = stage
    /\ UNCHANGED <<disk, mounted, mounts, flushing, reads, inputs>>

LoadFails(i, cancelled) == browser' = Fail(browser, i, cancelled) /\ UNCHANGED queue

\* Mutant: the folder is shown although the user has gone to another one.
ContinueOvertaken(i, children) ==
    LET l == browser.loads[i]
    IN  IF Current(l) # l.folder
        THEN LET c == SetChildren(browser, Current(l), children)
             IN  browser' = [c EXCEPT !.loads[i] = NextFolder(c, l)] /\ UNCHANGED queue
        ELSE IF l.action = "list"
        THEN browser' = Done(SetChildren(browser, l.folder, children), i) /\ UNCHANGED queue
        ELSE browser' = Show(browser, i) /\ queue' = NoEvents

\* Mutant: an overtaken load returns without its end.
ContinueAbandoned(i, children) ==
    LET l == browser.loads[i]
    IN  IF l.action # "list" /\ l.folder # browser.location
        THEN UNCHANGED <<browser, queue>>
        ELSE IF Current(l) # l.folder
        THEN LET c == SetChildren(browser, Current(l), children)
             IN  browser' = [c EXCEPT !.loads[i] = NextFolder(c, l)] /\ UNCHANGED queue
        ELSE IF l.action = "list"
        THEN browser' = Done(SetChildren(browser, l.folder, children), i) /\ UNCHANGED queue
        ELSE browser' = Show(browser, i) /\ queue' = NoEvents

\* load_data_continue
Continue(i, children) ==
    LET l == browser.loads[i]
    IN  IF l.action # "list" /\ l.folder # browser.location
        THEN browser' = Done(browser, i) /\ UNCHANGED queue
        ELSE IF Current(l) # l.folder
        THEN LET c == SetChildren(browser, Current(l), children)
             IN  browser' = [c EXCEPT !.loads[i] = NextFolder(c, l)] /\ UNCHANGED queue
        ELSE IF l.action = "list"
        THEN browser' = Done(SetChildren(browser, l.folder, children), i) /\ UNCHANGED queue
        ELSE browser' = Show(browser, i) /\ queue' = NoEvents

\* requested_folder_attributes_ready_cb.  The next operation resets the cancellable.
AttributesReady(i) ==
    /\ Callback(i, "attributes")
    /\ LET l == browser.loads[i]
       IN  \/ l.op /\ LoadFails(i, TRUE)
           \/ l.folder \notin disk /\ LoadFails(i, FALSE)
           \/ /\ l.folder \in disk
              /\ browser' = [browser EXCEPT !.loads[i].at = "listing", !.loads[i].op = FALSE]
              /\ UNCHANGED queue

\* _gth_browser_load_ready_cb, load_data_ready
ListReady(i) ==
    /\ Callback(i, "listing")
    /\ LET l == browser.loads[i]
           children == {x \in disk : Parent(x) = Current(l)}
       IN  \/ l.op /\ LoadFails(i, TRUE)
           \/ Current(l) \notin disk /\ LoadFails(i, FALSE)
           \/ /\ Current(l) \in disk
              /\ IF l.action # "list" /\ Current(l) = l.folder
                 THEN /\ browser' = [browser EXCEPT !.loads[i].at = "query", !.loads[i].op = FALSE,
                                                    !.loads[i].found = children]
                      /\ UNCHANGED queue
                 ELSE Continue(i, children)

\* requested_folder_attributes_ready_cb, load_data_ready: the folder exists but somebody
\* keeps it from being read, which is an input of its own.
FolderUnreadable(i) ==
    /\ Quiet
    /\ inputs < MaxInputs
    /\ inputs' = inputs + 1
    /\ i \in Slots /\ browser.loads[i].at \in {"attributes", "listing"}
    /\ LoadFails(i, FALSE)
    /\ UNCHANGED <<disk, mounted, mounts, flushing, reads>>

\* metadata_ready_cb.  A load that was stopped before the query is cancelled for certain.
QueryReady(i) ==
    /\ Callback(i, "query")
    /\ \/ browser.loads[i].stopped # "no" /\ LoadFails(i, TRUE)
       \/ browser.loads[i].stopped # "early" /\ Continue(i, browser.loads[i].found)

-----------------------------------------------------------------------------
(* The disk and the monitor *)

\* add_monitor_for_directory: the location and all folders above it
Watched(x) == browser.monitor # NoFolder /\ Parent(x) \in Above(browser.monitor)

Without(s, x) == Keep(s, Items \ {x})
Has(s, x) == \E k \in DOMAIN s : s[k] = x

\* monitor_changed_cb: an item that comes back is taken for a changed one
Created(q, x) ==
    IF Has(q.deleted, x)
    THEN [q EXCEPT !.deleted = Without(@, x), !.changed = <<x>> \o @]
    ELSE [q EXCEPT !.created = <<x>> \o @]
Deleted(q, x) ==
    [created |-> Without(q.created, x), deleted |-> <<x>> \o q.deleted,
     changed |-> Without(q.changed, x)]
Changed(q, x) ==
    IF Has(q.created, x) THEN q ELSE [q EXCEPT !.changed = <<x>> \o Without(@, x)]

\* Another program creates or deletes a file or an empty folder.
DiskChange(x) ==
    /\ inputs < MaxInputs
    /\ inputs' = inputs + 1
    /\ x \notin EntryPoints
    /\ \/ x \notin disk /\ Parent(x) \in disk /\ disk' = disk \union {x}
       \/ x \in disk /\ (\A y \in disk : Parent(y) # x) /\ disk' = disk \ {x}
    /\ queue' = IF ~ Watched(x) THEN queue
                ELSE IF x \in disk THEN Deleted(queue, x) ELSE Created(queue, x)
    /\ browser' = [browser EXCEPT
                     !.loads = [i \in Slots |->
                         LET l == browser.loads[i]
                         IN  [l EXCEPT !.missed = IF l.at = "query" /\ l.folder \in {x, Parent(x)}
                                                  THEN @ \union {x} ELSE @]],
                     !.doubt = IF Watched(x) \/ Loading(browser, browser.location) THEN @
                               ELSE @ \union {x}]
    /\ UNCHANGED <<mounted, mounts, flushing, reads>>

\* Another program writes a file, or changes the attributes of a file or folder.
ContentChange(x) ==
    /\ inputs < MaxInputs
    /\ inputs' = inputs + 1
    /\ x \in disk \ EntryPoints /\ Watched(x)
    /\ queue' = Changed(queue, x)
    /\ UNCHANGED <<browser, disk, mounted, mounts, flushing, reads>>

Events(kind, items) == [k \in DOMAIN items |-> [kind |-> kind, item |-> items[k]]]

\* process_event_queue
Flush ==
    /\ Quiet
    /\ queue # NoEvents
    /\ flushing' = Events("created", queue.created) \o Events("deleted", queue.deleted)
                   \o Events("changed", queue.changed)
    /\ queue' = NoEvents
    /\ UNCHANGED <<browser, disk, mounted, mounts, reads, inputs>>

\* folder_changed_cb.  When the location or a folder above it is gone its parent is
\* loaded, and the event is then handled for the new location.
FolderChanged(x, kind) ==
    LET hit == x \in Folders /\ x \in Above(browser.location)
        b == IF kind = "deleted" /\ hit THEN StartLoad(browser, Parent(x), "go", TRUE) ELSE browser
        updateTree == Parent(x) \in b.listed
        updateList == Parent(x) = b.location \/ (kind # "created" /\ x \in b.rows)
    IN  IF browser.location = NoFolder THEN UNCHANGED <<browser, reads>>
        ELSE IF kind = "changed" /\ hit
        THEN browser' = StartLoad(browser, browser.location, "go", TRUE) /\ UNCHANGED reads
        ELSE IF kind = "deleted"
        THEN /\ browser' = IF x \in Folders
                           THEN IF updateTree THEN RemoveRows(b, Below(x)) ELSE b
                           ELSE IF updateList THEN [b EXCEPT !.rows = @ \ {x}] ELSE b
             /\ UNCHANGED reads
        ELSE /\ reads' = IF ~ updateTree /\ ~ updateList THEN reads
                         ELSE reads \union {[item |-> x, kind |-> kind, list |-> updateList,
                                             tree |-> updateTree, found |-> FALSE]}
             /\ UNCHANGED browser

Deliver ==
    /\ flushing # <<>>
    /\ FolderChanged(Head(flushing).item, Head(flushing).kind)
    /\ flushing' = Tail(flushing)
    /\ UNCHANGED <<disk, mounted, mounts, queue, inputs>>

\* The query of gth_file_source_read_attributes ends in its thread.
ReadAttributes(r) ==
    /\ r \in reads /\ ~ r.found
    /\ reads' = IF r.item \in disk THEN (reads \ {r}) \union {[r EXCEPT !.found = TRUE]}
                ELSE reads \ {r}
    /\ UNCHANGED <<browser, disk, mounted, mounts, queue, flushing, inputs>>

Reported(x, kind) ==
    \/ kind = "created" /\ Has(queue.created, x)
    \/ kind = "deleted" /\ Has(queue.deleted, x)
    \/ kind = "changed" /\ Has(queue.changed, x)
    \/ \E k \in DOMAIN flushing : flushing[k] = [kind |-> kind, item |-> x]

\* file_attributes_ready_cb.  A new file is added to the list, whichever folder that
\* shows now and also if the file is gone; a changed file is not added.
FileAttributesReady(r) ==
    /\ Quiet
    /\ r \in reads /\ r.found
    /\ reads' = reads \ {r}
    /\ browser' = IF r.kind = "created" /\ r.item \in Folders
                  THEN IF r.tree /\ Parent(r.item) \in browser.shown
                       THEN [browser EXCEPT !.shown = @ \union {r.item}] ELSE browser
                  ELSE IF r.kind = "created" /\ r.list
                  THEN [browser EXCEPT !.rows = @ \union {r.item},
                          !.doubt = IF \/ FolderOf[r.item] # browser.location
                                       \/ (r.item \notin disk /\ ~ Reported(r.item, "deleted"))
                                    THEN @ \union {r.item} ELSE @]
                  ELSE IF r.kind = "changed" /\ r.list
                  THEN [browser EXCEPT !.doubt = @ \union ({r.item} \ browser.rows)]
                  ELSE browser
    /\ UNCHANGED <<disk, mounted, mounts, queue, flushing, inputs>>

-----------------------------------------------------------------------------
(* The specification *)

Init ==
    /\ browser = [location |-> NoFolder, history |-> Saved,
                  pos |-> IF Saved = <<>> THEN 0 ELSE 1, monitor |-> NoFolder,
                  rows |-> {}, shown |-> EntryPoints \ Volumes, listed |-> {}, activity |-> 0,
                  loads |-> [i \in Slots |-> FreeLoad], crashed |-> FALSE,
                  doubt |-> {}, astray |-> NoFolder]
    /\ disk = Disk
    /\ mounted = {} /\ mounts = {} /\ reads = {}
    /\ queue = NoEvents /\ flushing = <<>>
    /\ inputs = 0

User == \/ \E f \in Folders : GoTo(f) \/ ListChildren(f)
        \/ \E k \in DOMAIN browser.history : Travel(k)
        \/ ClearHistory \/ Stop

LoadStep(i) == AttributesReady(i) \/ ListReady(i) \/ QueryReady(i)

Next ==
    \/ User
    \/ \E m \in mounts : MountReady(m)
    \/ \E i \in Slots : LoadStep(i) \/ FolderUnreadable(i)
    \/ \E x \in Items : DiskChange(x) \/ ContentChange(x)
    \/ Flush \/ Deliver
    \/ \E r \in reads : ReadAttributes(r) \/ FileAttributesReady(r)

\* Operations end, the main loop runs their callbacks, and the monitor's timer fires.
\* Mounting may wait for the user for ever.
LoadFairness ==
    /\ \A i \in Slots : WF_lvars(LoadStep(i))
    /\ WF_lvars(Flush) /\ WF_lvars(Deliver)
    /\ WF_lvars(\E r \in reads : ReadAttributes(r) \/ FileAttributesReady(r))

Spec == Init /\ [][Next]_lvars
FairSpec == Spec /\ LoadFairness

-----------------------------------------------------------------------------
(* Properties *)

Awaited(x) ==
    \/ \E kind \in {"created", "deleted", "changed"} : Reported(x, kind)
    \/ \E r \in reads : r.item = x /\ r.list

\* Type invariant: also, the counter that keeps the window busy counts the loads,
\* and no folder but the location is monitored.
LoadTypeOK ==
    /\ browser.location \in Places /\ browser.monitor \in {NoFolder, browser.location}
    /\ browser.history \in Seq(Folders) /\ browser.pos \in 0..Len(browser.history)
    /\ browser.rows \subseteq Files /\ browser.listed \subseteq browser.shown
    /\ browser.shown \subseteq Folders /\ browser.doubt \subseteq Items
    /\ browser.loads \in [Slots -> Load]
    /\ browser.activity = Cardinality(Queued(browser))
    /\ disk \subseteq Items /\ mounted \subseteq Volumes

\* The history is a path without repetitions with a current place as long as it has any,
\* also while loads fail or are overtaken.  The current place is the location, and only
\* going back or forward to a volume that was not mounted parts the two: the place moves
\* at once, whether or not the volume is mounted, and the location follows when it is,
\* wherever the place is by then.  So one of the two is the folder `astray' of that move,
\* until the next load of a folder or move to a mounted one brings them together.
HistoryIsPath ==
    /\ \A j, k \in DOMAIN browser.history : browser.history[j] = browser.history[k] => j = k
    /\ browser.pos = 0 <=> browser.history = <<>>
    /\ LET place == IF browser.pos = 0 THEN NoFolder ELSE browser.history[browser.pos]
       IN  IF browser.astray = NoFolder
           THEN browser.location \in {NoFolder, place}
           ELSE /\ browser.astray \in {browser.location, place}
                /\ Path[browser.astray][1] \in Volumes

\* The list shows the files of the location, and the location exists, unless a load
\* or an event that will put it right is on its way.  Whatever order loads, stops, events
\* and queries come in, `doubt' names the items that the code knowingly loses sight of:
\* what changes while the folder is loaded, or not monitored after a failure; every
\* file once a load failed and emptied the list; a file that came, went and came
\* back before the monitor told, or that was looked up too long before it is added.
WindowFollowsDisk ==
    \/ browser.location = NoFolder
    \/ Loading(browser, browser.location)
    \/ /\ \A x \in Files : \/ x \in browser.doubt \/ Awaited(x)
                           \/ x \in browser.rows <=> x \in disk /\ FolderOf[x] = browser.location
       /\ \/ browser.location \in disk \union browser.doubt
          \/ Awaited(browser.location)

Settled == Queued(browser) = {} /\ queue = NoEvents /\ flushing = <<>> /\ reads = {}

\* Loads, and the loads that their failures start, come to an end, if the program is not
\* ended by clearing a history that has no location yet.
BrowserSettles == <>[](Settled \/ browser.crashed)
=============================================================================
