------------------------------ MODULE FileStore -----------------------------
(***************************************************************************)
(* gthumb/gthumb/gth-file-store.c: the model behind the grid of            *)
(* thumbnails.  It keeps all the files of a folder in the order of the     *)
(* sort, and the visible ones, which the filter accepts.  Whatever changes *)
(* is told to the view by signals: so many rows deleted, a permutation,    *)
(* so many rows inserted.  The view (GridView) applies them to its items   *)
(* blindly, so that its positions are right only if every signal is.       *)
(* A file's key is what the filter tests and what the sort compares; a     *)
(* thumbnail has arrived or not.                                           *)
(***************************************************************************)
EXTENDS Integers, FiniteSets, Rows, GridView

CONSTANTS
    Files,
    Keys,       \* the values of the attribute that filter and sort look at
    NoKey,      \* the key of a file that is not in the store
    Filters,    \* the filters that the user can choose
    MaxThumbs   \* bound: rows that have their thumbnail

ASSUME StoreAssumption ==
    /\ IsFiniteSet(Files)
    /\ Keys \subseteq Int /\ NoKey \in Int \ Keys
    /\ Keys \in Filters /\ Filters \subseteq SUBSET Keys
    /\ MaxThumbs \in Nat

VARIABLES
    allRows,    \* all_rows
    rows,       \* rows: the visible ones; a row's pos is its place here
    key,        \* the attribute of every file
    thumb,      \* whether the file's row has its thumbnail
    changed,    \* files whose row is marked as changed
    filter,     \* the keys that the filter accepts
    sort,       \* cmp_func and inverse_sort: "unsorted" if there is no cmp_func
    view,       \* the grid view's items and selection
    strayed     \* history: rows was not in the order of all_rows in an update

vars == <<allRows, rows, key, thumb, changed, filter, sort, view, strayed>>

-----------------------------------------------------------------------------
(* Sorting and filtering. *)

\* campare_row_func
Before(k, s, f, g) == IF s = "inverse" THEN k[f] > k[g] ELSE k[f] < k[g]

\* the place of q[i] after a stable sort
Place(q, k, s, i) ==
    1 + Cardinality({j \in DOMAIN q :
            \/ Before(k, s, q[j], q[i])
            \/ j < i /\ ~Before(k, s, q[i], q[j])})

\* _gth_file_store_sort: without a cmp_func nothing is moved
Sorted(q, k, s) ==
    IF s = "unsorted" THEN q
    ELSE [n \in DOMAIN q |-> q[CHOOSE i \in DOMAIN q : Place(q, k, s, i) = n]]

PosIn(q, f) == CHOOSE i \in DOMAIN q : q[i] = f

\* _gth_file_store_update_visibility: where the new rows are inserted
Merged(all, add, position) ==
    SubSeq(all, 1, position) \o add \o SubSeq(all, position + 1, Len(all))

\* whether q lists its files in the order of all
InOrderOf(q, all) == q = Keep(all, Range(q))

RowItem(k, t, f) == Item(f, k[f], t[f])

(* _gth_file_store_update_visibility, from the rows all (the new ones         *)
(* included), the visible rows and the view v.  The rows to hide are looked up *)
(* in all from the last one, each with the position it had in visible; the     *)
(* permutation is that of the rows that stay, as they are ordered in all.      *)
UpdateVisibility(all, visible, k, t, flt, s, v) ==
    LET shown    == Range(visible)
        accepted == {f \in Range(all) : k[f] \in flt}
        sorted   == Sorted(all, k, s)
        new      == Keep(sorted, accepted)
        hidden   == Reverse(Keep(all, shown \ accepted))
        stays    == Keep(all, shown \intersect accepted)
        moved    == Keep(new, shown)
        added    == Keep(new, accepted \ shown)
        order    == [i \in DOMAIN stays |-> PosIn(stays, moved[i])]
        fewer    == HandleAll(v, [i \in DOMAIN hidden |-> Deleted(PosIn(visible, hidden[i]))])
        ordered  == IF \A i \in DOMAIN order : order[i] = i THEN fewer
                    ELSE Handle(fewer, Reordered(order))
        full     == HandleAll(ordered, [i \in DOMAIN added |->
                        Inserted(PosIn(new, added[i]), RowItem(k, t, added[i]))])
    IN  [all |-> sorted, rows |-> new, view |-> full]

Update(all, visible, k, t, flt, s, v) ==
    LET u == UpdateVisibility(all, visible, k, t, flt, s, v) IN
    /\ allRows' = u.all
    /\ rows' = u.rows
    /\ view' = u.view
    /\ strayed' = (strayed \/ ~InOrderOf(visible, all))

-----------------------------------------------------------------------------
(* The operations.  The program ends when the view crashes. *)

\* gth_file_store_init; the filter accepts every file
StoreInit ==
    /\ allRows = <<>> /\ rows = <<>>
    /\ key = [f \in Files |-> NoKey]
    /\ thumb = [f \in Files |-> FALSE]
    /\ changed = {}
    /\ filter = Keys
    /\ sort = "unsorted"
    /\ view = EmptyView
    /\ strayed = FALSE

\* gth_file_store_queue_add for each file, new ones, then gth_file_store_exec_add.  A
\* position other than the end comes with an unsorted list (folder_changed_cb).
AddFiles(queue, data, position) ==
    /\ ~view.crashed
    /\ position < Len(allRows) => sort = "unsorted"
    /\ key' = [f \in Files |-> IF f \in Range(queue) THEN data[f] ELSE key[f]]
    /\ Update(Merged(allRows, Reverse(queue), position), rows, key', thumb, filter, sort, view)
    /\ UNCHANGED <<thumb, changed, filter, sort>>

\* gth_file_store_set_filter
SetFilter(flt) ==
    /\ ~view.crashed
    /\ filter' = flt
    /\ Update(allRows, rows, key, thumb, flt, sort, view)
    /\ UNCHANGED <<key, thumb, changed, sort>>

\* gth_file_store_set_sort_func and _gth_file_store_reorder: nothing is hidden or
\* shown, and the permutation is computed from the rows' own positions.
SetSort(s) ==
    /\ ~view.crashed
    /\ s # sort
    /\ sort' = s
    /\ allRows' = Sorted(allRows, key, s)
    /\ rows' = Keep(allRows', Range(rows))
    /\ view' = Handle(view, Reordered([i \in DOMAIN rows' |-> PosIn(rows, rows'[i])]))
    /\ UNCHANGED <<key, thumb, changed, filter, strayed>>

\* _gth_file_store_list_changed: only the visible rows lose the mark
ListChanged(visible, marked, k, t, v) ==
    LET told == Keep(visible, marked)
    IN  HandleAll(v, [i \in DOMAIN told |->
                         Changed(PosIn(visible, told[i]), RowItem(k, t, told[i]))])

\* Mutant: update_filter is not set by new data
ExecSetUnfiltered(all, visible, marked, k, t) ==
    /\ allRows' = all /\ rows' = visible
    /\ view' = ListChanged(visible, marked, k, t, view)
    /\ changed' = marked \ Range(visible)
    /\ UNCHANGED strayed

\* gth_file_store_exec_set after the rows visible got the data k
ExecSet(all, visible, marked, k, t) ==
    /\ Update(all, visible, k, t, filter, sort, ListChanged(visible, marked, k, t, view))
    /\ changed' = marked \ Range(visible)

\* gth_file_store_queue_set of the files' data (gfl_update_files), and
\* gth_file_store_exec_set
SetData(fs, value) ==
    /\ ~view.crashed
    /\ fs # {}
    /\ key' = [f \in Files |-> IF f \in fs THEN value ELSE key[f]]
    /\ ExecSet(allRows, rows, changed \union fs, key', thumb)
    /\ UNCHANGED <<thumb, filter, sort>>

\* gth_file_store_set with the data of a file renamed (gfl_rename_file): the row
\* keeps its key, its thumbnail and its selection.
Rename(f, g) ==
    LET Renamed(x) == IF x = f THEN g ELSE x
        Rows(q)    == [i \in DOMAIN q |-> Renamed(q[i])]
    IN
    /\ ~view.crashed
    /\ f \in Range(allRows) /\ g \notin Range(allRows)
    /\ key' = [key EXCEPT ![g] = key[f], ![f] = NoKey]
    /\ thumb' = [thumb EXCEPT ![g] = thumb[f], ![f] = FALSE]
    /\ ExecSet(Rows(allRows), Rows(rows), {Renamed(x) : x \in changed} \union {g}, key', thumb')
    /\ UNCHANGED <<filter, sort>>

\* gth_file_store_queue_set of a thumbnail that was loaded: the view is not told yet
QueueThumbnail(f) ==
    /\ ~view.crashed
    /\ f \in Range(rows)
    /\ Cardinality({g \in Files : thumb[g]} \union {f}) <= MaxThumbs
    /\ thumb' = [thumb EXCEPT ![f] = TRUE]
    /\ changed' = changed \union {f}
    /\ UNCHANGED <<allRows, rows, key, filter, sort, view, strayed>>

\* gth_file_store_exec_set with update_filter unset: _gth_file_store_thumbnails_changed
ExecThumbnails ==
    /\ ~view.crashed
    /\ LET told == Keep(rows, changed)
       IN  view' = HandleAll(view, [i \in DOMAIN told |->
                                       Thumbnail(PosIn(rows, told[i]), thumb[told[i]])])
    /\ changed' = changed \ Range(rows)
    /\ UNCHANGED <<allRows, rows, key, thumb, filter, sort, strayed>>

\* Mutant: _gth_file_store_hide_row leaves the positions of the rows that follow
HideRowsStale(visible, queue, v) ==
    LET hidden == Keep(queue, Range(visible))
    IN  [rows |-> Keep(visible, Files \ Range(hidden)),
         view |-> HandleAll(v, [i \in DOMAIN hidden |-> Deleted(PosIn(visible, hidden[i]))])]

\* _gth_file_store_hide_row for each file of a queue: the positions of the rows that
\* follow are brought up to date, and so is the one of the next row to hide.
HideRows(visible, queue, v) ==
    LET hidden  == Keep(queue, Range(visible))
        Left(n) == Keep(visible, Files \ {hidden[j] : j \in 1..n})
    IN  [rows |-> Left(Len(hidden)),
         view |-> HandleAll(v, [i \in DOMAIN hidden |-> Deleted(PosIn(Left(i - 1), hidden[i]))])]

\* gth_file_store_queue_remove for each file, then gth_file_store_exec_remove
RemoveFiles(queue) ==
    LET left   == Keep(allRows, Files \ Range(queue))
        hidden == HideRows(rows, queue, view)
    IN
    /\ ~view.crashed
    /\ Update(left, hidden.rows, key, thumb, filter, sort, hidden.view)
    /\ key' = [f \in Files |-> IF f \in Range(queue) THEN NoKey ELSE key[f]]
    /\ thumb' = [f \in Files |-> thumb[f] /\ f \notin Range(queue)]
    /\ changed' = changed \ Range(queue)
    /\ UNCHANGED <<filter, sort>>

\* gth_file_store_clear
Clear ==
    /\ ~view.crashed
    /\ view' = HandleAll(view, [i \in DOMAIN rows |-> Deleted(Len(rows) + 1 - i)])
    /\ allRows' = <<>> /\ rows' = <<>>
    /\ key' = [f \in Files |-> NoKey]
    /\ thumb' = [f \in Files |-> FALSE]
    /\ changed' = {}
    /\ strayed' = FALSE
    /\ UNCHANGED <<filter, sort>>

\* gth_file_store_reorder (order_changed_cb: the user dragged files to another place
\* of a catalog): only rows is changed, all_rows and cmp_func stay as they are.
UserReorder(order) ==
    /\ ~view.crashed
    /\ rows' = [i \in DOMAIN rows |-> rows[order[i]]]
    /\ view' = Handle(view, Reordered(order))
    /\ UNCHANGED <<allRows, key, thumb, changed, filter, sort, strayed>>

\* The user selects: a click, a click with Control, all the files, none.
Select ==
    /\ ~view.crashed
    /\ \/ \E pos \in DOMAIN view.items : view' \in {SelectOnly(view, pos), Toggle(view, pos)}
       \/ view' \in {SetAllSelected(view, TRUE), SetAllSelected(view, FALSE)}
    /\ UNCHANGED <<allRows, rows, key, thumb, changed, filter, sort, strayed>>

-----------------------------------------------------------------------------
Queues(S) == UNION {{q \in [1..n -> S] : IsInjective(q)} : n \in 1..Cardinality(S)}
Orders(n) == {o \in [1..n -> 1..n] : IsInjective(o)}
Sorts     == {"unsorted", "ascending", "inverse"}

StoreNext ==
    \/ \E queue \in Queues(Files \ Range(allRows)), position \in 0..Len(allRows) :
           \E data \in [Range(queue) -> Keys] : AddFiles(queue, data, position)
    \/ \E flt \in Filters : SetFilter(flt)
    \/ \E s \in Sorts : SetSort(s)
    \/ \E fs \in SUBSET Range(allRows), value \in Keys : SetData(fs, value)
    \/ \E f, g \in Files : Rename(f, g)
    \/ \E f \in Files : QueueThumbnail(f)
    \/ ExecThumbnails
    \/ \E queue \in Queues(Range(allRows)) : RemoveFiles(queue)
    \/ Clear
    \/ \E order \in Orders(Len(rows)) : UserReorder(order)
    \/ Select

StoreSpec == StoreInit /\ [][StoreNext]_vars

-----------------------------------------------------------------------------
(* Properties. *)

ViewFiles == [i \in DOMAIN view.items |-> view.items[i].file]
Selected  == {view.items[p].file : p \in view.selection}

\* Type invariant: rows and all_rows list every file at most once, and the list of
\* selected positions and the flags of the items say the same.
StoreTypeOK ==
    /\ allRows \in Seq(Files) /\ IsInjective(allRows)
    /\ rows \in Seq(Files) /\ IsInjective(rows)
    /\ key \in [Files -> Keys \union {NoKey}]
    /\ thumb \in [Files -> BOOLEAN]
    /\ changed \subseteq Files
    /\ filter \in Filters
    /\ sort \in Sorts
    /\ view.items \in Seq([file : Files, key : Keys, thumb : BOOLEAN, selected : BOOLEAN])
    /\ view.selection \subseteq DOMAIN view.items
    /\ view.crashed \in BOOLEAN
    /\ ~view.crashed => view.selection = {p \in DOMAIN view.items : view.items[p].selected}
    /\ strayed \in BOOLEAN

\* After any sequence of additions, removals, changes of data, of the filter and of
\* the sort, the visible rows are exactly the files that the filter accepts, and
\* with a cmp_func all_rows is in its order.
RowsAreAccepted ==
    /\ Range(rows) = {f \in Range(allRows) : key[f] \in filter}
    /\ sort # "unsorted" => \A i, j \in DOMAIN allRows :
                               i < j => ~Before(key, sort, allRows[j], allRows[i])

\* The signals take the view to the visible rows, one for one: the item at a
\* position is the one of the row at that position.  They do unless an update
\* computed them while rows was in another order than all_rows.  An item that shows
\* other data than its row's will be told: the row is marked as changed, even if it
\* was hidden, copied or moved since it was set.
ViewMirrorsStore ==
    ~strayed =>
        /\ ~view.crashed /\ ViewFiles = rows
        /\ \A i \in DOMAIN view.items : LET f == view.items[i].file IN
              (view.items[i].key # key[f] \/ view.items[i].thumb # thumb[f]) => f \in changed

\* What the user did not select by hand is not selected by a change of the store,
\* and a selected file stays selected as long as it is visible, wherever it moves.
SelectionFollowsFiles ==
    [][\/ Selected' = Selected \intersect Range(rows')
       \/ strayed'
       \/ Select
       \/ \E f, g \in Files : Rename(f, g)]_vars
=============================================================================
