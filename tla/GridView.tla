------------------------------ MODULE GridView ------------------------------
(***************************************************************************)
(* gthumb/gthumb/gth-grid-view.c: the items of the grid of thumbnails.     *)
(* The grid does not look at the file store when it draws: it keeps items  *)
(* of its own, and the positions of the selected ones, and the store's     *)
(* signals tell it how to change them.  A view is a record; the operators  *)
(* are the handlers of the signals and what the user does to the           *)
(* selection.  Positions count from 1.                                     *)
(***************************************************************************)
EXTENDS Integers, Sequences, SequencesExt

EmptyView == [items |-> <<>>, selection |-> {}, crashed |-> FALSE]

Item(file, key, thumb) ==
    [file |-> file, key |-> key, thumb |-> thumb, selected |-> FALSE]

\* model_row_deleted_cb: the item found at a position past the end is a null
\* link, which the handler follows all the same.
RowDeleted(v, pos) ==
    IF v.crashed \/ pos > Len(v.items)
    THEN [v EXCEPT !.crashed = TRUE]
    ELSE [v EXCEPT !.items = RemoveAt(@, pos),
                   !.selection = {IF p > pos THEN p - 1 ELSE p : p \in @ \ {pos}}]

\* Mutant: off by one: the item that was at the position keeps it
RowInsertedAfter(v, pos, item) ==
    IF v.crashed THEN v
    ELSE [v EXCEPT !.items = InsertAt(@, pos, item),
                   !.selection = {IF p > pos THEN p + 1 ELSE p : p \in @}]

\* model_row_inserted_cb: the new item is not selected.
RowInserted(v, pos, item) ==
    IF v.crashed THEN v
    ELSE [v EXCEPT !.items = InsertAt(@, pos, item),
                   !.selection = {IF p >= pos THEN p + 1 ELSE p : p \in @}]

\* Mutant: the permutation is read the wrong way round
RowsReorderedBack(v, order) ==
    IF v.crashed THEN v
    ELSE [v EXCEPT !.items = [i \in DOMAIN order |-> v.items[order[i]]],
                   !.selection = {order[i] : i \in @}]

\* model_rows_reordered_cb: order[i] is the old position of the item that is now at i.
RowsReordered(v, order) ==
    IF v.crashed THEN v
    ELSE [v EXCEPT !.items = [i \in DOMAIN order |-> v.items[order[i]]],
                   !.selection = {i \in DOMAIN order : order[i] \in @}]

\* model_row_changed_cb: the item stays where it is, and as selected as it was.
RowChanged(v, pos, item) ==
    IF v.crashed THEN v
    ELSE [v EXCEPT !.items[pos] = [item EXCEPT !.selected = v.items[pos].selected]]

\* model_thumbnail_changed_cb
ThumbnailChanged(v, pos, thumb) ==
    IF v.crashed THEN v
    ELSE [v EXCEPT !.items[pos].thumb = thumb]

-----------------------------------------------------------------------------
(* The selection: a flag in every item, and the list of positions. *)

\* _gth_grid_view_set_item_selected: nothing is done to an item that is so already.
SetItemSelected(v, selected, pos) ==
    IF v.items[pos].selected = selected THEN v
    ELSE [v EXCEPT !.items[pos].selected = selected,
                   !.selection = IF selected THEN @ \union {pos} ELSE @ \ {pos}]

-----------------------------------------------------------------------------
(* Signals, in the order in which they are emitted. *)

Deleted(pos)          == [kind |-> "deleted", pos |-> pos]
Inserted(pos, item)   == [kind |-> "inserted", pos |-> pos, item |-> item]
Reordered(order)      == [kind |-> "reordered", order |-> order]
Changed(pos, item)    == [kind |-> "changed", pos |-> pos, item |-> item]
Thumbnail(pos, thumb) == [kind |-> "thumbnail", pos |-> pos, thumb |-> thumb]
Selecting(pos, yes)   == [kind |-> "selecting", pos |-> pos, selected |-> yes]

\* What is connected to the signals of the model by gth_grid_view_set_model, and the
\* selection of one item among others.
Handle(v, s) ==
    CASE s.kind = "deleted"   -> RowDeleted(v, s.pos)
      [] s.kind = "inserted"  -> RowInserted(v, s.pos, s.item)
      [] s.kind = "reordered" -> RowsReordered(v, s.order)
      [] s.kind = "changed"   -> RowChanged(v, s.pos, s.item)
      [] s.kind = "thumbnail" -> ThumbnailChanged(v, s.pos, s.thumb)
      [] s.kind = "selecting" -> SetItemSelected(v, s.selected, s.pos)

HandleAll(v, signals) == FoldLeft(Handle, v, signals)

\* _gth_grid_view_select_all, _gth_grid_view_unselect_all
SetAllSelected(v, selected) ==
    HandleAll(v, [pos \in DOMAIN v.items |-> Selecting(pos, selected)])

\* gth_grid_view_select with GTK_SELECTION_SINGLE, and a click on an item that is
\* not selected with GTK_SELECTION_MULTIPLE (_gth_grid_view_select_single)
SelectOnly(v, pos) == SetItemSelected(SetAllSelected(v, FALSE), TRUE, pos)

\* a click with Control (_gth_grid_view_select_multiple)
Toggle(v, pos) == SetItemSelected(v, ~v.items[pos].selected, pos)
=============================================================================
