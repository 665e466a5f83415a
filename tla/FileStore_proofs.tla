-------------------------- MODULE FileStore_proofs --------------------------
(***************************************************************************)
(* Theorems about the file store and the grid view that follows it, for    *)
(* any files, keys and filters.  Of a single signal: the list of selected  *)
(* positions and the flags of the items say the same after it, and the     *)
(* selection goes where its files go.  Of all the signals of an operation: *)
(* they take the items to the rows.                                        *)
(***************************************************************************)
EXTENDS FileStore, SequenceLemmas


GridItems(F, K) == [file : F, key : K, thumb : BOOLEAN, selected : BOOLEAN]

Views(F, K) ==
    [items : Seq(GridItems(F, K)), selection : SUBSET Nat, crashed : BOOLEAN]

\* The list of selected positions and the flags of the items say the same.
Flagged(v) == v.selection = {p \in DOMAIN v.items : v.items[p].selected}

SelectedFiles(v) == {v.items[p].file : p \in v.selection}

\* A permutation, as model_rows_reordered_cb gets it.
IsOrder(o, n) == o \in [1..n -> 1..n] /\ \A p \in 1..n : \E i \in 1..n : o[i] = p

-----------------------------------------------------------------------------
(* The signals *)

LEMMA ViewFacts ==
    ASSUME NEW F, NEW K, NEW v \in Views(F, K)
    PROVE  /\ v.items \in Seq(GridItems(F, K)) /\ Len(v.items) \in Nat
           /\ DOMAIN v.items = 1..Len(v.items)
           /\ v.selection \subseteq Nat
BY DEF Views

(* model_row_deleted_cb *)
LEMMA DeletedSelection ==
    ASSUME NEW F, NEW K, NEW v \in Views(F, K), Flagged(v), ~ v.crashed,
           NEW pos \in DOMAIN v.items
    PROVE  LET w == RowDeleted(v, pos)
           IN  /\ Flagged(w)
               /\ SelectedFiles(w) = {v.items[p].file : p \in v.selection \ {pos}}
<1> DEFINE w == RowDeleted(v, pos)
           After(p) == IF p > pos THEN p - 1 ELSE p
           n == Len(v.items)
<1>1. n \in Nat /\ DOMAIN v.items = 1..n /\ v.items \in Seq(GridItems(F, K)) /\ pos \in 1..n
  BY ViewFacts
<1>2. /\ w.items = RemoveAt(v.items, pos)
      /\ w.selection = {After(p) : p \in v.selection \ {pos}}
  BY <1>1 DEF RowDeleted, Views
<1>3. /\ w.items \in Seq(GridItems(F, K)) /\ DOMAIN w.items = 1..n-1
      /\ \A i \in 1..n-1 : w.items[i] = v.items[IF i < pos THEN i ELSE i + 1]
  <2>1. /\ RemoveAt(v.items, pos) \in Seq(GridItems(F, K))
        /\ Len(RemoveAt(v.items, pos)) = n - 1
        /\ \A i \in 1..n-1 :
              RemoveAt(v.items, pos)[i] = v.items[IF i < pos THEN i ELSE i + 1]
    BY <1>1, RemoveAtFacts
  <2> QED  BY <1>1, <1>2, <2>1
<1>4. v.selection = {p \in 1..n : v.items[p].selected}
  BY <1>1 DEF Flagged
<1> HIDE DEF w, n
<1>5. ASSUME NEW p \in v.selection \ {pos}
      PROVE  After(p) \in 1..n-1 /\ w.items[After(p)] = v.items[p]
  BY <1>1, <1>3, <1>4
<1>6. ASSUME NEW q \in 1..n-1, w.items[q].selected
      PROVE  \E p \in v.selection \ {pos} : q = After(p)
  <2> DEFINE p == IF q < pos THEN q ELSE q + 1
  <2>1. p \in 1..n /\ p # pos /\ After(p) = q /\ w.items[q] = v.items[p]
    BY <1>1, <1>3
  <2>2. v.items[p].selected
    BY <1>6, <2>1
  <2> HIDE DEF p
  <2>3. p \in v.selection \ {pos}
    BY <1>4, <2>1, <2>2
  <2> QED  BY <2>1, <2>3
<1>7. ASSUME NEW p \in v.selection \ {pos}  PROVE w.items[After(p)].selected
  BY <1>4, <1>5
<1>8. Flagged(w)
  <2>1. \A q \in w.selection : q \in 1..n-1 /\ w.items[q].selected
    BY <1>2, <1>5, <1>7
  <2>2. \A q \in 1..n-1 : w.items[q].selected => q \in w.selection
    BY <1>2, <1>6
  <2> QED  BY <1>3, <2>1, <2>2 DEF Flagged
<1>9. SelectedFiles(w) = {v.items[p].file : p \in v.selection \ {pos}}
  <2>1. SelectedFiles(w) = {w.items[After(p)].file : p \in v.selection \ {pos}}
    BY <1>2 DEF SelectedFiles
  <2> QED  BY <1>5, <2>1
<1> QED  BY <1>8, <1>9 DEF w

(* model_row_inserted_cb *)
LEMMA InsertedSelection ==
    ASSUME NEW F, NEW K, NEW v \in Views(F, K), Flagged(v), ~ v.crashed,
           NEW pos \in 1..Len(v.items)+1, NEW item \in GridItems(F, K), ~ item.selected
    PROVE  LET w == RowInserted(v, pos, item)
           IN  Flagged(w) /\ SelectedFiles(w) = SelectedFiles(v)
<1> DEFINE w == RowInserted(v, pos, item)
           After(p) == IF p >= pos THEN p + 1 ELSE p
           n == Len(v.items)
<1>1. n \in Nat /\ DOMAIN v.items = 1..n /\ v.items \in Seq(GridItems(F, K)) /\ pos \in 1..n+1
  BY ViewFacts
<1>2. /\ w.items = InsertAt(v.items, pos, item)
      /\ w.selection = {After(p) : p \in v.selection}
  BY DEF RowInserted, Views
<1>3. /\ w.items \in Seq(GridItems(F, K)) /\ DOMAIN w.items = 1..n+1
      /\ \A i \in 1..n+1 : w.items[i] = IF i < pos THEN v.items[i]
                                        ELSE IF i = pos THEN item ELSE v.items[i-1]
  <2>1. /\ InsertAt(v.items, pos, item) \in Seq(GridItems(F, K))
        /\ Len(InsertAt(v.items, pos, item)) = n + 1
        /\ \A i \in 1..n+1 :
              InsertAt(v.items, pos, item)[i] = IF i < pos THEN v.items[i]
                                                ELSE IF i = pos THEN item ELSE v.items[i-1]
    <3> DEFINE s == v.items
               I == GridItems(F, K)
    <3>1. s \in Seq(I) /\ pos \in 1..Len(s)+1 /\ item \in I
      BY <1>1
    <3> HIDE DEF s, I
    <3>2. /\ InsertAt(s, pos, item) \in Seq(I)
          /\ Len(InsertAt(s, pos, item)) = Len(s) + 1
          /\ \A i \in 1..Len(s)+1 :
                InsertAt(s, pos, item)[i] = IF i < pos THEN s[i]
                                            ELSE IF i = pos THEN item ELSE s[i-1]
      <4> DEFINE r == InsertAt(s, pos, item)
      <4>1. IsWith(r, s, pos, item, I)
        BY <3>1, InsertAtIsWith
      <4> HIDE DEF r
      <4>2. /\ r \in Seq(I) /\ Len(r) = Len(s) + 1
            /\ \A i \in 1..Len(s)+1 : r[i] = IF i < pos THEN s[i] ELSE IF i = pos THEN item ELSE s[i-1]
        BY <4>1 DEF IsWith
      <4> QED  BY <4>2 DEF r
    <3> QED  BY <3>2 DEF s, I
  <2> DEFINE x == InsertAt(v.items, pos, item)
  <2> HIDE DEF x
  <2>2. DOMAIN x = 1..n+1
    BY <1>1, <2>1 DEF x
  <2> QED  BY <1>2, <2>1, <2>2 DEF x
<1>4. v.selection = {p \in 1..n : v.items[p].selected}
  BY <1>1 DEF Flagged
<1> HIDE DEF w, n
<1>5. ASSUME NEW p \in v.selection
      PROVE  After(p) \in 1..n+1 /\ w.items[After(p)] = v.items[p]
  BY <1>1, <1>3, <1>4, SMTT(60)
<1>6. ASSUME NEW q \in 1..n+1, w.items[q].selected
      PROVE  \E p \in v.selection : q = After(p)
  <2> DEFINE p == IF q < pos THEN q ELSE q - 1
  <2>1. q # pos
    BY <1>3, <1>6
  <2>2. p \in 1..n /\ After(p) = q /\ w.items[q] = v.items[p]
    <3>1. CASE q < pos
      <4>1. q \in 1..n /\ p = q /\ ~ (p >= pos)
        BY <1>1, <3>1
      <4> QED  BY <1>3, <3>1, <4>1
    <3>2. CASE ~ (q < pos)
      <4>1. q - 1 \in 1..n /\ p = q - 1 /\ p >= pos /\ p + 1 = q
        BY <1>1, <2>1, <3>2
      <4> QED  BY <1>3, <2>1, <3>2, <4>1
    <3> QED  BY <3>1, <3>2
  <2>3. v.items[p].selected
    BY <1>6, <2>2
  <2> HIDE DEF p
  <2>4. p \in v.selection
    BY <1>4, <2>2, <2>3
  <2> QED  BY <2>2, <2>4
<1>7. ASSUME NEW p \in v.selection  PROVE w.items[After(p)].selected
  BY <1>4, <1>5
<1>8. Flagged(w)
  <2>1. \A q \in w.selection : q \in 1..n+1 /\ w.items[q].selected
    BY <1>2, <1>5, <1>7
  <2>2. \A q \in 1..n+1 : w.items[q].selected => q \in w.selection
    BY <1>2, <1>6
  <2> QED  BY <1>3, <2>1, <2>2 DEF Flagged
<1>9. SelectedFiles(w) = SelectedFiles(v)
  <2>1. SelectedFiles(w) = {w.items[After(p)].file : p \in v.selection}
    BY <1>2 DEF SelectedFiles
  <2> QED  BY <1>5, <2>1 DEF SelectedFiles
<1> QED  BY <1>8, <1>9 DEF w

(* model_rows_reordered_cb *)
LEMMA ReorderedSelection ==
    ASSUME NEW F, NEW K, NEW v \in Views(F, K), Flagged(v), ~ v.crashed,
           NEW order, IsOrder(order, Len(v.items))
    PROVE  LET w == RowsReordered(v, order)
           IN  Flagged(w) /\ SelectedFiles(w) = SelectedFiles(v)
<1> DEFINE w == RowsReordered(v, order)
           n == Len(v.items)
<1>1. n \in Nat /\ DOMAIN v.items = 1..n /\ DOMAIN order = 1..n
      /\ \A i \in 1..n : order[i] \in 1..n
  BY ViewFacts DEF IsOrder
<1>2. /\ w.items = [i \in 1..n |-> v.items[order[i]]]
      /\ w.selection = {i \in 1..n : order[i] \in v.selection}
  BY <1>1 DEF RowsReordered, Views
<1>3. v.selection = {p \in 1..n : v.items[p].selected}
  BY <1>1 DEF Flagged
<1>4. \A p \in 1..n : \E i \in 1..n : order[i] = p
  BY DEF IsOrder
<1> HIDE DEF w, n
<1>5. Flagged(w)
  BY <1>1, <1>2, <1>3 DEF Flagged
<1>6. SelectedFiles(w) = {v.items[order[i]].file : i \in w.selection}
  BY <1>2 DEF SelectedFiles
<1>7. \A x \in SelectedFiles(w) : x \in SelectedFiles(v)
  BY <1>2, <1>6 DEF SelectedFiles
<1>8. \A x \in SelectedFiles(v) : x \in SelectedFiles(w)
  <2> SUFFICES ASSUME NEW p \in v.selection  PROVE v.items[p].file \in SelectedFiles(w)
    BY DEF SelectedFiles
  <2>1. PICK i \in 1..n : order[i] = p
    BY <1>3, <1>4
  <2>2. i \in w.selection
    BY <1>2, <2>1
  <2> QED  BY <1>6, <2>1, <2>2
<1> QED  BY <1>5, <1>7, <1>8 DEF w

(* model_row_changed_cb and model_thumbnail_changed_cb *)
LEMMA ChangedSelection ==
    ASSUME NEW F, NEW K, NEW v \in Views(F, K), Flagged(v), ~ v.crashed,
           NEW pos \in DOMAIN v.items, NEW item \in GridItems(F, K), NEW t \in BOOLEAN
    PROVE  Flagged(RowChanged(v, pos, item)) /\ Flagged(ThumbnailChanged(v, pos, t))
<1> DEFINE n == Len(v.items)
<1>1. n \in Nat /\ DOMAIN v.items = 1..n /\ v.items \in Seq(GridItems(F, K)) /\ pos \in 1..n
  BY ViewFacts
<1>2. v.items \in [1..n -> GridItems(F, K)] /\ v.items[pos] \in GridItems(F, K)
  BY <1>1
<1>3. Flagged(RowChanged(v, pos, item))
  <2> DEFINE w == RowChanged(v, pos, item)
             new == [item EXCEPT !.selected = v.items[pos].selected]
  <2>1. w.items = [v.items EXCEPT ![pos] = new] /\ w.selection = v.selection
    BY DEF RowChanged, Views
  <2>2. new.selected = v.items[pos].selected
    BY DEF GridItems
  <2> HIDE DEF w, new
  <2>3. DOMAIN w.items = 1..n /\ \A i \in 1..n : w.items[i].selected = v.items[i].selected
    BY <1>1, <1>2, <2>1, <2>2
  <2>4. Flagged(w)
    BY <1>1, <2>1, <2>3 DEF Flagged
  <2> QED  BY <2>4 DEF w
<1>4. Flagged(ThumbnailChanged(v, pos, t))
  <2> DEFINE w == ThumbnailChanged(v, pos, t)
             new == [v.items[pos] EXCEPT !.thumb = t]
  <2>1. w.items = [v.items EXCEPT ![pos] = new] /\ w.selection = v.selection
    BY DEF ThumbnailChanged, Views
  <2>2. new.selected = v.items[pos].selected
    BY <1>2 DEF GridItems
  <2> HIDE DEF w, new
  <2>3. DOMAIN w.items = 1..n /\ \A i \in 1..n : w.items[i].selected = v.items[i].selected
    BY <1>1, <1>2, <2>1, <2>2
  <2>4. Flagged(w)
    BY <1>1, <2>1, <2>3 DEF Flagged
  <2> QED  BY <2>4 DEF w
<1> QED  BY <1>3, <1>4

(* _gth_grid_view_set_item_selected *)
LEMMA ItemSelected ==
    ASSUME NEW F, NEW K, NEW v \in Views(F, K), Flagged(v),
           NEW pos \in DOMAIN v.items, NEW selected \in BOOLEAN
    PROVE  Flagged(SetItemSelected(v, selected, pos))
<1> DEFINE n == Len(v.items)
           w == SetItemSelected(v, selected, pos)
           new == [v.items[pos] EXCEPT !.selected = selected]
<1>1. n \in Nat /\ DOMAIN v.items = 1..n /\ v.items \in Seq(GridItems(F, K)) /\ pos \in 1..n
  BY ViewFacts
<1>2. v.items \in [1..n -> GridItems(F, K)] /\ v.items[pos] \in GridItems(F, K)
  BY <1>1
<1>3. v.selection = {p \in 1..n : v.items[p].selected}
  BY <1>1 DEF Flagged
<1>4. CASE v.items[pos].selected = selected
  BY <1>4 DEF SetItemSelected
<1>5. CASE v.items[pos].selected # selected
  <2>1. /\ w.items = [v.items EXCEPT ![pos] = new]
        /\ w.selection = IF selected THEN v.selection \union {pos} ELSE v.selection \ {pos}
    BY <1>5 DEF SetItemSelected, Views
  <2>2. new.selected = selected
    BY <1>2 DEF GridItems
  <2> HIDE DEF w, new
  <2>3. /\ DOMAIN w.items = 1..n /\ w.items[pos].selected = selected
        /\ \A i \in 1..n : i # pos => w.items[i].selected = v.items[i].selected
    BY <1>1, <1>2, <2>1, <2>2
  <2>4. Flagged(w)
    <3>1. CASE selected
      BY <1>1, <1>3, <2>1, <2>3, <3>1, ZenonT(30) DEF Flagged
    <3>2. CASE ~ selected
      BY <1>1, <1>3, <2>1, <2>3, <3>2 DEF Flagged
    <3> QED  BY <3>1, <3>2
  <2> QED  BY <2>4 DEF w
<1> QED  BY <1>4, <1>5

-----------------------------------------------------------------------------
(* The theorems *)

\* The handlers of gth-grid-view.c change the flags and the list of positions in
\* different ways, an item at a time: after any signal of the store, and a click on
\* an item, they say the same.
THEOREM SignalsKeepFlags ==
    ASSUME NEW F, NEW K, NEW v \in Views(F, K), Flagged(v), ~ v.crashed
    PROVE  /\ \A pos \in DOMAIN v.items :
                 Flagged(RowDeleted(v, pos)) /\ Flagged(Toggle(v, pos))
           /\ \A pos \in 1..Len(v.items)+1, f \in F, k \in K, t \in BOOLEAN :
                 Flagged(RowInserted(v, pos, Item(f, k, t)))
           /\ \A order : IsOrder(order, Len(v.items)) => Flagged(RowsReordered(v, order))
           /\ \A pos \in DOMAIN v.items, item \in GridItems(F, K), t \in BOOLEAN :
                 Flagged(RowChanged(v, pos, item)) /\ Flagged(ThumbnailChanged(v, pos, t))
<1>1. ASSUME NEW pos \in DOMAIN v.items
      PROVE  Flagged(RowDeleted(v, pos)) /\ Flagged(Toggle(v, pos))
  <2>1. Flagged(RowDeleted(v, pos))
    BY DeletedSelection
  <2>2. (~ v.items[pos].selected) \in BOOLEAN
    OBVIOUS
  <2>3. Flagged(Toggle(v, pos))
    BY <2>2, ItemSelected DEF Toggle
  <2> QED  BY <2>1, <2>3
<1>2. ASSUME NEW pos \in 1..Len(v.items)+1, NEW f \in F, NEW k \in K, NEW t \in BOOLEAN
      PROVE  Flagged(RowInserted(v, pos, Item(f, k, t)))
  <2>1. Item(f, k, t) \in GridItems(F, K) /\ ~ Item(f, k, t).selected
    BY DEF Item, GridItems
  <2> QED  BY <2>1, InsertedSelection
<1>3. ASSUME NEW order, IsOrder(order, Len(v.items))
      PROVE  Flagged(RowsReordered(v, order))
  BY <1>3, ReorderedSelection
<1> QED  BY <1>1, <1>2, <1>3, ChangedSelection

\* The positions of the selected items move with their files: a signal selects no
\* file, and a file loses its selection only with its row.
THEOREM SelectionStaysWithFiles ==
    ASSUME NEW F, NEW K, NEW v \in Views(F, K), Flagged(v), ~ v.crashed
    PROVE  /\ \A pos \in DOMAIN v.items :
                 SelectedFiles(RowDeleted(v, pos)) =
                     {v.items[p].file : p \in v.selection \ {pos}}
           /\ \A pos \in 1..Len(v.items)+1, f \in F, k \in K, t \in BOOLEAN :
                 SelectedFiles(RowInserted(v, pos, Item(f, k, t))) = SelectedFiles(v)
           /\ \A order : IsOrder(order, Len(v.items)) =>
                 SelectedFiles(RowsReordered(v, order)) = SelectedFiles(v)
<1>1. ASSUME NEW pos \in 1..Len(v.items)+1, NEW f \in F, NEW k \in K, NEW t \in BOOLEAN
      PROVE  SelectedFiles(RowInserted(v, pos, Item(f, k, t))) = SelectedFiles(v)
  <2>1. Item(f, k, t) \in GridItems(F, K) /\ ~ Item(f, k, t).selected
    BY DEF Item, GridItems
  <2> QED  BY <2>1, InsertedSelection
<1> QED  BY <1>1, DeletedSelection, ReorderedSelection
-----------------------------------------------------------------------------
(* The signals, one at a time *)

\* a view that the program can draw, with items of G
Drawn(v, G) ==
    /\ v \in Views(Files, Keys) /\ v.items \in Seq(G)
    /\ Flagged(v) /\ ~ v.crashed

\* the files of the items
Shown(v) == [i \in DOMAIN v.items |-> v.items[i].file]

StoreItems == GridItems(Files, Keys)

LEMMA ShownFacts ==
    ASSUME NEW v \in Views(Files, Keys)
    PROVE  /\ Len(v.items) \in Nat /\ v.items \in Seq(StoreItems)
           /\ Shown(v) \in Seq(Files) /\ Len(Shown(v)) = Len(v.items)
           /\ \A i \in 1..Len(v.items) : v.items[i] \in StoreItems /\ Shown(v)[i] = v.items[i].file
<1>1. v.items \in Seq(StoreItems) /\ Len(v.items) \in Nat /\ DOMAIN v.items = 1..Len(v.items)
  BY DEF Views, StoreItems
<1>2. ASSUME NEW i \in 1..Len(v.items)
      PROVE  v.items[i] \in StoreItems /\ v.items[i].file \in Files
  <2>1. v.items[i] \in StoreItems
    BY <1>1
  <2> QED  BY <2>1 DEF StoreItems, GridItems
<1>3. Shown(v) \in [1..Len(v.items) -> Files] /\ \A i \in 1..Len(v.items) : Shown(v)[i] = v.items[i].file
  BY <1>1, <1>2 DEF Shown
<1> QED  BY <1>1, <1>2, <1>3

(* A sequence of items of G is one of items of the store. *)
LEMMA DrawnItems ==
    ASSUME NEW S, NEW G \in SUBSET S, NEW s \in Seq(G)
    PROVE  s \in Seq(S)
OBVIOUS

LEMMA DeletedFacts ==
    ASSUME NEW G \in SUBSET StoreItems, NEW v, Drawn(v, G), NEW pos \in 1..Len(v.items)
    PROVE  LET w == RowDeleted(v, pos)
           IN  /\ Drawn(w, G) /\ Len(w.items) = Len(v.items) - 1
               /\ Shown(w) = RemoveAt(Shown(v), pos)
               /\ IsInjective(Shown(v)) => SelectedFiles(w) = SelectedFiles(v) \ {Shown(v)[pos]}
<1> DEFINE w == RowDeleted(v, pos)
           n == Len(v.items)
           d == Shown(v)
<1>1. v \in Views(Files, Keys) /\ v.items \in Seq(G) /\ Flagged(v) /\ ~ v.crashed
  BY DEF Drawn
<1>2. n \in Nat /\ DOMAIN v.items = 1..n /\ pos \in 1..n
  BY <1>1, ViewFacts
<1>3. /\ w.items = RemoveAt(v.items, pos) /\ w.crashed = FALSE
      /\ w = [items |-> w.items, selection |-> w.selection, crashed |-> w.crashed]
      /\ w.selection = {IF p > pos THEN p - 1 ELSE p : p \in v.selection \ {pos}}
  <2>1. ~ (v.crashed \/ pos > Len(v.items))
    BY <1>1, <1>2
  <2>2. w = [v EXCEPT !.items = RemoveAt(@, pos),
                      !.selection = {IF p > pos THEN p - 1 ELSE p : p \in @ \ {pos}}]
    BY <2>1 DEF RowDeleted
  <2> HIDE DEF w
  <2> QED  BY <1>1, <2>2 DEF Views
<1>4. /\ w.items \in Seq(G) /\ Len(w.items) = n - 1
      /\ \A i \in 1..n-1 : w.items[i] = v.items[IF i < pos THEN i ELSE i + 1]
  BY <1>1, <1>3, RemoveAtFacts, SMTT(30)
<1>5. Flagged(w) /\ SelectedFiles(w) = {v.items[p].file : p \in v.selection \ {pos}}
  BY <1>1, <1>2, DeletedSelection
<1>6. w.selection \subseteq Nat
  <2>1. v.selection \subseteq 1..n
    BY <1>1, <1>2 DEF Flagged
  <2> HIDE DEF n, w
  <2> QED  BY <1>2, <1>3, <2>1
<1>7. w \in Views(Files, Keys)
  <2>1. w.items \in Seq(GridItems(Files, Keys))
    BY <1>4, DrawnItems DEF StoreItems
  <2> HIDE DEF w
  <2>2. [items |-> w.items, selection |-> w.selection, crashed |-> w.crashed] \in Views(Files, Keys)
    BY <1>3, <1>6, <2>1 DEF Views
  <2> QED  BY <1>3, <2>2
<1> HIDE DEF w
<1>8. Shown(w) = RemoveAt(d, pos)
  <2> DEFINE s == Shown(w)
             r == RemoveAt(d, pos)
  <2>1. d \in Seq(Files) /\ Len(d) = n /\ \A i \in 1..n : d[i] = v.items[i].file
    BY <1>1, ShownFacts
  <2>2. s \in Seq(Files) /\ Len(s) = n - 1 /\ \A i \in 1..n-1 : s[i] = w.items[i].file
    BY <1>4, <1>7, ShownFacts
  <2> HIDE DEF d, n
  <2>3. pos \in 1..Len(d)
    BY <1>2, <2>1
  <2>4. r \in Seq(Files) /\ Len(r) = n - 1 /\ \A i \in 1..n-1 : r[i] = d[IF i < pos THEN i ELSE i + 1]
    BY <2>1, <2>3, RemoveAtFacts
  <2> HIDE DEF s, r
  <2>5. ASSUME NEW i \in 1..n-1  PROVE s[i] = r[i]
    <3>1. (IF i < pos THEN i ELSE i + 1) \in 1..n
      BY <1>2
    <3> QED  BY <1>4, <2>1, <2>2, <2>4, <3>1
  <2>6. s = r
    BY <2>2, <2>4, <2>5, SeqEqual
  <2> QED  BY <2>6 DEF s, r
<1>9. ASSUME IsInjective(d)  PROVE SelectedFiles(w) = SelectedFiles(v) \ {d[pos]}
  <2>1. d \in Seq(Files) /\ Len(d) = n /\ \A i \in 1..n : d[i] = v.items[i].file
    BY <1>1, ShownFacts
  <2>2. \A i, j \in 1..n : d[i] = d[j] => i = j
    BY <1>9, <2>1, PlacesOf
  <2>3. v.selection \subseteq 1..n
    BY <1>1, <1>2 DEF Flagged
  <2>4. SelectedFiles(v) = {d[p] : p \in v.selection}
    BY <2>1, <2>3 DEF SelectedFiles
  <2>5. SelectedFiles(w) = {d[p] : p \in v.selection \ {pos}}
    BY <1>5, <2>1, <2>3
  <2> HIDE DEF d, n
  <2> QED  BY <1>2, <2>2, <2>3, <2>4, <2>5
<1> QED  BY <1>3, <1>4, <1>5, <1>7, <1>8, <1>9 DEF Drawn, w

LEMMA InsertedFacts ==
    ASSUME NEW G \in SUBSET StoreItems, NEW v, Drawn(v, G), NEW pos \in 1..Len(v.items)+1,
           NEW item \in G, ~ item.selected
    PROVE  LET w == RowInserted(v, pos, item)
           IN  /\ Drawn(w, G) /\ Len(w.items) = Len(v.items) + 1
               /\ Shown(w) = InsertAt(Shown(v), pos, item.file)
               /\ SelectedFiles(w) = SelectedFiles(v)
<1> DEFINE w == RowInserted(v, pos, item)
           n == Len(v.items)
           d == Shown(v)
<1>1. v \in Views(Files, Keys) /\ v.items \in Seq(G) /\ Flagged(v) /\ ~ v.crashed
  BY DEF Drawn
<1>2. n \in Nat /\ DOMAIN v.items = 1..n /\ pos \in 1..n+1 /\ item \in GridItems(Files, Keys)
  BY <1>1, ViewFacts DEF StoreItems
<1>3. /\ w.items = InsertAt(v.items, pos, item) /\ w.crashed = FALSE
      /\ w = [items |-> w.items, selection |-> w.selection, crashed |-> w.crashed]
      /\ w.selection = {IF p >= pos THEN p + 1 ELSE p : p \in v.selection}
  BY <1>1 DEF RowInserted, Views
<1>4. /\ w.items \in Seq(G) /\ Len(w.items) = n + 1
      /\ \A i \in 1..n+1 : w.items[i] = IF i < pos THEN v.items[i]
                                        ELSE IF i = pos THEN item ELSE v.items[i-1]
  <2> DEFINE s == v.items
  <2>1. s \in Seq(G)
    BY <1>1
  <2>2. pos \in 1..Len(s)+1
    BY <1>2
  <2> HIDE DEF s
  <2>3. /\ InsertAt(s, pos, item) \in Seq(G) /\ Len(InsertAt(s, pos, item)) = Len(s) + 1
        /\ \A i \in 1..Len(s)+1 : InsertAt(s, pos, item)[i] =
              IF i < pos THEN s[i] ELSE IF i = pos THEN item ELSE s[i-1]
    <3> DEFINE r == InsertAt(s, pos, item)
    <3>1. IsWith(r, s, pos, item, G)
      BY <2>1, <2>2, InsertAtIsWith
    <3> HIDE DEF r
    <3>2. /\ r \in Seq(G) /\ Len(r) = Len(s) + 1
          /\ \A i \in 1..Len(s)+1 : r[i] = IF i < pos THEN s[i] ELSE IF i = pos THEN item ELSE s[i-1]
      BY <3>1 DEF IsWith
    <3> QED  BY <3>2 DEF r
  <2> QED  BY <1>3, <2>3 DEF s
<1>5. Flagged(w) /\ SelectedFiles(w) = SelectedFiles(v)
  BY <1>1, <1>2, InsertedSelection
<1>6. w.selection \subseteq Nat
  <2>1. v.selection \subseteq 1..n
    BY <1>1, <1>2 DEF Flagged
  <2> HIDE DEF n, w
  <2> QED  BY <1>2, <1>3, <2>1
<1>7. w \in Views(Files, Keys)
  <2>1. w.items \in Seq(GridItems(Files, Keys))
    BY <1>4, DrawnItems DEF StoreItems
  <2> HIDE DEF w
  <2>2. [items |-> w.items, selection |-> w.selection, crashed |-> w.crashed] \in Views(Files, Keys)
    BY <1>3, <1>6, <2>1 DEF Views
  <2> QED  BY <1>3, <2>2
<1> HIDE DEF w
<1>8. Shown(w) = InsertAt(d, pos, item.file)
  <2> DEFINE s == Shown(w)
             f == item.file
             r == InsertAt(d, pos, f)
  <2>1. d \in Seq(Files) /\ Len(d) = n /\ \A i \in 1..n : d[i] = v.items[i].file
    BY <1>1, ShownFacts
  <2>2. s \in Seq(Files) /\ Len(s) = n + 1 /\ \A i \in 1..n+1 : s[i] = w.items[i].file
    BY <1>4, <1>7, ShownFacts
  <2>3. f \in Files
    BY <1>2 DEF GridItems
  <2> HIDE DEF d, n, f
  <2>4. pos \in 1..Len(d)+1
    BY <1>2, <2>1
  <2>5. d \in Seq(Files)
    BY <2>1
  <2>6. /\ r \in Seq(Files) /\ Len(r) = Len(d) + 1
        /\ \A i \in 1..Len(d)+1 : r[i] = IF i < pos THEN d[i] ELSE IF i = pos THEN f ELSE d[i-1]
    <3>1. IsWith(r, d, pos, f, Files)
      BY <2>3, <2>4, <2>5, InsertAtIsWith
    <3> HIDE DEF r
    <3> QED  BY <3>1 DEF IsWith
  <2> HIDE DEF s, r
  <2>7. ASSUME NEW i \in 1..n+1  PROVE s[i] = r[i]
    <3>1. r[i] = IF i < pos THEN d[i] ELSE IF i = pos THEN f ELSE d[i-1]
      BY <2>1, <2>6
    <3>2. s[i] = (IF i < pos THEN v.items[i] ELSE IF i = pos THEN item ELSE v.items[i-1]).file
      BY <1>4, <2>2
    <3>3. CASE i < pos
      <4>1. i \in 1..n
        BY <1>2, <3>3
      <4> QED  BY <2>1, <3>1, <3>2, <3>3, <4>1
    <3>4. CASE i = pos
      <4>1. ~ (i < pos)
        BY <1>2, <3>4
      <4> QED  BY <3>1, <3>2, <3>4, <4>1 DEF f
    <3>5. CASE i > pos
      <4>1. i - 1 \in 1..n /\ ~ (i < pos) /\ i # pos
        BY <1>2, <3>5
      <4> QED  BY <2>1, <3>1, <3>2, <4>1
    <3>6. i < pos \/ i = pos \/ i > pos
      BY <1>2
    <3> QED  BY <3>3, <3>4, <3>5, <3>6
  <2>8. s = r
    BY <2>1, <2>2, <2>6, <2>7, SeqEqual
  <2> QED  BY <2>8 DEF s, r, f
<1> QED  BY <1>3, <1>4, <1>5, <1>7, <1>8 DEF Drawn, w

\* w has the items of v where the permutation o takes them
Reorders(v, w, o) ==
    /\ Len(w.items) = Len(v.items)
    /\ Shown(w) = [i \in 1..Len(v.items) |-> Shown(v)[o[i]]]
    /\ SelectedFiles(w) = SelectedFiles(v)

LEMMA ReorderedFacts ==
    ASSUME NEW G \in SUBSET StoreItems, NEW v, Drawn(v, G), NEW order, IsOrder(order, Len(v.items))
    PROVE  LET w == RowsReordered(v, order) IN Drawn(w, G) /\ Reorders(v, w, order)
<1> USE DEF Reorders
<1> DEFINE w == RowsReordered(v, order)
           n == Len(v.items)
           d == Shown(v)
<1>1. v \in Views(Files, Keys) /\ v.items \in Seq(G) /\ Flagged(v) /\ ~ v.crashed
  BY DEF Drawn
<1>2. n \in Nat /\ DOMAIN v.items = 1..n /\ DOMAIN order = 1..n /\ \A i \in 1..n : order[i] \in 1..n
  BY <1>1, ViewFacts DEF IsOrder
<1>3. /\ w.items = [i \in 1..n |-> v.items[order[i]]] /\ w.crashed = FALSE
      /\ w = [items |-> w.items, selection |-> w.selection, crashed |-> w.crashed]
      /\ w.selection = {i \in 1..n : order[i] \in v.selection}
  BY <1>1, <1>2 DEF RowsReordered, Views
<1>4. w.items \in Seq(G) /\ Len(w.items) = n
  <2>1. \A i \in 1..n : v.items[i] \in G
    BY <1>1
  <2> HIDE DEF w, n
  <2>2. w.items \in [1..n -> G]
    BY <1>2, <1>3, <2>1
  <2> QED  BY <1>2, <2>2
<1>5. Flagged(w) /\ SelectedFiles(w) = SelectedFiles(v)
  BY <1>1, ReorderedSelection
<1>6. w.selection \subseteq Nat
  BY <1>2, <1>3
<1>7. w \in Views(Files, Keys)
  <2>1. w.items \in Seq(GridItems(Files, Keys))
    BY <1>4, DrawnItems DEF StoreItems
  <2> HIDE DEF w
  <2>2. [items |-> w.items, selection |-> w.selection, crashed |-> w.crashed] \in Views(Files, Keys)
    BY <1>3, <1>6, <2>1 DEF Views
  <2> QED  BY <1>3, <2>2
<1> HIDE DEF w
<1>8. Shown(w) = [i \in 1..n |-> d[order[i]]]
  <2>1. \A i \in 1..n : d[i] = v.items[i].file
    BY <1>1, ShownFacts
  <2>2. Shown(w) = [i \in 1..n |-> w.items[i].file]
    BY <1>3 DEF Shown
  <2> HIDE DEF d, n
  <2> QED  BY <1>2, <1>3, <2>1, <2>2
<1> QED  BY <1>3, <1>4, <1>5, <1>7, <1>8 DEF Drawn, w

-----------------------------------------------------------------------------
(* The signals of an operation, one after the other *)

(* The view after each signal. *)
Stages(done, v, s, N) ==
    /\ done[0] = v /\ done[N] = HandleAll(v, s)
    /\ \A n \in 0..N-1 : done[n+1] = Handle(done[n], s[n+1])

LEMMA HandleStages ==
    ASSUME NEW s, NEW N \in Nat, DOMAIN s = 1..N, NEW v
    PROVE  \E done : Stages(done, v, s, N)
<1> DEFINE Take(h, T) == Handle(h[T \ {Max(T)}], s[Max(T)])
           Step(h, T) == IF T = {} THEN v ELSE Take(h, T)
           Whole(h) == h = [T \in SUBSET DOMAIN s |-> Step(h, T)]
           Upto(h, n) == h = [T \in SUBSET (1..n) |-> IF T = {} THEN v ELSE Take(h, T)]
           Defined == {n \in 0..N : \E h : Upto(h, n)}
<1>1. HandleAll(v, s) = (CHOOSE h : Whole(h))[DOMAIN s]
  BY DEF HandleAll, FoldLeft, MapThenFoldSet
<1>2. 0 \in Defined
  <2>1. SUBSET (1..0) = {{}}
    OBVIOUS
  <2>2. Upto([T \in SUBSET (1..0) |-> v], 0)
    BY <2>1
  <2> HIDE DEF Upto
  <2> QED  BY <2>2
<1>3. ASSUME NEW n \in 0..N-1, n \in Defined  PROVE n + 1 \in Defined
  <2>1. PICK h : Upto(h, n)
    BY <1>3
  <2> DEFINE g == [T \in SUBSET (1..n+1) |-> IF n + 1 \in T THEN Take(h, T) ELSE h[T]]
  <2>2. ASSUME NEW T \in SUBSET (1..n+1)  PROVE g[T] = IF T = {} THEN v ELSE Take(g, T)
    <3>1. CASE n + 1 \in T
      <4>1. Max(T) = n + 1
        BY <3>1, MaxUpTo
      <4>2. T \ {n+1} \in SUBSET (1..n+1) /\ n + 1 \notin T \ {n+1}
        OBVIOUS
      <4> QED  BY <3>1, <4>1, <4>2
    <3>2. CASE n + 1 \notin T
      <4>1. T \in SUBSET (1..n)
        BY <3>2
      <4>2. g[T] = h[T] /\ h[T] = IF T = {} THEN v ELSE Take(h, T)
        BY <2>1, <3>2, <4>1
      <4>3. ASSUME T # {}  PROVE g[T \ {Max(T)}] = h[T \ {Max(T)}]
        <5> DEFINE R == T \ {Max(T)}
        <5>1. R \in SUBSET (1..n+1) /\ n + 1 \notin R
          BY <3>2
        <5> HIDE DEF R
        <5>2. g[R] = h[R]
          BY <5>1
        <5> QED  BY <5>2 DEF R
      <4> QED  BY <4>2, <4>3
    <3> QED  BY <3>1, <3>2
  <2>3. Upto(g, n + 1)
    BY <2>2
  <2> HIDE DEF g
  <2>4. \E f : Upto(f, n + 1)
    BY <2>3
  <2> HIDE DEF Upto
  <2> QED  BY <2>4
<1>4. \E h : Whole(h)
  <2>1. N \in Defined
    <3> HIDE DEF Defined
    <3>1. 0..N \subseteq Defined
      BY <1>2, <1>3, InductionUpTo
    <3> QED  BY <3>1
  <2> QED  BY <2>1
<1> DEFINE iter == CHOOSE h : Whole(h)
<1>5. Whole(iter)
  BY <1>4
<1> HIDE DEF iter
<1> DEFINE done == [n \in 0..N |-> iter[1..n]]
<1>6. done[0] = v
  <2>1. 1..0 = {} /\ {} \in SUBSET DOMAIN s
    OBVIOUS
  <2> QED  BY <1>5, <2>1
<1>7. ASSUME NEW n \in 0..N-1
      PROVE  done[n+1] = Handle(done[n], s[n+1])
  <2>1. 1..n+1 \in SUBSET DOMAIN s /\ 1..n+1 # {} /\ (1..n+1) \ {n+1} = 1..n
    OBVIOUS
  <2>2. Max(1..n+1) = n + 1
    BY MaxUpTo
  <2>3. iter[1..n+1] = Take(iter, 1..n+1)
    BY <1>5, <2>1
  <2>4. done[n] = iter[1..n] /\ done[n+1] = iter[1..n+1]
    OBVIOUS
  <2> HIDE DEF done
  <2> QED  BY <2>1, <2>2, <2>3, <2>4
<1>8. done[N] = HandleAll(v, s)
  BY <1>1 DEF iter
<1>9. Stages(done, v, s, N)
  <2> HIDE DEF done
  <2> QED  BY <1>6, <1>7, <1>8 DEF Stages
<1> HIDE DEF done
<1> QED  BY <1>9

\* a view that is drawn, with n items, unless it crashed
ViewOK(v, n) ==
    /\ v \in Views(Files, Keys) /\ v.selection \subseteq DOMAIN v.items
    /\ ~ v.crashed => Drawn(v, StoreItems) /\ Len(v.items) = n

LEMMA RemoveAtRange ==
    ASSUME NEW S, NEW s \in Seq(S), IsInjective(s), NEW p \in 1..Len(s)
    PROVE  /\ RemoveAt(s, p) \in Seq(S) /\ IsInjective(RemoveAt(s, p))
           /\ RemoveAt(s, p) = Keep(s, S \ {s[p]})
           /\ Range(RemoveAt(s, p)) = Range(s) \ {s[p]}
<1> DEFINE A == S \ {s[p]}
           r == Keep(s, A)
<1>1. BeginsIn(s, p, S)
  BY DEF BeginsIn
<1>2. Keep(s, S) = s
  BY PlacesOf, KeepWhole
<1>3. RemoveAt(s, p) = r
  <2>1. RemoveAt(Keep(s, S), p) = Keep(s, S \ {s[p]})
    BY <1>1, KeepWithout
  <2> QED  BY <1>2, <2>1
<1>4. r \in Seq(S) /\ IsInjective(r) /\ Range(r) = Range(s) \intersect A
  <2> HIDE DEF A
  <2> QED  BY KeepFacts
<1>5. Range(s) \subseteq S
  BY PlacesOf
<1> HIDE DEF r
<1> QED  BY <1>3, <1>4, <1>5 DEF r

DeletionsAt(pos, N)         == [n \in 1..N |-> Deleted(pos[n])]
InsertionsAt(pos, items, N) == [n \in 1..N |-> Inserted(pos[n], items[n])]

ArePlaces(pos, N)   == \A n \in 1..N : pos[n] \in Nat \ {0}
RemovedFrom(v, q, pos, N) == q[0] = Shown(v) /\ Removals(q, pos, N)
AreNew(items, N, G) == \A n \in 1..N : items[n] \in G /\ ~ items[n].selected

\* w shows the files s: what is left of those of v, or more than those
Leaves(v, w, s) ==
    /\ Shown(w) = s
    /\ IsInjective(Shown(v)) => SelectedFiles(w) = SelectedFiles(v) \intersect Range(s)
Gains(v, w, s) == Shown(w) = s /\ SelectedFiles(w) = SelectedFiles(v)

(* The items whose rows are deleted, as many as there are positions of rows. *)
LEMMA DeletionsShow ==
    ASSUME NEW G \in SUBSET StoreItems, NEW v, Drawn(v, G), NEW N \in Nat,
           NEW pos, NEW q, RemovedFrom(v, q, pos, N),
           NEW signals, signals = DeletionsAt(pos, N)
    PROVE  LET w == HandleAll(v, signals)
           IN  Drawn(w, G) /\ Leaves(v, w, q[N])
<1> USE DEF DeletionsAt, RemovedFrom, Leaves
<1> DEFINE d == Shown(v)
           Sel == SelectedFiles(v)
           Good(w, n) ==
               /\ Drawn(w, G) /\ Shown(w) = q[n]
               /\ IsInjective(d) => IsInjective(q[n]) /\ SelectedFiles(w) = Sel \intersect Range(q[n])
<1>1. PICK done : /\ done[0] = v /\ done[N] = HandleAll(v, signals)
                  /\ \A n \in 0..N-1 : done[n+1] = Handle(done[n], signals[n+1])
  <2>1. DOMAIN signals = 1..N
    OBVIOUS
  <2>2. PICK done : Stages(done, v, signals, N)
    BY <2>1, HandleStages
  <2> QED  BY <2>2 DEF Stages
<1>2. Good(done[0], 0)
  <2>1. v \in Views(Files, Keys) /\ Flagged(v)
    BY DEF Drawn
  <2>2. Sel \subseteq Range(d)
    <3>1. d \in Seq(Files) /\ Len(d) = Len(v.items) /\ \A i \in 1..Len(d) : d[i] = v.items[i].file
      BY <2>1, ShownFacts
    <3>2. v.selection \subseteq 1..Len(v.items)
      BY <2>1, ViewFacts DEF Flagged
    <3> HIDE DEF d
    <3>3. \A p \in v.selection : v.items[p].file \in Range(d)
      BY <3>1, <3>2, PlacesOf
    <3> QED  BY <3>3 DEF SelectedFiles
  <2> QED  BY <1>1, <2>2
<1>3. ASSUME NEW n \in 0..N-1, Good(done[n], n)  PROVE Good(done[n+1], n + 1)
  <2> DEFINE u == done[n]
             p == pos[n+1]
             s == q[n]
             w == RowDeleted(u, p)
  <2>1. n + 1 \in 1..N
    OBVIOUS
  <2>2. done[n+1] = w
    <3>1. signals[n+1] = Deleted(p)
      BY <2>1
    <3>2. Handle(u, Deleted(p)) = RowDeleted(u, p)
      BY DEF Handle, Deleted
    <3> QED  BY <1>1, <3>1, <3>2
  <2>3. Drawn(u, G) /\ Shown(u) = s
    BY <1>3
  <2>4. p \in 1..Len(s) /\ q[n+1] = RemoveAt(s, p)
    BY DEF Removals
  <2>5. u \in Views(Files, Keys)
    BY <2>3 DEF Drawn
  <2> HIDE DEF u, p, s
  <2>6. s \in Seq(Files) /\ Len(s) = Len(u.items)
    BY <2>3, <2>5, ShownFacts
  <2>7. p \in 1..Len(u.items)
    BY <2>4, <2>6
  <2>8. /\ Drawn(w, G) /\ Shown(w) = RemoveAt(s, p)
        /\ IsInjective(s) => SelectedFiles(w) = SelectedFiles(u) \ {s[p]}
    BY <2>3, <2>7, DeletedFacts
  <2> HIDE DEF w
  <2>9. ASSUME IsInjective(d)
        PROVE  /\ IsInjective(q[n+1])
               /\ SelectedFiles(w) = Sel \intersect Range(q[n+1])
    <3>1. IsInjective(s) /\ SelectedFiles(u) = Sel \intersect Range(s)
      BY <1>3, <2>9 DEF u, s
    <3>2. IsInjective(RemoveAt(s, p)) /\ Range(RemoveAt(s, p)) = Range(s) \ {s[p]}
      BY <2>4, <2>6, <3>1, RemoveAtRange
    <3> HIDE DEF Sel
    <3> QED  BY <2>4, <2>8, <3>1, <3>2
  <2> QED  BY <2>2, <2>4, <2>8, <2>9
<1>4. Good(done[N], N)
  <2> DEFINE T == {n \in 0..N : Good(done[n], n)}
  <2> HIDE DEF Good
  <2>1. 0 \in T
    BY <1>2
  <2>2. ASSUME NEW n \in 0..N-1, n \in T  PROVE n + 1 \in T
    BY <1>3, <2>2
  <2> HIDE DEF T
  <2>3. 0..N \subseteq T
    BY <2>1, <2>2, InductionUpTo
  <2>4. N \in T
    BY <2>3
  <2> QED  BY <2>4 DEF T
<1> QED  BY <1>1, <1>4

(* Whatever the positions are, the view is drawn or the program has crashed. *)
LEMMA DeletionsSafe ==
    ASSUME NEW L \in Nat, NEW v, ViewOK(v, L), NEW N \in 0..L,
           NEW pos, ArePlaces(pos, N),
           NEW signals, signals = DeletionsAt(pos, N)
    PROVE  ViewOK(HandleAll(v, signals), L - N)
<1> USE DEF DeletionsAt, ArePlaces
<1>1. PICK done : /\ done[0] = v /\ done[N] = HandleAll(v, signals)
                  /\ \A n \in 0..N-1 : done[n+1] = Handle(done[n], signals[n+1])
  <2>1. DOMAIN signals = 1..N /\ N \in Nat
    OBVIOUS
  <2>2. PICK done : Stages(done, v, signals, N)
    BY <2>1, HandleStages
  <2> QED  BY <2>2 DEF Stages
<1>2. ViewOK(done[0], L - 0)
  BY <1>1
<1>3. ASSUME NEW n \in 0..N-1, ViewOK(done[n], L - n)
      PROVE  ViewOK(done[n+1], L - (n + 1))
  <2> DEFINE u == done[n]
             p == pos[n+1]
             w == RowDeleted(u, p)
             m == L - n
  <2>1. n + 1 \in 1..N /\ m \in Nat /\ L - (n + 1) = m - 1 /\ p \in Nat \ {0}
    OBVIOUS
  <2>2. done[n+1] = w
    <3>1. signals[n+1] = Deleted(p)
      BY <2>1
    <3>2. Handle(u, Deleted(p)) = RowDeleted(u, p)
      BY DEF Handle, Deleted
    <3> QED  BY <1>1, <3>1, <3>2
  <2>3. /\ u \in Views(Files, Keys) /\ u.selection \subseteq DOMAIN u.items
        /\ ~ u.crashed => Drawn(u, StoreItems) /\ Len(u.items) = m
    BY <1>3 DEF ViewOK
  <2>4. Len(u.items) \in Nat
    BY <2>3, ViewFacts
  <2> HIDE DEF u, p, w, m
  <2>5. CASE u.crashed \/ p > Len(u.items)
    <3>1. w = [u EXCEPT !.crashed = TRUE]
      BY <2>5 DEF RowDeleted, w
    <3>2. w \in Views(Files, Keys) /\ w.items = u.items /\ w.selection = u.selection /\ w.crashed
      BY <2>3, <3>1 DEF Views
    <3> QED  BY <2>2, <2>3, <3>2 DEF ViewOK
  <2>6. CASE ~ (u.crashed \/ p > Len(u.items))
    <3>1. p \in 1..Len(u.items)
      BY <2>1, <2>4, <2>6
    <3>2. Drawn(u, StoreItems) /\ Len(u.items) = m
      BY <2>3, <2>6
    <3>3. StoreItems \in SUBSET StoreItems
      OBVIOUS
    <3>4. Drawn(w, StoreItems) /\ Len(w.items) = Len(u.items) - 1
      BY <3>1, <3>2, <3>3, DeletedFacts DEF w
    <3>5. w \in Views(Files, Keys) /\ w.selection \subseteq DOMAIN w.items
      BY <3>4 DEF Drawn, Flagged
    <3> QED  BY <2>1, <2>2, <3>2, <3>4, <3>5 DEF ViewOK
  <2> QED  BY <2>5, <2>6
<1>4. ViewOK(done[N], L - N)
  <2> DEFINE T == {n \in 0..N : ViewOK(done[n], L - n)}
  <2>1. 0 \in T
    BY <1>2
  <2>2. ASSUME NEW n \in 0..N-1, n \in T  PROVE n + 1 \in T
    BY <1>3, <2>2
  <2> HIDE DEF T
  <2>3. N \in Nat
    OBVIOUS
  <2>4. 0..N \subseteq T
    BY <2>1, <2>2, <2>3, InductionUpTo
  <2>5. N \in T
    BY <2>3, <2>4
  <2> QED  BY <2>5 DEF T
<1> QED  BY <1>1, <1>4

\* q[n] is the list of files after those of n items were inserted at the positions pos
InsertedInto(v, q, pos, items, N) ==
    /\ q[0] = Shown(v)
    /\ \A n \in 0..N-1 : pos[n+1] \in 1..Len(q[n])+1
                          /\ q[n+1] = InsertAt(q[n], pos[n+1], items[n+1].file)

(* The items that are inserted for new rows. *)
LEMMA InsertionsShow ==
    ASSUME NEW G \in SUBSET StoreItems, NEW v, Drawn(v, G), NEW N \in Nat,
           NEW pos, NEW items, AreNew(items, N, G),
           NEW q, InsertedInto(v, q, pos, items, N),
           NEW signals, signals = InsertionsAt(pos, items, N)
    PROVE  LET w == HandleAll(v, signals)
           IN  Drawn(w, G) /\ Gains(v, w, q[N])
<1> USE DEF InsertionsAt, AreNew, InsertedInto, Gains
<1> DEFINE Good(w, n) == Drawn(w, G) /\ Shown(w) = q[n] /\ SelectedFiles(w) = SelectedFiles(v)
<1>1. PICK done : /\ done[0] = v /\ done[N] = HandleAll(v, signals)
                  /\ \A n \in 0..N-1 : done[n+1] = Handle(done[n], signals[n+1])
  <2>1. DOMAIN signals = 1..N
    OBVIOUS
  <2>2. PICK done : Stages(done, v, signals, N)
    BY <2>1, HandleStages
  <2> QED  BY <2>2 DEF Stages
<1>2. Good(done[0], 0)
  BY <1>1
<1>3. ASSUME NEW n \in 0..N-1, Good(done[n], n)  PROVE Good(done[n+1], n + 1)
  <2> DEFINE u == done[n]
             p == pos[n+1]
             item == items[n+1]
             s == q[n]
             w == RowInserted(u, p, item)
  <2>1. n + 1 \in 1..N
    OBVIOUS
  <2>2. done[n+1] = w
    <3>1. signals[n+1] = Inserted(p, item)
      BY <2>1
    <3>2. Handle(u, Inserted(p, item)) = RowInserted(u, p, item)
      BY DEF Handle, Inserted
    <3> QED  BY <1>1, <3>1, <3>2
  <2>3. Drawn(u, G) /\ Shown(u) = s /\ SelectedFiles(u) = SelectedFiles(v)
    BY <1>3
  <2>4. p \in 1..Len(s)+1 /\ q[n+1] = InsertAt(s, p, item.file)
    OBVIOUS
  <2>5. u \in Views(Files, Keys)
    BY <2>3 DEF Drawn
  <2>6. item \in G /\ ~ item.selected
    BY <2>1
  <2> HIDE DEF u, p, s, item
  <2>7. p \in 1..Len(u.items)+1
    <3>1. Len(s) = Len(u.items)
      BY <2>3, <2>5, ShownFacts
    <3> QED  BY <2>4, <3>1
  <2>8. /\ Drawn(w, G) /\ Shown(w) = InsertAt(Shown(u), p, item.file)
        /\ SelectedFiles(w) = SelectedFiles(u)
    BY <2>3, <2>6, <2>7, InsertedFacts
  <2> HIDE DEF w
  <2> QED  BY <2>2, <2>3, <2>4, <2>8
<1>4. Good(done[N], N)
  <2> DEFINE T == {n \in 0..N : Good(done[n], n)}
  <2> HIDE DEF Good
  <2>1. 0 \in T
    BY <1>2
  <2>2. ASSUME NEW n \in 0..N-1, n \in T  PROVE n + 1 \in T
    BY <1>3, <2>2
  <2> HIDE DEF T
  <2>3. 0..N \subseteq T
    BY <2>1, <2>2, InductionUpTo
  <2>4. N \in T
    BY <2>3
  <2> QED  BY <2>4 DEF T
<1> QED  BY <1>1, <1>4

LEMMA InsertionsSafe ==
    ASSUME NEW L \in Nat, NEW v, ViewOK(v, L), NEW N \in Nat,
           NEW pos, HavePlaces(pos, L, N),
           NEW items, AreNew(items, N, StoreItems),
           NEW signals, signals = InsertionsAt(pos, items, N)
    PROVE  ViewOK(HandleAll(v, signals), L + N)
<1> USE DEF InsertionsAt, AreNew, HavePlaces
<1>1. PICK done : /\ done[0] = v /\ done[N] = HandleAll(v, signals)
                  /\ \A n \in 0..N-1 : done[n+1] = Handle(done[n], signals[n+1])
  <2>1. DOMAIN signals = 1..N
    OBVIOUS
  <2>2. PICK done : Stages(done, v, signals, N)
    BY <2>1, HandleStages
  <2> QED  BY <2>2 DEF Stages
<1>2. ViewOK(done[0], L + 0)
  BY <1>1
<1>3. ASSUME NEW n \in 0..N-1, ViewOK(done[n], L + n)
      PROVE  ViewOK(done[n+1], L + (n + 1))
  <2> DEFINE u == done[n]
             p == pos[n+1]
             item == items[n+1]
             w == RowInserted(u, p, item)
             m == L + n
  <2>1. n + 1 \in 1..N /\ m \in Nat /\ L + (n + 1) = m + 1 /\ p \in 1..m+1
    OBVIOUS
  <2>2. done[n+1] = w
    <3>1. signals[n+1] = Inserted(p, item)
      BY <2>1
    <3>2. Handle(u, Inserted(p, item)) = RowInserted(u, p, item)
      BY DEF Handle, Inserted
    <3> QED  BY <1>1, <3>1, <3>2
  <2>3. /\ u \in Views(Files, Keys) /\ u.selection \subseteq DOMAIN u.items
        /\ ~ u.crashed => Drawn(u, StoreItems) /\ Len(u.items) = m
    BY <1>3 DEF ViewOK
  <2>4. item \in StoreItems /\ ~ item.selected
    BY <2>1
  <2> HIDE DEF u, p, w, m, item
  <2>5. CASE u.crashed
    <3>1. w = u
      BY <2>5 DEF RowInserted, w
    <3> QED  BY <2>2, <2>3, <2>5, <3>1 DEF ViewOK
  <2>6. CASE ~ u.crashed
    <3>1. Drawn(u, StoreItems) /\ Len(u.items) = m
      BY <2>3, <2>6
    <3>2. p \in 1..Len(u.items)+1
      BY <2>1, <3>1
    <3>3. StoreItems \in SUBSET StoreItems
      OBVIOUS
    <3>4. Drawn(w, StoreItems) /\ Len(w.items) = Len(u.items) + 1
      BY <2>4, <3>1, <3>2, <3>3, InsertedFacts DEF w
    <3>5. w \in Views(Files, Keys) /\ w.selection \subseteq DOMAIN w.items
      BY <3>4 DEF Drawn, Flagged
    <3> QED  BY <2>1, <2>2, <3>1, <3>4, <3>5 DEF ViewOK
  <2> QED  BY <2>5, <2>6
<1>4. ViewOK(done[N], L + N)
  <2> DEFINE T == {n \in 0..N : ViewOK(done[n], L + n)}
  <2>1. 0 \in T
    BY <1>2
  <2>2. ASSUME NEW n \in 0..N-1, n \in T  PROVE n + 1 \in T
    BY <1>3, <2>2
  <2> HIDE DEF T
  <2>3. 0..N \subseteq T
    BY <2>1, <2>2, InductionUpTo
  <2>4. N \in T
    BY <2>3
  <2> QED  BY <2>4 DEF T
<1> QED  BY <1>1, <1>4

\* w shows other data of the files marked, and is the same view otherwise
Retold(v, w, n) ==
    /\ w \in Views(Files, Keys) /\ Flagged(w) /\ ~ w.crashed /\ Len(w.items) = n
    /\ w.selection = v.selection

\* the item of f that replaces the item old
NewItem(k, t, f, old) == [RowItem(k, t, f) EXCEPT !.selected = old.selected]

(* The items of the rows that are marked as changed. *)
LEMMA ChangesShow ==
    ASSUME NEW v \in Views(Files, Keys), Flagged(v), ~ v.crashed,
           NEW s \in Seq(Files), IsInjective(s), Len(v.items) = Len(s),
           NEW marked, NEW k, NEW t,
           \A f \in Range(s) : k[f] \in Keys /\ t[f] \in BOOLEAN
    PROVE  LET w == ListChanged(s, marked, k, t, v)
           IN  /\ Retold(v, w, Len(s))
               /\ \A p \in 1..Len(s) :
                     w.items[p] = IF s[p] \in marked THEN NewItem(k, t, s[p], v.items[p])
                                  ELSE v.items[p]
<1> DEFINE told == Keep(s, marked)
           N == Len(told)
           L == Len(s)
           signals == [i \in 1..N |-> Changed(PosIn(s, told[i]), RowItem(k, t, told[i]))]
           Done(n) == {told[j] : j \in 1..n}
           Good(w, n) ==
               /\ Retold(v, w, L)
               /\ \A p \in 1..L : s[p] \in Done(n) => w.items[p] = NewItem(k, t, s[p], v.items[p])
               /\ \A p \in 1..L : s[p] \notin Done(n) => w.items[p] = v.items[p]
<1>1. /\ L \in Nat /\ N \in Nat /\ told \in Seq(Files) /\ Range(told) = Range(s) \intersect marked
      /\ IsInjective(told)
  <2>1. told \in Seq(Files) /\ Range(told) = Range(s) \intersect marked /\ IsInjective(told)
    BY KeepFacts
  <2> HIDE DEF told
  <2> QED  BY <2>1
<1>2. DOMAIN told = 1..N
  BY <1>1
<1>3. ListChanged(s, marked, k, t, v) = HandleAll(v, signals)
  BY <1>2 DEF ListChanged
<1> HIDE DEF told, N, L
<1>4. PICK done : /\ done[0] = v /\ done[N] = HandleAll(v, signals)
                  /\ \A n \in 0..N-1 : done[n+1] = Handle(done[n], signals[n+1])
  <2>1. DOMAIN signals = 1..N
    OBVIOUS
  <2> HIDE DEF signals
  <2>2. PICK done : Stages(done, v, signals, N)
    BY <1>1, <2>1, HandleStages
  <2> QED  BY <2>2 DEF Stages
<1>5. Good(done[0], 0)
  <2>1. Done(0) = {}
    OBVIOUS
  <2>2. Retold(v, v, L)
    BY DEF Retold, L
  <2> QED  BY <1>4, <2>1, <2>2
<1>6. ASSUME NEW n \in 0..N-1, Good(done[n], n)  PROVE Good(done[n+1], n + 1)
  <2> DEFINE u == done[n]
             f == told[n+1]
             p == PosIn(s, f)
             item == RowItem(k, t, f)
             w == RowChanged(u, p, item)
             new == [item EXCEPT !.selected = u.items[p].selected]
  <2>1. n + 1 \in 1..N
    BY <1>1
  <2>2. done[n+1] = w
    <3>1. signals[n+1] = Changed(p, item)
      BY <2>1
    <3>2. Handle(u, Changed(p, item)) = RowChanged(u, p, item)
      BY DEF Handle, Changed
    <3> QED  BY <1>4, <3>1, <3>2
  <2>3. /\ u \in Views(Files, Keys) /\ Flagged(u) /\ ~ u.crashed /\ Len(u.items) = L
        /\ u.selection = v.selection
    BY <1>6 DEF Retold
  <2>4. f \in Range(s) /\ f \in Files /\ Done(n + 1) = Done(n) \union {f}
    <3>1. f \in Range(told)
      BY <1>1, <2>1, PlacesOf DEF N
    <3>2. Range(s) \subseteq Files
      BY PlacesOf
    <3> QED  BY <1>1, <3>1, <3>2
  <2>5. p \in 1..L /\ s[p] = f /\ \A i \in 1..L : s[i] = f => i = p
    <3>1. p = CHOOSE a \in DOMAIN s : s[a] = f
      BY DEF PosIn
    <3> HIDE DEF f, p
    <3> QED  BY <2>4, <3>1, PlaceOf DEF L
  <2>6. item \in GridItems(Files, Keys)
    <3>1. k[f] \in Keys /\ t[f] \in BOOLEAN
      BY <2>4
    <3> HIDE DEF f
    <3> QED  BY <2>4, <3>1 DEF RowItem, Item, GridItems
  <2> HIDE DEF u, f, p, item
  <2>7. /\ u.items \in [1..L -> GridItems(Files, Keys)]
        /\ u.items[p] \in GridItems(Files, Keys)
    BY <2>3, <2>5, ViewFacts DEF L
  <2>8. /\ w = [items |-> w.items, selection |-> w.selection, crashed |-> w.crashed]
        /\ w.items = [u.items EXCEPT ![p] = new] /\ w.selection = u.selection /\ w.crashed = FALSE
    BY <2>3 DEF RowChanged, Views
  <2>9. new \in GridItems(Files, Keys) /\ new.selected = u.items[p].selected
    BY <2>6, <2>7 DEF GridItems
  <2>10. Flagged(w)
    <3>1. p \in DOMAIN u.items
      BY <2>5, <2>7
    <3>2. TRUE \in BOOLEAN
      OBVIOUS
    <3> QED  BY <2>3, <2>6, <3>1, <3>2, ChangedSelection
  <2> HIDE DEF w, new
  <2>11. w.items \in [1..L -> GridItems(Files, Keys)]
    BY <2>7, <2>8, <2>9
  <2>12. Retold(v, w, L)
    <3>1. w.items \in Seq(GridItems(Files, Keys)) /\ Len(w.items) = L
      <4> DEFINE I == GridItems(Files, Keys)
      <4> HIDE DEF I
      <4>1. w.items \in [1..L -> I] /\ L \in Nat
        BY <1>1, <2>11 DEF I
      <4>2. w.items \in Seq(I) /\ Len(w.items) = L
        BY <4>1
      <4> QED  BY <4>2 DEF I
    <3>2. w.selection \subseteq Nat
      BY <2>3, <2>8 DEF Views
    <3>3. [items |-> w.items, selection |-> w.selection, crashed |-> w.crashed] \in Views(Files, Keys)
      BY <2>8, <3>1, <3>2 DEF Views
    <3>4. w \in Views(Files, Keys)
      BY <2>8, <3>3
    <3> QED  BY <2>3, <2>8, <2>10, <3>1, <3>4 DEF Retold
  <2>13. w.items[p] = NewItem(k, t, f, v.items[p])
    <3>1. u.items[p].selected = v.items[p].selected
      <4>1. CASE s[p] \in Done(n)
        <5>1. u.items[p] = NewItem(k, t, s[p], v.items[p])
          BY <1>6, <2>5, <4>1 DEF u
        <5> QED  BY <5>1 DEF NewItem, RowItem, Item
      <4>2. CASE s[p] \notin Done(n)
        BY <1>6, <2>5, <4>2 DEF u
      <4> QED  BY <4>1, <4>2
    <3>2. w.items[p] = new
      BY <2>5, <2>7, <2>8
    <3> QED  BY <3>1, <3>2 DEF new, NewItem, item
  <2>14. ASSUME NEW i \in 1..L, s[i] # f
         PROVE  /\ s[i] \in Done(n + 1) => w.items[i] = NewItem(k, t, s[i], v.items[i])
                /\ s[i] \notin Done(n + 1) => w.items[i] = v.items[i]
    <3>1. w.items[i] = u.items[i]
      BY <2>5, <2>7, <2>8, <2>14
    <3>2. s[i] \in Done(n + 1) <=> s[i] \in Done(n)
      BY <2>4, <2>14
    <3> HIDE DEF Done
    <3> QED  BY <1>6, <3>1, <3>2 DEF u
  <2>15. f \in Done(n + 1)
    BY <2>4
  <2> HIDE DEF Done
  <2>16. ASSUME NEW i \in 1..L, s[i] = f
         PROVE  w.items[i] = NewItem(k, t, s[i], v.items[i])
    BY <2>5, <2>13, <2>16
  <2>17. Good(w, n + 1)
    BY <2>12, <2>14, <2>15, <2>16
  <2> QED  BY <2>2, <2>17
<1>7. Good(done[N], N)
  <2> DEFINE T == {n \in 0..N : Good(done[n], n)}
  <2> HIDE DEF Good
  <2>1. 0 \in T
    BY <1>1, <1>5
  <2>2. ASSUME NEW n \in 0..N-1, n \in T  PROVE n + 1 \in T
    BY <1>1, <1>6, <2>2
  <2> HIDE DEF T
  <2>3. 0..N \subseteq T
    BY <1>1, <2>1, <2>2, InductionUpTo
  <2>4. N \in T
    BY <1>1, <2>3
  <2> QED  BY <2>4 DEF T
<1>8. \A p \in 1..L : s[p] \in Done(N) <=> s[p] \in marked
  <2>1. Done(N) = Range(told)
    BY <1>1, <1>2 DEF Range
  <2>2. \A p \in 1..L : s[p] \in Range(s)
    BY PlacesOf DEF L
  <2> HIDE DEF Done
  <2> QED  BY <1>1, <2>1, <2>2
<1> HIDE DEF signals, Done
<1> QED  BY <1>3, <1>4, <1>7, <1>8 DEF L


\* the item old with the thumbnail of f
NewThumb(t, f, old) == [old EXCEPT !.thumb = t[f]]

ThumbnailsChanged(s, marked, t, v) ==
    LET told == Keep(s, marked)
    IN  HandleAll(v, [i \in DOMAIN told |-> Thumbnail(PosIn(s, told[i]), t[told[i]])])

(* The items of the rows whose thumbnail was loaded. *)
LEMMA ThumbnailsShow ==
    ASSUME NEW v \in Views(Files, Keys), Flagged(v), ~ v.crashed,
           NEW s \in Seq(Files), IsInjective(s), Len(v.items) = Len(s),
           NEW marked, NEW t,
           \A f \in Range(s) : t[f] \in BOOLEAN
    PROVE  LET w == ThumbnailsChanged(s, marked, t, v)
           IN  /\ Retold(v, w, Len(s))
               /\ \A p \in 1..Len(s) :
                     w.items[p] = IF s[p] \in marked THEN NewThumb(t, s[p], v.items[p])
                                  ELSE v.items[p]
<1> DEFINE told == Keep(s, marked)
           N == Len(told)
           L == Len(s)
           signals == [i \in 1..N |-> Thumbnail(PosIn(s, told[i]), t[told[i]])]
           Done(n) == {told[j] : j \in 1..n}
           Good(w, n) ==
               /\ Retold(v, w, L)
               /\ \A p \in 1..L : s[p] \in Done(n) => w.items[p] = NewThumb(t, s[p], v.items[p])
               /\ \A p \in 1..L : s[p] \notin Done(n) => w.items[p] = v.items[p]
<1>1. /\ L \in Nat /\ N \in Nat /\ told \in Seq(Files) /\ Range(told) = Range(s) \intersect marked
      /\ IsInjective(told)
  <2>1. told \in Seq(Files) /\ Range(told) = Range(s) \intersect marked /\ IsInjective(told)
    BY KeepFacts
  <2> HIDE DEF told
  <2> QED  BY <2>1
<1>2. DOMAIN told = 1..N
  BY <1>1
<1>3. ThumbnailsChanged(s, marked, t, v) = HandleAll(v, signals)
  BY <1>2 DEF ThumbnailsChanged
<1> HIDE DEF told, N, L
<1>4. PICK done : /\ done[0] = v /\ done[N] = HandleAll(v, signals)
                  /\ \A n \in 0..N-1 : done[n+1] = Handle(done[n], signals[n+1])
  <2>1. DOMAIN signals = 1..N
    OBVIOUS
  <2> HIDE DEF signals
  <2>2. PICK done : Stages(done, v, signals, N)
    BY <1>1, <2>1, HandleStages
  <2> QED  BY <2>2 DEF Stages
<1>5. Good(done[0], 0)
  <2>1. Done(0) = {}
    OBVIOUS
  <2>2. Retold(v, v, L)
    BY DEF Retold, L
  <2> QED  BY <1>4, <2>1, <2>2
<1>6. ASSUME NEW n \in 0..N-1, Good(done[n], n)  PROVE Good(done[n+1], n + 1)
  <2> DEFINE u == done[n]
             f == told[n+1]
             p == PosIn(s, f)
             x == t[f]
             w == ThumbnailChanged(u, p, x)
             new == [u.items[p] EXCEPT !.thumb = x]
  <2>1. n + 1 \in 1..N
    BY <1>1
  <2>2. done[n+1] = w
    <3>1. signals[n+1] = Thumbnail(p, x)
      BY <2>1
    <3>2. Handle(u, Thumbnail(p, x)) = ThumbnailChanged(u, p, x)
      BY DEF Handle, Thumbnail
    <3> QED  BY <1>4, <3>1, <3>2
  <2>3. /\ u \in Views(Files, Keys) /\ Flagged(u) /\ ~ u.crashed /\ Len(u.items) = L
        /\ u.selection = v.selection
    BY <1>6 DEF Retold
  <2>4. f \in Range(s) /\ f \in Files /\ Done(n + 1) = Done(n) \union {f}
    <3>1. f \in Range(told)
      BY <1>1, <2>1, PlacesOf DEF N
    <3>2. Range(s) \subseteq Files
      BY PlacesOf
    <3> QED  BY <1>1, <3>1, <3>2
  <2>5. p \in 1..L /\ s[p] = f /\ \A i \in 1..L : s[i] = f => i = p
    <3>1. p = CHOOSE a \in DOMAIN s : s[a] = f
      BY DEF PosIn
    <3> HIDE DEF f, p
    <3> QED  BY <2>4, <3>1, PlaceOf DEF L
  <2>6. x \in BOOLEAN
    BY <2>4
  <2>0. f \notin Done(n)
    <3>1. \A i, j \in 1..N : told[i] = told[j] => i = j
      BY <1>1, PlacesOf DEF N
    <3>2. \A j \in 1..n : j \in 1..N /\ j # n + 1
      BY <1>1
    <3> QED  BY <2>1, <3>1, <3>2
  <2> HIDE DEF u, f, p, x
  <2>7. /\ u.items \in [1..L -> GridItems(Files, Keys)]
        /\ u.items[p] \in GridItems(Files, Keys)
    BY <2>3, <2>5, ViewFacts DEF L
  <2>8. /\ w = [items |-> w.items, selection |-> w.selection, crashed |-> w.crashed]
        /\ w.items = [u.items EXCEPT ![p] = new] /\ w.selection = u.selection /\ w.crashed = FALSE
    BY <2>3 DEF ThumbnailChanged, Views
  <2>9. new \in GridItems(Files, Keys) /\ new.selected = u.items[p].selected
    BY <2>6, <2>7 DEF GridItems
  <2>10. Flagged(w)
    <3>1. p \in DOMAIN u.items
      BY <2>5, <2>7
    <3> QED  BY <2>3, <2>6, <2>7, <3>1, ChangedSelection
  <2> HIDE DEF w, new
  <2>11. w.items \in [1..L -> GridItems(Files, Keys)]
    BY <2>7, <2>8, <2>9
  <2>12. Retold(v, w, L)
    <3>1. w.items \in Seq(GridItems(Files, Keys)) /\ Len(w.items) = L
      <4> DEFINE I == GridItems(Files, Keys)
      <4> HIDE DEF I
      <4>1. w.items \in [1..L -> I] /\ L \in Nat
        BY <1>1, <2>11 DEF I
      <4>2. w.items \in Seq(I) /\ Len(w.items) = L
        BY <4>1
      <4> QED  BY <4>2 DEF I
    <3>2. w.selection \subseteq Nat
      BY <2>3, <2>8 DEF Views
    <3>3. [items |-> w.items, selection |-> w.selection, crashed |-> w.crashed] \in Views(Files, Keys)
      BY <2>8, <3>1, <3>2 DEF Views
    <3>4. w \in Views(Files, Keys)
      BY <2>8, <3>3
    <3> QED  BY <2>3, <2>8, <2>10, <3>1, <3>4 DEF Retold
  <2>13. w.items[p] = NewThumb(t, f, v.items[p])
    <3>1. u.items[p] = v.items[p]
      BY <1>6, <2>0, <2>5 DEF u
    <3>2. w.items[p] = new
      BY <2>5, <2>7, <2>8
    <3> QED  BY <3>1, <3>2 DEF new, NewThumb, x
  <2>14. ASSUME NEW i \in 1..L, s[i] # f
         PROVE  /\ s[i] \in Done(n + 1) => w.items[i] = NewThumb(t, s[i], v.items[i])
                /\ s[i] \notin Done(n + 1) => w.items[i] = v.items[i]
    <3>1. w.items[i] = u.items[i]
      BY <2>5, <2>7, <2>8, <2>14
    <3>2. s[i] \in Done(n + 1) <=> s[i] \in Done(n)
      BY <2>4, <2>14
    <3> HIDE DEF Done
    <3> QED  BY <1>6, <3>1, <3>2 DEF u
  <2>15. f \in Done(n + 1)
    BY <2>4
  <2> HIDE DEF Done
  <2>16. ASSUME NEW i \in 1..L, s[i] = f
         PROVE  w.items[i] = NewThumb(t, s[i], v.items[i])
    BY <2>5, <2>13, <2>16
  <2>17. Good(w, n + 1)
    BY <2>12, <2>14, <2>15, <2>16
  <2> QED  BY <2>2, <2>17
<1>7. Good(done[N], N)
  <2> DEFINE T == {n \in 0..N : Good(done[n], n)}
  <2> HIDE DEF Good
  <2>1. 0 \in T
    BY <1>1, <1>5
  <2>2. ASSUME NEW n \in 0..N-1, n \in T  PROVE n + 1 \in T
    BY <1>1, <1>6, <2>2
  <2> HIDE DEF T
  <2>3. 0..N \subseteq T
    BY <1>1, <2>1, <2>2, InductionUpTo
  <2>4. N \in T
    BY <1>1, <2>3
  <2> QED  BY <2>4 DEF T
<1>8. \A p \in 1..L : s[p] \in Done(N) <=> s[p] \in marked
  <2>1. Done(N) = Range(told)
    BY <1>1, <1>2 DEF Range
  <2>2. \A p \in 1..L : s[p] \in Range(s)
    BY PlacesOf DEF L
  <2> HIDE DEF Done
  <2> QED  BY <1>1, <2>1, <2>2
<1> HIDE DEF signals, Done
<1> QED  BY <1>3, <1>4, <1>7, <1>8 DEF L

\* w has the items of v, but for what is selected
SameRows(v, w) ==
    /\ Len(w.items) = Len(v.items)
    /\ \A i \in 1..Len(v.items) : /\ w.items[i].file = v.items[i].file
                                  /\ w.items[i].key = v.items[i].key
                                  /\ w.items[i].thumb = v.items[i].thumb

(* Selecting an item changes nothing else. *)
LEMMA SelectingShows ==
    ASSUME NEW v \in Views(Files, Keys), Flagged(v), ~ v.crashed,
           NEW pos \in 1..Len(v.items), NEW yes \in BOOLEAN
    PROVE  LET w == SetItemSelected(v, yes, pos)
           IN  w \in Views(Files, Keys) /\ Flagged(w) /\ ~ w.crashed /\ SameRows(v, w)
<1> DEFINE w == SetItemSelected(v, yes, pos)
           L == Len(v.items)
           I == GridItems(Files, Keys)
           new == [v.items[pos] EXCEPT !.selected = yes]
<1>1. L \in Nat /\ v.items \in [1..L -> I] /\ v.items[pos] \in I /\ v.selection \subseteq Nat
  BY ViewFacts
<1>2. Flagged(w)
  BY <1>1, ViewFacts, ItemSelected
<1>3. CASE v.items[pos].selected = yes
  BY <1>3 DEF SetItemSelected, SameRows
<1>4. CASE v.items[pos].selected # yes
  <2>1. /\ w = [items |-> w.items, selection |-> w.selection, crashed |-> w.crashed]
        /\ w.items = [v.items EXCEPT ![pos] = new] /\ w.crashed = FALSE
        /\ w.selection = IF yes THEN v.selection \union {pos} ELSE v.selection \ {pos}
    BY <1>4 DEF SetItemSelected, Views
  <2>2. /\ new \in I /\ new.file = v.items[pos].file /\ new.key = v.items[pos].key
        /\ new.thumb = v.items[pos].thumb
    BY <1>1 DEF GridItems
  <2> HIDE DEF w, new, I
  <2>3. w.items \in [1..L -> I] /\ w.items \in Seq(I) /\ Len(w.items) = L
    <3> HIDE DEF L
    <3>1. w.items \in [1..L -> I]
      BY <1>1, <2>1, <2>2
    <3> QED  BY <1>1, <3>1
  <2>4. w.selection \subseteq Nat
    <3>1. pos \in Nat
      BY <1>1
    <3> HIDE DEF L
    <3> QED  BY <1>1, <2>1, <3>1
  <2>5. [items |-> w.items, selection |-> w.selection, crashed |-> w.crashed] \in Views(Files, Keys)
    BY <2>1, <2>3, <2>4 DEF Views, I
  <2>6. SameRows(v, w)
    <3>1. \A i \in 1..L : w.items[i] = IF i = pos THEN new ELSE v.items[i]
      BY <1>1, <2>1
    <3> QED  BY <2>2, <2>3, <3>1 DEF SameRows
  <2> QED  BY <1>2, <2>1, <2>5, <2>6 DEF w
<1> QED  BY <1>3, <1>4

LEMMA AllSelectedShows ==
    ASSUME NEW v \in Views(Files, Keys), Flagged(v), ~ v.crashed, NEW yes \in BOOLEAN
    PROVE  LET w == SetAllSelected(v, yes)
           IN  w \in Views(Files, Keys) /\ Flagged(w) /\ ~ w.crashed /\ SameRows(v, w)
<1> DEFINE N == Len(v.items)
           signals == [p \in 1..N |-> Selecting(p, yes)]
           Good(w) == w \in Views(Files, Keys) /\ Flagged(w) /\ ~ w.crashed /\ SameRows(v, w)
<1>1. N \in Nat /\ DOMAIN v.items = 1..N
  BY ViewFacts
<1>2. SetAllSelected(v, yes) = HandleAll(v, signals)
  BY <1>1 DEF SetAllSelected
<1> HIDE DEF N
<1>3. PICK done : /\ done[0] = v /\ done[N] = HandleAll(v, signals)
                  /\ \A n \in 0..N-1 : done[n+1] = Handle(done[n], signals[n+1])
  <2>1. DOMAIN signals = 1..N
    OBVIOUS
  <2> HIDE DEF signals
  <2>2. PICK done : Stages(done, v, signals, N)
    BY <1>1, <2>1, HandleStages
  <2> QED  BY <2>2 DEF Stages
<1>4. Good(done[0])
  BY <1>3 DEF SameRows
<1>5. ASSUME NEW n \in 0..N-1, Good(done[n])  PROVE Good(done[n+1])
  <2> DEFINE u == done[n]
             p == n + 1
             w == SetItemSelected(u, yes, p)
  <2>1. p \in 1..N
    BY <1>1
  <2>2. done[n+1] = w
    <3>1. signals[p] = Selecting(p, yes)
      BY <2>1
    <3>2. Handle(u, Selecting(p, yes)) = SetItemSelected(u, yes, p)
      BY DEF Handle, Selecting
    <3> QED  BY <1>3, <3>1, <3>2
  <2>3. u \in Views(Files, Keys) /\ Flagged(u) /\ ~ u.crashed /\ SameRows(v, u)
    BY <1>5
  <2> HIDE DEF u, p
  <2>4. p \in 1..Len(u.items)
    BY <2>1, <2>3 DEF SameRows, N
  <2>5. w \in Views(Files, Keys) /\ Flagged(w) /\ ~ w.crashed /\ SameRows(u, w)
    BY <2>3, <2>4, SelectingShows
  <2> HIDE DEF w
  <2>6. SameRows(v, w)
    BY <2>3, <2>5 DEF SameRows
  <2> QED  BY <2>2, <2>5, <2>6
<1>6. Good(done[N])
  <2> DEFINE T == {n \in 0..N : Good(done[n])}
  <2> HIDE DEF Good
  <2>1. 0 \in T
    BY <1>1, <1>4
  <2>2. ASSUME NEW n \in 0..N-1, n \in T  PROVE n + 1 \in T
    BY <1>1, <1>5, <2>2
  <2> HIDE DEF T
  <2>3. 0..N \subseteq T
    BY <1>1, <2>1, <2>2, InductionUpTo
  <2>4. N \in T
    BY <1>1, <2>3
  <2> QED  BY <2>4 DEF T
<1> QED  BY <1>2, <1>3, <1>6

-----------------------------------------------------------------------------
(* Sorting *)

(* campare_row_func and the stable sort: the files are the same ones, each of them *)
(* once, in the order of the sort.                                                 *)
LEMMA SortedFacts ==
    ASSUME NEW q \in Seq(Files), IsInjective(q), NEW k, \A f \in Range(q) : k[f] \in Int,
           NEW s \in Sorts
    PROVE  LET w == Sorted(q, k, s)
           IN  /\ w \in Seq(Files) /\ IsInjective(w) /\ Range(w) = Range(q)
               /\ s # "unsorted" => \A i, j \in DOMAIN w : i < j => ~ Before(k, s, w[j], w[i])
<1> DEFINE n == Len(q)
           I == 1..n
           w == Sorted(q, k, s)
<1>1. n \in Nat /\ DOMAIN q = I /\ (\A i \in I : q[i] \in Files /\ k[q[i]] \in Int)
      /\ (\A i, j \in I : q[i] = q[j] => i = j)
  BY PlacesOf
<1>2. CASE s = "unsorted"
  <2>1. w = q
    BY <1>2 DEF Sorted
  <2> QED  BY <1>2, <2>1
<1>3. CASE s # "unsorted"
  <2> DEFINE a == [i \in I |-> IF s = "inverse" THEN - k[q[i]] ELSE k[q[i]]]
             Pre(i) == {j \in I : a[j] < a[i] \/ (j < i /\ a[j] <= a[i])}
             place == [i \in I |-> 1 + Cardinality(Pre(i))]
  <2>1. \A i \in I : a[i] \in Int
    BY <1>1
  <2>2. \A i, j \in I : Before(k, s, q[j], q[i]) <=> a[j] < a[i]
    BY <1>1 DEF Before
  <2> HIDE DEF a, n
  <2>3. IsFiniteSet(I) /\ Cardinality(I) = n
    BY <1>1, FS_Interval
  <2>4. \A i \in I : i \in Int /\ i >= 1 /\ i <= n
    BY <1>1
  <2> HIDE DEF I
  <2>5. ASSUME NEW i \in I  PROVE Place(q, k, s, i) = place[i]
    <3>1. {j \in I : Before(k, s, q[j], q[i]) \/ (j < i /\ ~ Before(k, s, q[i], q[j]))} = Pre(i)
      BY <2>1, <2>2
    <3> HIDE DEF Pre
    <3> QED  BY <1>1, <3>1 DEF Place
  <2>6. ASSUME NEW i \in I, NEW j \in I, a[j] < a[i] \/ (j < i /\ a[j] <= a[i])
        PROVE  place[j] < place[i]
    <3> DEFINE P == Pre(i)
               Q == Pre(j)
    <3>1. P \in SUBSET I /\ Q \in SUBSET I /\ j \in P /\ j \notin Q
      BY <2>1, <2>4, <2>6
    <3>2. Q \union {j} \subseteq P
      BY <2>1, <2>4, <2>6
    <3> HIDE DEF P, Q
    <3>3. IsFiniteSet(P) /\ IsFiniteSet(Q)
      BY <2>3, <3>1, FS_Subset
    <3> DEFINE R == Q \union {j}
    <3>4. IsFiniteSet(R) /\ Cardinality(R) = Cardinality(Q) + 1
      BY <3>1, <3>3, FS_AddElement
    <3> HIDE DEF R
    <3>5. Cardinality(R) <= Cardinality(P)
      BY <3>2, <3>3, FS_Subset DEF R
    <3>6. Cardinality(P) \in Nat /\ Cardinality(Q) \in Nat
      BY <3>3, FS_CardinalityType
    <3>7. place[j] = 1 + Cardinality(Q) /\ place[i] = 1 + Cardinality(P)
      BY DEF P, Q
    <3> HIDE DEF place
    <3> QED  BY <3>4, <3>5, <3>6, <3>7
  <2>7. ASSUME NEW i \in I  PROVE place[i] \in I
    <3> DEFINE P == Pre(i)
               R == I \ {i}
    <3>1. P \in SUBSET R
      BY <2>1, <2>4
    <3> HIDE DEF P
    <3>2. IsFiniteSet(R) /\ Cardinality(R) = n - 1
      BY <2>3, FS_RemoveElement
    <3> HIDE DEF R
    <3>3. Cardinality(P) <= n - 1 /\ IsFiniteSet(P)
      BY <3>1, <3>2, FS_Subset
    <3>4. Cardinality(P) \in Nat
      BY <3>3, FS_CardinalityType
    <3>5. place[i] = 1 + Cardinality(P)
      BY DEF P
    <3> HIDE DEF place
    <3> QED  BY <1>1, <3>3, <3>4, <3>5 DEF I
  <2>8. \A i \in I : place[i] \in Int /\ place[i] \in I
    BY <2>4, <2>7
  <2> HIDE DEF place
  <2>9. ASSUME NEW i \in I, NEW j \in I, place[i] = place[j]  PROVE i = j
    <3>1. ~ (place[i] < place[j]) /\ ~ (place[j] < place[i])
      BY <2>8, <2>9
    <3>2. /\ ~ (a[j] < a[i] \/ (j < i /\ a[j] <= a[i]))
          /\ ~ (a[i] < a[j] \/ (i < j /\ a[i] <= a[j]))
      BY <2>6, <3>1
    <3> QED  BY <2>1, <2>4, <3>2
  <2>10. ASSUME NEW m \in I  PROVE \E i \in I : place[i] = m
    <3>1. DOMAIN place = I
      BY DEF place
    <3>2. place \in [I -> I]
      BY <2>8, <3>1 DEF place
    <3>3. place \in Injection(I, I)
      BY <2>9, <3>1, <3>2 DEF Injection, IsInjective
    <3>4. place \in Surjection(I, I)
      BY <2>3, <3>3, FS_Injection
    <3> QED  BY <3>4 DEF Surjection
  <2> DEFINE from == [m \in I |-> CHOOSE i \in I : place[i] = m]
  <2>11. \A m \in I : from[m] \in I /\ place[from[m]] = m
    BY <2>10
  <2>12. w = [m \in I |-> q[from[m]]]
    <3> DEFINE at == [m \in I |-> CHOOSE i \in I : Place(q, k, s, i) = m]
    <3>1. w = [m \in I |-> q[at[m]]]
      <4>1. w = [m \in I |-> q[CHOOSE i \in I : Place(q, k, s, i) = m]]
        BY <1>1, <1>3 DEF Sorted
      <4>2. \A m \in I : at[m] = CHOOSE i \in I : Place(q, k, s, i) = m
        OBVIOUS
      <4>3. DOMAIN w = I /\ w = [m \in DOMAIN w |-> w[m]]
        BY <4>1
      <4>4. ASSUME NEW m \in I  PROVE w[m] = q[at[m]]
        <5>1. w[m] = q[CHOOSE i \in I : Place(q, k, s, i) = m]
          BY <4>1
        <5> HIDE DEF w
        <5> QED  BY <4>2, <5>1
      <4> HIDE DEF at, w
      <4> QED  BY <4>3, <4>4
    <3>2. at = from
      <4>1. ASSUME NEW m \in I
            PROVE  (CHOOSE i \in I : Place(q, k, s, i) = m) = CHOOSE i \in I : place[i] = m
        BY <2>5
      <4> QED  BY <4>1
    <3> HIDE DEF at, from, w
    <3> QED  BY <3>1, <3>2
  <2> HIDE DEF w, from
  <2>13. w \in Seq(Files) /\ Len(w) = n /\ \A m \in I : w[m] = q[from[m]]
    <3>1. w \in [I -> Files] /\ \A m \in I : w[m] = q[from[m]]
      BY <1>1, <2>11, <2>12
    <3> QED  BY <1>1, <3>1 DEF I
  <2>14. ASSUME NEW i \in I, NEW j \in I, w[i] = w[j]  PROVE i = j
    <3>1. from[i] = from[j]
      BY <1>1, <2>11, <2>13, <2>14
    <3> QED  BY <2>11, <3>1
  <2>15. IsInjective(w)
    <3>1. DOMAIN w = I
      BY <2>12
    <3> QED  BY <2>14, <3>1 DEF IsInjective
  <2>16. Range(w) = Range(q)
    <3>1. ASSUME NEW x \in Range(w)  PROVE x \in Range(q)
      <4>1. PICK m \in I : w[m] = x
        BY <2>12 DEF Range
      <4> QED  BY <1>1, <2>11, <2>13, <4>1 DEF Range
    <3>2. ASSUME NEW x \in Range(q)  PROVE x \in Range(w)
      <4>1. PICK i \in I : q[i] = x
        BY <1>1 DEF Range
      <4>2. place[i] \in I /\ from[place[i]] = i
        BY <2>8, <2>9, <2>11
      <4>3. w[place[i]] = x
        BY <2>13, <4>1, <4>2
      <4> QED  BY <2>12, <4>2, <4>3 DEF Range
    <3> QED  BY <3>1, <3>2
  <2>17. ASSUME NEW i \in I, NEW j \in I, i < j  PROVE ~ Before(k, s, w[j], w[i])
    <3>1. CASE a[from[j]] < a[from[i]]
      <4>1. place[from[j]] < place[from[i]]
        BY <2>6, <2>11, <3>1
      <4> QED  BY <2>4, <2>11, <2>17, <4>1
    <3>2. CASE ~ (a[from[j]] < a[from[i]])
      BY <2>2, <2>11, <2>13, <3>2
    <3> QED  BY <3>1, <3>2
  <2>18. DOMAIN w = I
    BY <2>12
  <2> QED  BY <2>13, <2>15, <2>16, <2>17, <2>18 DEF w
<1> QED  BY <1>2, <1>3

-----------------------------------------------------------------------------
(* _gth_file_store_update_visibility: its three parts *)

Hide(all, visible, A, v) ==
    LET hidden == Reverse(Keep(all, Range(visible) \ A))
    IN  HandleAll(v, [i \in DOMAIN hidden |-> Deleted(PosIn(visible, hidden[i]))])

Move(stays, moved, v) ==
    LET order == [i \in DOMAIN stays |-> PosIn(stays, moved[i])]
    IN  IF \A i \in DOMAIN order : order[i] = i THEN v ELSE Handle(v, Reordered(order))

Show(new, B, k, t, v) ==
    LET added == Keep(new, B)
    IN  HandleAll(v, [i \in DOMAIN added |->
                         Inserted(PosIn(new, added[i]), RowItem(k, t, added[i]))])

(* The rows that the filter does not accept any more: the items of the others stay. *)
LEMMA HideShows ==
    ASSUME NEW all \in Seq(Files), IsInjective(all), NEW visible \in Seq(Files),
           IsInjective(visible), InOrderOf(visible, all), NEW A,
           NEW G \in SUBSET StoreItems, NEW v, Drawn(v, G), Shown(v) = visible
    PROVE  LET w == Hide(all, visible, A, v)
               stays == Keep(all, Range(visible) \intersect A)
           IN  Drawn(w, G) /\ Leaves(v, w, stays)
<1> DEFINE R == Range(visible)
           C == R \ A
           D == R \intersect A
           stays == Keep(all, D)
           hidden == Reverse(Keep(all, C))
           q == Leavings(Files, visible, hidden)
           N == Len(hidden)
           pos == PlacesIn(visible, hidden)
           signals == [i \in DOMAIN hidden |-> Deleted(PosIn(visible, hidden[i]))]
<1>1. visible = Keep(all, R)
  BY DEF InOrderOf
<1>2. Keep(visible, C) = Keep(all, C)
  <2>1. Keep(Keep(all, R), C) = Keep(all, R \intersect C)
    <3> HIDE DEF R, C
    <3> QED  BY KeepKeep
  <2>2. R \intersect C = C
    OBVIOUS
  <2> HIDE DEF R, C
  <2> QED  BY <1>1, <2>1, <2>2
<1>3. hidden = Reverse(Keep(visible, C))
  BY <1>2
<1>4. Keep(visible, Files \ C) = stays
  <2> DEFINE E == Files \ C
  <2>1. Keep(Keep(all, R), E) = Keep(all, R \intersect E)
    <3> HIDE DEF R, E
    <3> QED  BY KeepKeep
  <2>2. R \intersect E = D
    <3>1. R \subseteq Files
      BY PlacesOf
    <3> QED  BY <3>1
  <2> HIDE DEF R, E, D
  <2> QED  BY <1>1, <2>1, <2>2 DEF E
<1> HIDE DEF C, D
<1>5. hidden \in Seq(Files)
  <2>1. Keep(all, C) \in Seq(Files)
    BY KeepFacts
  <2> QED  BY <2>1, ReverseFacts
<1> HIDE DEF hidden, stays
<1>6. /\ N \in Nat /\ q[0] = visible /\ q[N] = stays /\ Removals(q, pos, N)
  <2>1. LET p == Leavings(Files, visible, hidden)
        IN  /\ Len(hidden) \in Nat /\ p[0] = visible /\ p[Len(hidden)] = Keep(visible, Files \ C)
            /\ Removals(p, PlacesIn(visible, hidden), Len(hidden))
    BY <1>3, TakenOut
  <2> QED  BY <1>4, <2>1
<1>7. signals = DeletionsAt(pos, N)
  BY <1>5 DEF PlacesIn, PosIn, DeletionsAt
<1> HIDE DEF q, pos, N, signals
<1> DEFINE w == HandleAll(v, signals)
<1>8. q[0] = Shown(v)
  BY <1>6
<1> HIDE DEF w
<1>9. Drawn(w, G) /\ Leaves(v, w, q[N])
  <2>1. N \in Nat
    BY <1>6
  <2>2. RemovedFrom(v, q, pos, N)
    BY <1>6, <1>8 DEF RemovedFrom
  <2> QED  BY <1>7, <2>1, <2>2, DeletionsShow DEF w
<1>10. Hide(all, visible, A, v) = w
  BY DEF Hide, signals, hidden, C, R, w
<1> QED  BY <1>6, <1>9, <1>10 DEF stays, D, R, Leaves

LEMMA HideSafe ==
    ASSUME NEW all \in Seq(Files), IsInjective(all), NEW visible \in Seq(Files),
           IsInjective(visible), Range(visible) \subseteq Range(all), NEW A,
           NEW v, ViewOK(v, Len(visible))
    PROVE  LET stays == Keep(all, Range(visible) \intersect A)
           IN  Len(stays) \in Nat /\ ViewOK(Hide(all, visible, A, v), Len(stays))
<1> DEFINE R == Range(visible)
           C == R \ A
           D == R \intersect A
           stays == Keep(all, D)
           kept == Keep(all, C)
           hidden == Reverse(kept)
           N == Len(hidden)
           L == Len(visible)
           pos == PlacesIn(visible, hidden)
           signals == [i \in DOMAIN hidden |-> Deleted(PosIn(visible, hidden[i]))]
<1>1. kept \in Seq(Files) /\ Range(kept) = Range(all) \intersect C /\ IsInjective(kept)
  <2> HIDE DEF C
  <2> QED  BY KeepFacts
<1>2. stays \in Seq(Files) /\ Range(stays) = Range(all) \intersect D /\ IsInjective(stays)
  <2> HIDE DEF D
  <2> QED  BY KeepFacts
<1> HIDE DEF kept, stays
<1>3. hidden \in Seq(Files) /\ N = Len(kept) /\ Range(hidden) = Range(kept)
  BY <1>1, ReverseFacts
<1> HIDE DEF hidden
<1>4. Range(kept) = Range(visible) \ A /\ Range(stays) = Range(visible) \intersect A
  BY <1>1, <1>2
<1>5. L \in Nat /\ N \in 0..L /\ Len(stays) \in Nat /\ L - N = Len(stays)
  <2>1. Len(visible) \in Nat /\ Len(kept) \in Nat /\ Len(stays) \in Nat /\ Len(visible) = Len(kept) + Len(stays)
    <3>1. AreParts(visible, kept, stays, A)
      BY <1>4 DEF AreParts
    <3> QED  BY <1>1, <1>2, <3>1, PartLengths
  <2> QED  BY <1>3, <2>1
<1>6. signals = DeletionsAt(pos, N)
  BY <1>3 DEF PlacesIn, PosIn, DeletionsAt
<1>7. ArePlaces(pos, N)
  <2> SUFFICES ASSUME NEW n \in 1..N  PROVE pos[n] \in Nat \ {0}
    BY DEF ArePlaces
  <2> DEFINE x == hidden[n]
             p == pos[n]
  <2>1. x \in Range(visible)
    BY <1>3, <1>4, PlacesOf
  <2>2. p = CHOOSE a \in DOMAIN visible : visible[a] = x
    BY <1>3 DEF PlacesIn
  <2> HIDE DEF x, p
  <2>3. p \in 1..Len(visible)
    BY <2>1, <2>2, PlaceOf
  <2>4. p \in Nat \ {0}
    BY <1>5, <2>3
  <2> QED  BY <2>4 DEF p
<1> HIDE DEF pos, N, signals, L
<1>8. ViewOK(v, L)
  BY DEF L
<1>9. ViewOK(HandleAll(v, signals), L - N)
  BY <1>5, <1>6, <1>7, <1>8, DeletionsSafe
<1>10. Hide(all, visible, A, v) = HandleAll(v, signals)
  BY DEF Hide, signals, hidden, kept, C, R
<1> QED  BY <1>5, <1>9, <1>10 DEF stays, D, R


(* The rows that stay, in the order of all_rows. *)
LEMMA MoveShows ==
    ASSUME NEW stays \in Seq(Files), NEW moved \in Seq(Files), IsInjective(stays),
           IsInjective(moved), Range(stays) = Range(moved),
           NEW G \in SUBSET StoreItems, NEW v, Drawn(v, G), Shown(v) = stays
    PROVE  LET w == Move(stays, moved, v) IN Drawn(w, G) /\ Gains(v, w, moved)
<1> DEFINE n == Len(stays)
           o == PlacesIn(stays, moved)
           order == [i \in DOMAIN stays |-> PosIn(stays, moved[i])]
           w == Move(stays, moved, v)
<1>1. /\ n \in Nat /\ Len(moved) = n /\ o \in [1..n -> 1..n]
      /\ (\A a \in 1..n : \E i \in 1..n : o[i] = a)
      /\ moved = [i \in 1..n |-> stays[o[i]]]
  <2>1. IsPermuted(stays, moved, o)
    BY Permutes
  <2> QED  BY <2>1 DEF IsPermuted
<1>2. DOMAIN stays = 1..n /\ DOMAIN moved = 1..n
  BY <1>1
<1>3. order = o
  BY <1>2 DEF PlacesIn, PosIn
<1> HIDE DEF o, order
<1>4. w = IF \A i \in DOMAIN order : order[i] = i THEN v ELSE Handle(v, Reordered(order))
  BY DEF Move, order
<1> HIDE DEF w
<1>5. CASE \A i \in DOMAIN order : order[i] = i
  <2>1. w = v
    BY <1>4, <1>5
  <2>2. moved = stays
    <3>1. \A i \in 1..n : o[i] = i
      BY <1>1, <1>3, <1>5
    <3>2. \A i \in 1..n : moved[i] = stays[i]
      BY <1>1, <3>1
    <3> HIDE DEF n
    <3>3. stays = [i \in 1..n |-> stays[i]] /\ moved = [i \in 1..n |-> moved[i]]
      BY <1>1, <1>2
    <3> QED  BY <3>2, <3>3
  <2> QED  BY <2>1, <2>2 DEF Gains, w
<1>6. CASE ~ \A i \in DOMAIN order : order[i] = i
  <2> DEFINE u == RowsReordered(v, o)
  <2>1. w = u
    <3>1. Handle(v, Reordered(o)) = u
      BY DEF Handle, Reordered
    <3> QED  BY <1>3, <1>4, <1>6, <3>1
  <2>2. Len(v.items) = n
    BY ShownFacts DEF Drawn
  <2>3. IsOrder(o, Len(v.items))
    BY <1>1, <2>2 DEF IsOrder
  <2>4. Drawn(u, G) /\ Reorders(v, u, o)
    BY <2>3, ReorderedFacts
  <2> HIDE DEF u
  <2>5. Shown(u) = moved
    BY <1>1, <2>2, <2>4 DEF Reorders
  <2> QED  BY <2>1, <2>4, <2>5 DEF Gains, w, Reorders
<1> QED  BY <1>5, <1>6

LEMMA MoveSafe ==
    ASSUME NEW stays \in Seq(Files), NEW moved \in Seq(Files), IsInjective(stays),
           IsInjective(moved), Range(stays) = Range(moved), NEW v, ViewOK(v, Len(stays))
    PROVE  ViewOK(Move(stays, moved, v), Len(moved))
<1> DEFINE n == Len(stays)
           o == PlacesIn(stays, moved)
           order == [i \in DOMAIN stays |-> PosIn(stays, moved[i])]
           w == Move(stays, moved, v)
<1>1. /\ n \in Nat /\ Len(moved) = n /\ o \in [1..n -> 1..n]
      /\ \A a \in 1..n : \E i \in 1..n : o[i] = a
  <2>1. IsPermuted(stays, moved, o)
    BY Permutes
  <2> QED  BY <2>1 DEF IsPermuted
<1>2. order = o
  BY <1>1 DEF PlacesIn, PosIn
<1>3. w \in {v, RowsReordered(v, o)}
  <2>1. Handle(v, Reordered(o)) = RowsReordered(v, o)
    BY DEF Handle, Reordered
  <2>2. w = IF \A i \in DOMAIN order : order[i] = i THEN v ELSE Handle(v, Reordered(order))
    BY DEF Move
  <2> HIDE DEF w, o, order
  <2> QED  BY <1>2, <2>1, <2>2
<1> HIDE DEF w, o, order
<1>4. CASE v.crashed
  <2>1. RowsReordered(v, o) = v
    BY <1>4 DEF RowsReordered
  <2>2. w = v
    BY <1>3, <2>1
  <2> QED  BY <1>1, <2>2 DEF w
<1>5. CASE ~ v.crashed
  <2>1. Drawn(v, StoreItems) /\ Len(v.items) = n
    BY <1>5 DEF ViewOK
  <2>2. IsOrder(o, Len(v.items))
    BY <1>1, <2>1 DEF IsOrder
  <2> DEFINE u == RowsReordered(v, o)
  <2>3. StoreItems \in SUBSET StoreItems
    OBVIOUS
  <2>4. Drawn(u, StoreItems) /\ Len(u.items) = Len(v.items)
    BY <2>1, <2>2, <2>3, ReorderedFacts DEF Reorders
  <2> HIDE DEF u
  <2>5. Drawn(w, StoreItems) /\ Len(w.items) = n
    BY <1>3, <2>1, <2>4 DEF u
  <2>6. ViewOK(w, n)
    BY <2>5 DEF ViewOK, Drawn, Flagged
  <2> QED  BY <1>1, <2>6 DEF w
<1> QED  BY <1>4, <1>5

\* the rows of s can be shown with the data k and t, as items of G
HasItems(s, k, t, G) == \A f \in Range(s) : RowItem(k, t, f) \in G

(* The rows that the filter accepts now. *)
LEMMA ShowShows ==
    ASSUME NEW new \in Seq(Files), IsInjective(new), NEW A, NEW B,
           Range(new) \subseteq A \union B, A \intersect B = {},
           NEW G \in SUBSET StoreItems, NEW k, NEW t, HasItems(new, k, t, G),
           NEW v, Drawn(v, G), Shown(v) = Keep(new, A)
    PROVE  LET w == Show(new, B, k, t, v) IN Drawn(w, G) /\ Gains(v, w, new)
<1> DEFINE added == Keep(new, B)
           N == Len(added)
           q == Within(new, A, added)
           pos == PlacesIn(new, added)
           items == [i \in 1..N |-> RowItem(k, t, added[i])]
           signals == [i \in DOMAIN added |->
                          Inserted(PosIn(new, added[i]), RowItem(k, t, added[i]))]
<1>1. added \in Seq(Files) /\ Range(added) \subseteq Range(new)
  BY KeepFacts
<1>2. N \in Nat /\ q[0] = Keep(new, A) /\ q[N] = new /\ Additions(q, pos, added, N)
  <2> HIDE DEF added
  <2>1. added = Keep(new, B)
    BY DEF added
  <2>2. LET p == Within(new, A, added)
        IN  /\ Len(added) \in Nat /\ p[0] = Keep(new, A) /\ p[Len(added)] = new
            /\ Additions(p, PlacesIn(new, added), added, Len(added))
    BY <2>1, PutIn
  <2> QED  BY <2>2
<1> HIDE DEF added
<1>3. DOMAIN added = 1..N /\ \A i \in 1..N : added[i] \in Range(new)
  BY <1>1, PlacesOf
<1>4. signals = InsertionsAt(pos, items, N)
  BY <1>3 DEF InsertionsAt, PlacesIn, PosIn
<1>5. AreNew(items, N, G)
  <2> SUFFICES ASSUME NEW n \in 1..N  PROVE items[n] \in G /\ ~ items[n].selected
    BY DEF AreNew
  <2>1. RowItem(k, t, added[n]) \in G
    BY <1>3 DEF HasItems
  <2> QED  BY <2>1 DEF RowItem, Item
<1>6. \A n \in 1..N : items[n].file = added[n]
  BY DEF RowItem, Item
<1> HIDE DEF q, pos, signals, items, N
<1>7. InsertedInto(v, q, pos, items, N)
  <2> SUFFICES ASSUME NEW n \in 0..N-1
               PROVE  /\ pos[n+1] \in 1..Len(q[n])+1
                      /\ q[n+1] = InsertAt(q[n], pos[n+1], items[n+1].file)
    BY <1>2 DEF InsertedInto
  <2>1. items[n+1].file = added[n+1]
    BY <1>2, <1>6
  <2> QED  BY <1>2, <2>1 DEF Additions
<1> DEFINE w == HandleAll(v, signals)
<1> HIDE DEF w
<1>8. Drawn(w, G) /\ Gains(v, w, q[N])
  <2>1. N \in Nat
    BY <1>2
  <2> QED  BY <1>4, <1>5, <1>7, <2>1, InsertionsShow DEF w
<1>9. Show(new, B, k, t, v) = w
  BY DEF Show, signals, added, w
<1> QED  BY <1>2, <1>8, <1>9

LEMMA ShowSafe ==
    ASSUME NEW new \in Seq(Files), IsInjective(new), NEW A, NEW B,
           Range(new) \subseteq A \union B, A \intersect B = {},
           NEW k, NEW t, HasItems(new, k, t, StoreItems), NEW v, ViewOK(v, Len(Keep(new, A)))
    PROVE  ViewOK(Show(new, B, k, t, v), Len(new))
<1> DEFINE added == Keep(new, B)
           N == Len(added)
           L == Len(Keep(new, A))
           pos == PlacesIn(new, added)
           items == [i \in 1..N |-> RowItem(k, t, added[i])]
           signals == [i \in DOMAIN added |->
                          Inserted(PosIn(new, added[i]), RowItem(k, t, added[i]))]
<1>1. added \in Seq(Files) /\ Range(added) \subseteq Range(new)
  BY KeepFacts
<1>2. N \in Nat /\ L \in Nat /\ Len(new) = L + N /\ HavePlaces(pos, L, N)
  <2> HIDE DEF added
  <2>1. added = Keep(new, B)
    BY DEF added
  <2>2. LET M == Len(Keep(new, A))
        IN  /\ M \in Nat /\ Len(added) \in Nat /\ Len(new) = M + Len(added)
            /\ HavePlaces(PlacesIn(new, added), M, Len(added))
    BY <2>1, PutInLengths
  <2> QED  BY <2>2
<1> HIDE DEF added
<1>3. DOMAIN added = 1..N /\ \A i \in 1..N : added[i] \in Range(new)
  BY <1>1, PlacesOf
<1>4. signals = InsertionsAt(pos, items, N)
  BY <1>3 DEF InsertionsAt, PlacesIn, PosIn
<1>5. AreNew(items, N, StoreItems)
  <2> SUFFICES ASSUME NEW n \in 1..N  PROVE items[n] \in StoreItems /\ ~ items[n].selected
    BY DEF AreNew
  <2>1. RowItem(k, t, added[n]) \in StoreItems
    BY <1>3 DEF HasItems
  <2> QED  BY <2>1 DEF RowItem, Item
<1> HIDE DEF pos, signals, items, N, L
<1>6. ViewOK(v, L)
  BY DEF L
<1>7. ViewOK(HandleAll(v, signals), L + N)
  <2>1. N \in Nat /\ L \in Nat
    BY <1>2
  <2> QED  BY <1>2, <1>4, <1>5, <1>6, <2>1, InsertionsSafe
<1>8. Show(new, B, k, t, v) = HandleAll(v, signals)
  BY DEF Show, signals, added
<1> QED  BY <1>2, <1>7, <1>8


-----------------------------------------------------------------------------
(* _gth_file_store_update_visibility: the whole of it *)

Accepted(all, k, flt) == {f \in Range(all) : k[f] \in flt}

\* what _gth_file_store_update_visibility is called with
Ready(all, visible, k, t, s) ==
    /\ all \in Seq(Files) /\ IsInjective(all)
    /\ visible \in Seq(Files) /\ IsInjective(visible)
    /\ Range(visible) \subseteq Range(all)
    /\ \A f \in Range(all) : k[f] \in Keys /\ t[f] \in BOOLEAN
    /\ s \in Sorts

\* every row is kept, in the order of the sort, and the accepted ones are visible
Updated(all, k, flt, s, u) ==
    /\ u.all \in Seq(Files) /\ IsInjective(u.all) /\ Range(u.all) = Range(all)
    /\ s # "unsorted" => \A i, j \in DOMAIN u.all :
                            i < j => ~ Before(k, s, u.all[j], u.all[i])
    /\ u.rows \in Seq(Files) /\ IsInjective(u.rows) /\ Range(u.rows) = Accepted(all, k, flt)

\* the view of u shows its rows, and of the files of v that are left the selected ones
Mirrors(v, u, G) ==
    /\ Drawn(u.view, G) /\ Shown(u.view) = u.rows
    /\ SelectedFiles(u.view) = SelectedFiles(v) \intersect Range(u.rows)

LEMMA UpdateRows ==
    ASSUME NEW all, NEW visible, NEW k, NEW t, NEW flt, NEW s, NEW v,
           Ready(all, visible, k, t, s)
    PROVE  Updated(all, k, flt, s, UpdateVisibility(all, visible, k, t, flt, s, v))
<1> DEFINE A == Accepted(all, k, flt)
           sorted == Sorted(all, k, s)
           new == Keep(sorted, A)
           u == UpdateVisibility(all, visible, k, t, flt, s, v)
<1>1. u.all = sorted /\ u.rows = new
  BY DEF UpdateVisibility, Accepted
<1>2. /\ sorted \in Seq(Files) /\ IsInjective(sorted) /\ Range(sorted) = Range(all)
      /\ s # "unsorted" => \A i, j \in DOMAIN sorted :
                              i < j => ~ Before(k, s, sorted[j], sorted[i])
  <2>1. all \in Seq(Files) /\ IsInjective(all) /\ s \in Sorts
    BY DEF Ready
  <2>2. \A f \in Range(all) : k[f] \in Int
    BY StoreAssumption DEF Ready
  <2> QED  BY <2>1, <2>2, SortedFacts
<1> HIDE DEF sorted, u, A
<1>3. new \in Seq(Files) /\ IsInjective(new) /\ Range(new) = Range(sorted) \intersect A
  BY <1>2, KeepFacts
<1>4. Range(new) = A
  BY <1>2, <1>3 DEF A, Accepted
<1> HIDE DEF new
<1> QED  BY <1>1, <1>2, <1>3, <1>4 DEF Updated, u, A

(* The view gets the rows hidden, moved and shown. *)
LEMMA UpdateParts ==
    ASSUME NEW all, NEW visible, NEW k, NEW t, NEW flt, NEW s, NEW v
    PROVE  LET u == UpdateVisibility(all, visible, k, t, flt, s, v)
               A == Accepted(all, k, flt)
               R == Range(visible)
           IN  u.view = Show(u.rows, A \ R, k, t,
                             Move(Keep(all, R \intersect A), Keep(u.rows, R),
                                  Hide(all, visible, A, v)))
<1> DEFINE A == Accepted(all, k, flt)
           R == Range(visible)
           new == Keep(Sorted(all, k, s), A)
           u == UpdateVisibility(all, visible, k, t, flt, s, v)
<1>1. u.rows = new
  BY DEF UpdateVisibility, Accepted
<1>2. u.view = Show(new, A \ R, k, t, Move(Keep(all, R \intersect A), Keep(new, R),
                                           Hide(all, visible, A, v)))
  BY DEF UpdateVisibility, Accepted, Show, Move, Hide
<1> HIDE DEF u, new
<1> QED  BY <1>1, <1>2 DEF u

(* The files that are selected are shown. *)
LEMMA SelectedShown ==
    ASSUME NEW v \in Views(Files, Keys), Flagged(v)
    PROVE  SelectedFiles(v) \subseteq Range(Shown(v))
<1> DEFINE d == Shown(v)
<1>1. d \in Seq(Files) /\ Len(d) = Len(v.items) /\ \A i \in 1..Len(d) : d[i] = v.items[i].file
  BY ShownFacts
<1>2. v.selection \subseteq 1..Len(v.items)
  BY ViewFacts DEF Flagged
<1> HIDE DEF d
<1>3. \A p \in v.selection : v.items[p].file \in Range(d)
  BY <1>1, <1>2, PlacesOf
<1> QED  BY <1>3 DEF SelectedFiles, d

(* The parts of what is updated. *)
UpdateFits(all, R, A, stays, new, moved) ==
    /\ stays \in Seq(Files) /\ IsInjective(stays) /\ Range(stays) = R \intersect A
    /\ moved \in Seq(Files) /\ IsInjective(moved) /\ Range(moved) = R \intersect A
    /\ Range(new) \subseteq R \union (A \ R)

LEMMA UpdateStays ==
    ASSUME NEW all, NEW visible, NEW k, NEW t, NEW flt, NEW s, NEW v,
           Ready(all, visible, k, t, s)
    PROVE  LET u == UpdateVisibility(all, visible, k, t, flt, s, v)
               A == Accepted(all, k, flt)
               R == Range(visible)
           IN  UpdateFits(all, R, A, Keep(all, R \intersect A), u.rows, Keep(u.rows, R))
<1> DEFINE A == Accepted(all, k, flt)
           R == Range(visible)
           u == UpdateVisibility(all, visible, k, t, flt, s, v)
           new == u.rows
           D == R \intersect A
<1>1. new \in Seq(Files) /\ IsInjective(new) /\ Range(new) = A
  BY UpdateRows DEF Updated
<1>2. all \in Seq(Files) /\ IsInjective(all) /\ R \subseteq Range(all)
  BY DEF Ready
<1> HIDE DEF new, A, R, D
<1>3. LET x == Keep(all, D)
      IN  x \in Seq(Files) /\ IsInjective(x) /\ Range(x) = Range(all) \intersect D
  BY <1>2, KeepFacts
<1>4. LET x == Keep(new, R)
      IN  x \in Seq(Files) /\ IsInjective(x) /\ Range(x) = Range(new) \intersect R
  BY <1>1, KeepFacts
<1>5. Range(Keep(all, D)) = R \intersect A
  BY <1>2, <1>3 DEF D
<1>6. Range(Keep(new, R)) = R \intersect A
  BY <1>1, <1>4
<1>7. Range(new) \subseteq R \union (A \ R)
  BY <1>1
<1> QED  BY <1>3, <1>4, <1>5, <1>6, <1>7 DEF UpdateFits, D, A, R, new

(* When the visible rows are in the order of all_rows. *)
LEMMA UpdateShows ==
    ASSUME NEW all, NEW visible, NEW k, NEW t, NEW flt, NEW s, NEW v,
           Ready(all, visible, k, t, s), InOrderOf(visible, all),
           NEW G \in SUBSET StoreItems, HasItems(all, k, t, G),
           Drawn(v, G), Shown(v) = visible
    PROVE  Mirrors(v, UpdateVisibility(all, visible, k, t, flt, s, v), G)
<1> DEFINE A == Accepted(all, k, flt)
           R == Range(visible)
           B == A \ R
           u == UpdateVisibility(all, visible, k, t, flt, s, v)
           new == u.rows
           stays == Keep(all, R \intersect A)
           moved == Keep(new, R)
           w1 == Hide(all, visible, A, v)
           w2 == Move(stays, moved, w1)
           w3 == Show(new, B, k, t, w2)
<1>1. u.view = w3
  BY UpdateParts, ZenonT(30)
<1>2. new \in Seq(Files) /\ IsInjective(new) /\ Range(new) = A
  BY UpdateRows DEF Updated
<1>3. UpdateFits(all, R, A, stays, new, moved)
  BY UpdateStays
<1>4. /\ all \in Seq(Files) /\ IsInjective(all) /\ visible \in Seq(Files) /\ IsInjective(visible)
      /\ R \subseteq Range(all)
  BY DEF Ready
<1>5. A \subseteq Range(all)
  BY DEF Accepted
<1> HIDE DEF u, new, A
<1>6. /\ Drawn(w1, G) /\ Shown(w1) = stays
      /\ SelectedFiles(w1) = SelectedFiles(v) \intersect Range(stays)
  <2>1. Drawn(w1, G) /\ Leaves(v, w1, stays)
    BY <1>4, HideShows
  <2> QED  BY <1>4, <2>1 DEF Leaves
<1> HIDE DEF w1, stays
<1>7. Drawn(w2, G) /\ Gains(w1, w2, moved)
  BY <1>3, <1>6, MoveShows DEF UpdateFits
<1> HIDE DEF w2
<1>8. Drawn(w3, G) /\ Gains(w2, w3, new)
  <2>1. Range(new) \subseteq R \union B /\ R \intersect B = {}
    BY <1>3 DEF UpdateFits
  <2>2. HasItems(new, k, t, G)
    BY <1>2, <1>5 DEF HasItems
  <2>3. Shown(w2) = Keep(new, R)
    BY <1>7 DEF Gains
  <2> HIDE DEF R, B
  <2> QED  BY <1>2, <1>7, <2>1, <2>2, <2>3, ShowShows
<1> HIDE DEF w3
<1>9. SelectedFiles(w3) = SelectedFiles(v) \intersect (R \intersect A)
  BY <1>3, <1>6, <1>7, <1>8 DEF Gains, UpdateFits
<1>10. SelectedFiles(v) \subseteq R
  BY SelectedShown DEF Drawn
<1>11. SelectedFiles(w3) = SelectedFiles(v) \intersect Range(new)
  BY <1>2, <1>9, <1>10
<1> QED  BY <1>1, <1>8, <1>11 DEF Mirrors, Gains, u, new

(* When they may be in another order: the items are as many as the rows, if the *)
(* program did not crash.                                                       *)
LEMMA UpdateSafe ==
    ASSUME NEW all, NEW visible, NEW k, NEW t, NEW flt, NEW s, NEW v,
           Ready(all, visible, k, t, s), ViewOK(v, Len(visible))
    PROVE  LET u == UpdateVisibility(all, visible, k, t, flt, s, v)
           IN  ViewOK(u.view, Len(u.rows))
<1> DEFINE A == Accepted(all, k, flt)
           R == Range(visible)
           B == A \ R
           u == UpdateVisibility(all, visible, k, t, flt, s, v)
           new == u.rows
           stays == Keep(all, R \intersect A)
           moved == Keep(new, R)
           w1 == Hide(all, visible, A, v)
           w2 == Move(stays, moved, w1)
           w3 == Show(new, B, k, t, w2)
<1>1. u.view = w3
  BY UpdateParts, ZenonT(30)
<1>2. new \in Seq(Files) /\ IsInjective(new) /\ Range(new) = A
  BY UpdateRows DEF Updated
<1>3. UpdateFits(all, R, A, stays, new, moved)
  BY UpdateStays
<1>4. /\ all \in Seq(Files) /\ IsInjective(all) /\ visible \in Seq(Files) /\ IsInjective(visible)
      /\ R \subseteq Range(all)
  BY DEF Ready
<1>5. A \subseteq Range(all)
  BY DEF Accepted
<1> HIDE DEF u, new, A
<1>6. ViewOK(w1, Len(stays))
  BY <1>4, HideSafe
<1> HIDE DEF w1, stays
<1>7. ViewOK(w2, Len(moved))
  BY <1>3, <1>6, MoveSafe DEF UpdateFits
<1> HIDE DEF w2
<1>8. ViewOK(w3, Len(new))
  <2>1. Range(new) \subseteq R \union B /\ R \intersect B = {}
    BY <1>3 DEF UpdateFits
  <2>2. HasItems(new, k, t, StoreItems)
    <3>1. \A f \in Range(all) : f \in Files
      BY <1>4, PlacesOf
    <3> SUFFICES ASSUME NEW f \in Range(new)  PROVE RowItem(k, t, f) \in StoreItems
      BY DEF HasItems
    <3>2. f \in Files /\ k[f] \in Keys /\ t[f] \in BOOLEAN
      BY <1>2, <1>5, <3>1 DEF Ready
    <3> QED  BY <3>2 DEF RowItem, Item, StoreItems, GridItems
  <2>3. ViewOK(w2, Len(Keep(new, R)))
    BY <1>7
  <2> HIDE DEF R, B
  <2> QED  BY <1>2, <2>1, <2>2, <2>3, ShowSafe
<1> HIDE DEF w3
<1> QED  BY <1>1, <1>8 DEF u, new


-----------------------------------------------------------------------------
(* The inductive invariant, of any values of the variables *)

\* the items that show the data of their files, or will: their rows are marked
Told(k, t, c) ==
    {it \in StoreItems : it.key = k[it.file] /\ (it.thumb # t[it.file] => it.file \in c)}

\* the view shows the rows r
Tells(v, r, k, t, c) == Drawn(v, Told(k, t, c)) /\ Shown(v) = r

Ordered(all, k, s) ==
    s # "unsorted" => \A i, j \in DOMAIN all : i < j => ~ Before(k, s, all[j], all[i])

HaveTypes(k, t, c, flt) ==
    /\ k \in [Files -> Keys \union {NoKey}] /\ t \in [Files -> BOOLEAN]
    /\ c \subseteq Files /\ flt \in Filters

IfInOrder(str, v, r, k, t, c) == str \in BOOLEAN /\ (~ str => Tells(v, r, k, t, c))

Good(all, r, k, t, c, flt, s, v, str) ==
    /\ Ready(all, r, k, t, s) /\ HaveTypes(k, t, c, flt)
    /\ Range(r) = Accepted(all, k, flt)
    /\ Ordered(all, k, s)
    /\ ViewOK(v, Len(r))
    /\ IfInOrder(str, v, r, k, t, c)

\* of the files that are selected in v, those of the rows r are selected in w
Keeps(v, w, r, str) == ~ str => SelectedFiles(w) = SelectedFiles(v) \intersect Range(r)

LEMMA ToldItems ==
    ASSUME NEW k, NEW t, NEW c
    PROVE  /\ Told(k, t, c) \in SUBSET StoreItems
           /\ \A all, visible, s : Ready(all, visible, k, t, s) => HasItems(all, k, t, Told(k, t, c))
<1>1. Told(k, t, c) \in SUBSET StoreItems
  BY DEF Told
<1>2. ASSUME NEW all, NEW visible, NEW s, Ready(all, visible, k, t, s), NEW f \in Range(all)
      PROVE  RowItem(k, t, f) \in Told(k, t, c)
  <2>1. f \in Files
    BY <1>2, PlacesOf DEF Ready
  <2>2. k[f] \in Keys /\ t[f] \in BOOLEAN
    BY <1>2 DEF Ready
  <2>3. RowItem(k, t, f) \in StoreItems
    BY <2>1, <2>2 DEF RowItem, Item, StoreItems, GridItems
  <2>4. RowItem(k, t, f).key = k[f] /\ RowItem(k, t, f).thumb = t[f] /\ RowItem(k, t, f).file = f
    BY DEF RowItem, Item
  <2> QED  BY <2>3, <2>4 DEF Told
<1> QED  BY <1>1, <1>2 DEF HasItems

(* _gth_file_store_update_visibility keeps the invariant. *)
LEMMA UpdateGood ==
    ASSUME NEW all, NEW visible, NEW k, NEW t, NEW c, NEW flt, NEW s, NEW v, NEW str,
           Ready(all, visible, k, t, s), HaveTypes(k, t, c, flt), ViewOK(v, Len(visible)),
           IfInOrder(str, v, visible, k, t, c)
    PROVE  LET u == UpdateVisibility(all, visible, k, t, flt, s, v)
               after == str \/ ~ InOrderOf(visible, all)
           IN  Good(u.all, u.rows, k, t, c, flt, s, u.view, after) /\ Keeps(v, u.view, u.rows, after)
<1> DEFINE u == UpdateVisibility(all, visible, k, t, flt, s, v)
           after == str \/ ~ InOrderOf(visible, all)
           G == Told(k, t, c)
<1>1. Updated(all, k, flt, s, u)
  BY UpdateRows
<1>2. ViewOK(u.view, Len(u.rows))
  BY UpdateSafe
<1>3. ASSUME ~ after  PROVE Mirrors(v, u, G)
  <2>1. Drawn(v, G) /\ Shown(v) = visible /\ InOrderOf(visible, all)
    BY <1>3 DEF IfInOrder, Tells
  <2>2. G \in SUBSET StoreItems /\ HasItems(all, k, t, G)
    BY ToldItems
  <2> HIDE DEF G, u
  <2> QED  BY <2>1, <2>2, UpdateShows DEF u
<1> HIDE DEF u
<1>4. Ready(u.all, u.rows, k, t, s)
  <2>1. \A f \in Range(u.all) : k[f] \in Keys /\ t[f] \in BOOLEAN
    BY <1>1 DEF Updated, Ready
  <2>2. Range(u.rows) \subseteq Range(u.all) /\ s \in Sorts
    BY <1>1 DEF Updated, Accepted, Ready
  <2> QED  BY <1>1, <2>1, <2>2 DEF Updated, Ready
<1>5. Range(u.rows) = Accepted(u.all, k, flt)
  BY <1>1 DEF Updated, Accepted
<1>6. Ordered(u.all, k, s)
  BY <1>1 DEF Updated, Ordered
<1>7. IfInOrder(after, u.view, u.rows, k, t, c)
  BY <1>3 DEF Mirrors, Tells, IfInOrder
<1>8. Keeps(v, u.view, u.rows, after)
  BY <1>3 DEF Mirrors, Keeps
<1> HIDE DEF after
<1> QED  BY <1>2, <1>4, <1>5, <1>6, <1>7, <1>8 DEF Good, u, after

(* Other data of files that are not in the store, and marks on more rows. *)
SameData(all, k, t, c, l, u, d) ==
    \A f \in Range(all) : l[f] = k[f] /\ u[f] \in BOOLEAN
                          /\ ((u[f] = t[f] /\ (f \in c => f \in d)) \/ f \in d)

LEMMA Retelling ==
    ASSUME NEW v, NEW r \in Seq(Files), NEW k, NEW t, NEW c, Tells(v, r, k, t, c),
           NEW l, NEW u, NEW d, SameData(r, k, t, c, l, u, d)
    PROVE  Tells(v, r, l, u, d)
<1> DEFINE G == Told(k, t, c)
           H == Told(l, u, d)
           n == Len(v.items)
<1>1. v \in Views(Files, Keys) /\ v.items \in Seq(G) /\ Flagged(v) /\ ~ v.crashed /\ Shown(v) = r
  BY DEF Tells, Drawn
<1>2. /\ n \in Nat /\ Len(r) = n
      /\ \A i \in 1..n : v.items[i] \in StoreItems /\ r[i] = v.items[i].file
  BY <1>1, ShownFacts
<1>3. ASSUME NEW i \in 1..n  PROVE v.items[i] \in H
  <2>1. v.items[i] \in G
    BY <1>1, <1>2
  <2>2. v.items[i].file \in Range(r)
    BY <1>2, PlacesOf
  <2> QED  BY <2>1, <2>2 DEF SameData, Told
<1> HIDE DEF G, H
<1>4. v.items \in Seq(H)
  <2>1. v.items = [i \in 1..n |-> v.items[i]]
    BY <1>1
  <2> QED  BY <1>2, <1>3, <2>1
<1> QED  BY <1>1, <1>4 DEF H, Tells, Drawn

LEMMA RetoldGood ==
    ASSUME NEW all, NEW r, NEW k, NEW t, NEW c, NEW flt, NEW s, NEW v, NEW str,
           Good(all, r, k, t, c, flt, s, v, str),
           NEW l, NEW u, NEW d, HaveTypes(l, u, d, flt), SameData(all, k, t, c, l, u, d)
    PROVE  Good(all, r, l, u, d, flt, s, v, str)
<1>1. /\ all \in Seq(Files) /\ IsInjective(all) /\ r \in Seq(Files) /\ IsInjective(r)
      /\ Range(r) \subseteq Range(all) /\ s \in Sorts
      /\ \A f \in Range(all) : k[f] \in Keys /\ t[f] \in BOOLEAN
  BY DEF Good, Ready
<1>2. \A f \in Range(all) : l[f] \in Keys /\ l[f] = k[f] /\ u[f] \in BOOLEAN
  BY <1>1 DEF SameData
<1>3. Ready(all, r, l, u, s)
  BY <1>1, <1>2 DEF Ready
<1>4. Accepted(all, l, flt) = Accepted(all, k, flt)
  BY <1>2 DEF Accepted
<1>5. Ordered(all, l, s)
  <2>1. \A i \in DOMAIN all : all[i] \in Range(all)
    BY <1>1, PlacesOf
  <2>2. \A i \in DOMAIN all : l[all[i]] = k[all[i]]
    BY <1>2, <2>1
  <2>3. \A i, j \in DOMAIN all : Before(l, s, all[j], all[i]) <=> Before(k, s, all[j], all[i])
    BY <2>2 DEF Before
  <2> QED  BY <2>3 DEF Ordered, Good
<1>6. IfInOrder(str, v, r, l, u, d)
  <2>1. SameData(r, k, t, c, l, u, d)
    BY <1>1 DEF SameData
  <2>2. Tells(v, r, k, t, c) => Tells(v, r, l, u, d)
    BY <1>1, <2>1, Retelling
  <2> QED  BY <2>2 DEF IfInOrder, Good
<1> QED  BY <1>3, <1>4, <1>5, <1>6 DEF Good


(* _gth_file_store_reorder and gth_file_store_reorder: the view is told. *)
LEMMA ReorderView ==
    ASSUME NEW r \in Seq(Files), NEW v, ViewOK(v, Len(r)), ~ v.crashed,
           NEW o, IsOrder(o, Len(r)), NEW q, q = [i \in 1..Len(r) |-> r[o[i]]],
           NEW str, NEW k, NEW t, NEW c, IfInOrder(str, v, r, k, t, c)
    PROVE  LET w == RowsReordered(v, o)
           IN  ViewOK(w, Len(r)) /\ IfInOrder(str, w, q, k, t, c) /\ Keeps(v, w, r, str)
<1> DEFINE w == RowsReordered(v, o)
           G == Told(k, t, c)
<1>1. Drawn(v, StoreItems) /\ Len(v.items) = Len(r)
  BY DEF ViewOK
<1>2. IsOrder(o, Len(v.items)) /\ StoreItems \in SUBSET StoreItems
  BY <1>1
<1>3. Drawn(w, StoreItems) /\ Reorders(v, w, o)
  BY <1>1, <1>2, ReorderedFacts
<1>4. G \in SUBSET StoreItems
  BY ToldItems
<1> HIDE DEF w, G
<1>5. ViewOK(w, Len(r))
  BY <1>1, <1>3 DEF ViewOK, Drawn, Flagged, Reorders
<1>6. CASE ~ str
  <2>1. Drawn(v, G) /\ Shown(v) = r
    BY <1>6 DEF IfInOrder, Tells, G
  <2>2. Drawn(w, G)
    BY <1>2, <1>4, <2>1, ReorderedFacts DEF w
  <2>3. Shown(w) = q
    BY <1>1, <1>3, <2>1 DEF Reorders
  <2>4. SelectedFiles(v) \subseteq Range(r)
    BY <2>1, SelectedShown DEF Drawn
  <2>5. SelectedFiles(w) = SelectedFiles(v) \intersect Range(r)
    BY <1>3, <2>4 DEF Reorders
  <2> QED  BY <1>5, <2>2, <2>3, <2>5 DEF IfInOrder, Keeps, Tells, w, G
<1>7. CASE str
  <2>1. IfInOrder(str, w, q, k, t, c) /\ Keeps(v, w, r, str)
    BY <1>7 DEF IfInOrder, Keeps
  <2> QED  BY <1>5, <2>1 DEF w
<1> QED  BY <1>6, <1>7

\* rows that the user moved
Rearranged(r, o) == [i \in 1..Len(r) |-> r[o[i]]]

(* A permutation of rows. *)
LEMMA ReorderRows ==
    ASSUME NEW r \in Seq(Files), IsInjective(r), NEW o \in [1..Len(r) -> 1..Len(r)], IsInjective(o),
           NEW q, q = Rearranged(r, o)
    PROVE  /\ q \in Seq(Files) /\ Len(q) = Len(r) /\ IsInjective(q) /\ Range(q) = Range(r)
           /\ IsOrder(o, Len(r))
<1> DEFINE n == Len(r)
           I == 1..n
<1>1. n \in Nat /\ (\A i \in I : r[i] \in Files) /\ \A i, j \in I : r[i] = r[j] => i = j
  BY PlacesOf
<1>2. IsFiniteSet(I)
  BY <1>1, FS_Interval
<1>3. o \in [I -> I] /\ \A i, j \in I : o[i] = o[j] => i = j
  BY DEF IsInjective
<1>4. \A a \in I : \E i \in I : o[i] = a
  <2> HIDE DEF I
  <2>1. o \in Injection(I, I)
    BY <1>3 DEF Injection, IsInjective
  <2>2. o \in Surjection(I, I)
    BY <1>2, <2>1, FS_Injection
  <2> QED  BY <2>2 DEF Surjection
<1>5. q \in Seq(Files) /\ Len(q) = n
  BY <1>1, <1>3 DEF Rearranged
<1>6. \A i \in I : q[i] = r[o[i]] /\ o[i] \in I
  BY <1>3 DEF Rearranged
<1>7. DOMAIN q = I
  BY DEF Rearranged
<1> HIDE DEF n, I
<1>8. IsInjective(q)
  <2>1. ASSUME NEW i \in I, NEW j \in I, q[i] = q[j]  PROVE i = j
    <3>1. r[o[i]] = r[o[j]] /\ o[i] \in I /\ o[j] \in I
      BY <1>6, <2>1
    <3>2. o[i] = o[j]
      BY <1>1, <3>1
    <3> QED  BY <1>3, <3>2
  <2> QED  BY <1>7, <2>1 DEF IsInjective
<1>9. \A x : x \in Range(q) <=> x \in Range(r)
  <2>1. \A x : x \in Range(r) <=> \E i \in I : r[i] = x
    BY PlacesOf DEF I, n
  <2>2. \A x : x \in Range(q) <=> \E i \in I : q[i] = x
    BY <1>7 DEF Range
  <2>3. ASSUME NEW x \in Range(r)  PROVE x \in Range(q)
    <3>1. PICK a \in I : r[a] = x
      BY <2>1
    <3>2. PICK i \in I : o[i] = a
      BY <1>4
    <3>3. q[i] = x
      BY <1>6, <3>1, <3>2
    <3> QED  BY <2>2, <3>3
  <2>4. ASSUME NEW x \in Range(q)  PROVE x \in Range(r)
    <3>1. PICK i \in I : q[i] = x
      BY <2>2
    <3>2. r[o[i]] = x /\ o[i] \in I
      BY <1>6, <3>1
    <3> QED  BY <2>1, <3>2
  <2> QED  BY <2>3, <2>4
<1>10. IsOrder(o, n)
  BY <1>3, <1>4 DEF IsOrder, I
<1> QED  BY <1>5, <1>8, <1>9, <1>10 DEF n

\* the rows that are not marked are shown as they are
Fresh(v, visible, k, t, marked) ==
    \A p \in 1..Len(visible) :
        \/ visible[p] \in marked
        \/ /\ v.items[p].file = visible[p] /\ v.items[p].key = k[visible[p]]
           /\ v.items[p].thumb = t[visible[p]]

FreshIf(str, v, visible, k, t, marked) ==
    str \in BOOLEAN /\ (~ str => Fresh(v, visible, k, t, marked))

HaveData(visible, k, t) == \A f \in Range(visible) : k[f] \in Keys /\ t[f] \in BOOLEAN

(* _gth_file_store_list_changed *)
LEMMA ListChangedGood ==
    ASSUME NEW visible \in Seq(Files), IsInjective(visible), NEW k, NEW t, HaveData(visible, k, t),
           NEW v, ViewOK(v, Len(visible)), ~ v.crashed, NEW marked, NEW str,
           FreshIf(str, v, visible, k, t, marked)
    PROVE  LET w == ListChanged(visible, marked, k, t, v)
           IN  /\ ViewOK(w, Len(visible)) /\ w.selection = v.selection
               /\ IfInOrder(str, w, visible, k, t, marked \ Range(visible))
<1> DEFINE w == ListChanged(visible, marked, k, t, v)
           c == marked \ Range(visible)
           G == Told(k, t, c)
           n == Len(visible)
<1>1. v \in Views(Files, Keys) /\ Flagged(v) /\ Len(v.items) = Len(visible)
  BY DEF ViewOK, Drawn
<1>2. /\ Retold(v, w, n)
      /\ \A p \in 1..n : w.items[p] = IF visible[p] \in marked
                                     THEN NewItem(k, t, visible[p], v.items[p]) ELSE v.items[p]
  <2>1. \A f \in Range(visible) : k[f] \in Keys /\ t[f] \in BOOLEAN
    BY DEF HaveData
  <2> QED  BY <1>1, <2>1, ChangesShow
<1> HIDE DEF w
<1>3. /\ w \in Views(Files, Keys) /\ Flagged(w) /\ ~ w.crashed /\ Len(w.items) = n
      /\ w.selection = v.selection
  BY <1>2 DEF Retold
<1>4. w.items \in Seq(StoreItems) /\ \A i \in 1..n : w.items[i] \in StoreItems /\ Shown(w)[i] = w.items[i].file
  BY <1>3, ShownFacts
<1>5. Drawn(w, StoreItems)
  BY <1>3, <1>4 DEF Drawn
<1>6. ViewOK(w, n)
  BY <1>3, <1>5 DEF ViewOK, Flagged
<1>7. ASSUME ~ str  PROVE Tells(w, visible, k, t, c)
  <2>1. ASSUME NEW p \in 1..n
        PROVE  /\ w.items[p].file = visible[p] /\ w.items[p].key = k[visible[p]]
               /\ w.items[p].thumb = t[visible[p]]
    <3>1. CASE visible[p] \in marked
      <4>1. w.items[p] = NewItem(k, t, visible[p], v.items[p])
        BY <1>2, <3>1
      <4> QED  BY <4>1 DEF NewItem, RowItem, Item
    <3>2. CASE visible[p] \notin marked
      <4>1. w.items[p] = v.items[p]
        BY <1>2, <3>2
      <4> QED  BY <1>7, <3>2, <4>1 DEF Fresh, FreshIf
    <3> QED  BY <3>1, <3>2
  <2>2. \A p \in 1..n : w.items[p] \in G
    BY <1>4, <2>1 DEF Told
  <2> HIDE DEF G
  <2>3. n \in Nat /\ visible = [p \in 1..n |-> visible[p]]
    OBVIOUS
  <2> HIDE DEF n
  <2>4. w.items \in Seq(G)
    <3>1. w.items = [p \in 1..n |-> w.items[p]]
      BY <1>3, <1>4
    <3> QED  BY <2>2, <2>3, <3>1
  <2>5. Shown(w) = visible
    <3>1. Shown(w) = [p \in 1..n |-> Shown(w)[p]]
      BY <1>3, ShownFacts
    <3>2. \A p \in 1..n : Shown(w)[p] = visible[p]
      BY <1>4, <2>1
    <3> QED  BY <2>3, <3>1, <3>2
  <2> QED  BY <1>3, <2>4, <2>5 DEF Tells, Drawn, G
<1>8. IfInOrder(str, w, visible, k, t, c)
  BY <1>7 DEF IfInOrder, FreshIf
<1> QED  BY <1>3, <1>6, <1>8 DEF w


\* the rows q after each signal, and the positions it gives
HidingSteps(visible, queue, v, h, pos, q, N) ==
    /\ N \in 0..Len(visible) /\ q[0] = visible /\ Removals(q, pos, N)
    /\ q[N] = Keep(visible, Files \ Range(queue)) /\ h.rows = q[N]
    /\ Len(h.rows) = Len(visible) - N
    /\ h.view = HandleAll(v, DeletionsAt(pos, N)) /\ ArePlaces(pos, N)

(* gth_file_store_exec_remove: the rows hidden one by one, whatever their order. *)
LEMMA HideRowsSteps ==
    ASSUME NEW visible \in Seq(Files), IsInjective(visible), NEW queue \in Seq(Files),
           IsInjective(queue), NEW v
    PROVE  \E pos, q, N :
              HidingSteps(visible, queue, v, HideRows(visible, queue, v), pos, q, N)
<1> DEFINE hidden == Keep(queue, Range(visible))
           N == Len(hidden)
           Gone(n) == {hidden[j] : j \in 1..n}
           Left(n) == Keep(visible, Files \ Gone(n))
           q == [n \in 0..N |-> Left(n)]
           pos == [i \in 1..N |-> PosIn(Left(i - 1), hidden[i])]
           h == HideRows(visible, queue, v)
           signals == [i \in DOMAIN hidden |-> Deleted(PosIn(Left(i - 1), hidden[i]))]
<1>1. /\ hidden \in Seq(Files) /\ IsInjective(hidden)
      /\ Range(hidden) = Range(queue) \intersect Range(visible)
  BY KeepFacts
<1>2. h.rows = Left(N) /\ h.view = HandleAll(v, signals)
  BY DEF HideRows
<1> HIDE DEF hidden, h
<1>3. N \in Nat /\ DOMAIN hidden = 1..N /\ \A i, j \in 1..N : hidden[i] = hidden[j] => i = j
  BY <1>1, PlacesOf
<1>4. signals = DeletionsAt(pos, N)
  BY <1>3 DEF DeletionsAt
<1> HIDE DEF signals
<1>5. Range(visible) \subseteq Files
  BY PlacesOf
<1>6. \A n \in 0..N : /\ Left(n) \in Seq(Files) /\ IsInjective(Left(n))
                      /\ Range(Left(n)) = Range(visible) \ Gone(n)
  <2> SUFFICES ASSUME NEW n \in 0..N
               PROVE  /\ Left(n) \in Seq(Files) /\ IsInjective(Left(n))
                      /\ Range(Left(n)) = Range(visible) \ Gone(n)
    OBVIOUS
  <2> DEFINE A == Files \ Gone(n)
             w == Keep(visible, A)
  <2> HIDE DEF A
  <2>1. w \in Seq(Files) /\ IsInjective(w) /\ Range(w) = Range(visible) \intersect A
    BY KeepFacts
  <2>2. Range(w) = Range(visible) \ Gone(n)
    BY <1>5, <2>1 DEF A
  <2> QED  BY <2>1, <2>2 DEF A
<1>7. q[0] = visible
  <2>1. Files \ Gone(0) = Files
    OBVIOUS
  <2>2. Keep(visible, Files) = visible
    BY <1>5, KeepWhole
  <2>3. q[0] = Keep(visible, Files \ Gone(0))
    BY <1>3
  <2> HIDE DEF Gone, q
  <2> QED  BY <2>1, <2>2, <2>3
<1>8. q[N] = Left(N)
  BY <1>3
<1>9. ASSUME NEW n \in 0..N-1
      PROVE  pos[n+1] \in 1..Len(q[n]) /\ q[n+1] = RemoveAt(q[n], pos[n+1])
  <2> DEFINE x == hidden[n+1]
             p == pos[n+1]
             w == Left(n)
             A == Files \ Gone(n)
             B == Files \ {x}
  <2>1. n + 1 \in 1..N /\ n \in 0..N /\ n + 1 \in 0..N /\ (n + 1) - 1 = n
    BY <1>3
  <2>2. q[n] = w /\ q[n+1] = Left(n + 1)
    BY <2>1
  <2>3. x \in Range(visible) /\ x \notin Gone(n)
    <3>1. x \in Range(hidden)
      BY <1>1, <1>3, <2>1, PlacesOf
    <3>2. x \notin Gone(n)
      BY <1>3, <2>1
    <3> QED  BY <1>1, <3>1, <3>2
  <2>4. x \in Range(w) /\ w \in Seq(Files) /\ IsInjective(w)
    BY <1>6, <2>1, <2>3
  <2>5. p = CHOOSE a \in DOMAIN w : w[a] = x
    BY <2>1 DEF PosIn
  <2>6. Gone(n + 1) = Gone(n) \union {x}
    BY <2>1
  <2>7. Files \ Gone(n + 1) = A \intersect B
    BY <2>6
  <2>8. w = Keep(visible, A)
    OBVIOUS
  <2>9. Left(n + 1) = Keep(visible, A \intersect B)
    BY <2>7
  <2> HIDE DEF p, x, w, Gone, q, pos, Left
  <2>10. p \in 1..Len(w) /\ w[p] = x
    BY <2>4, <2>5, PlaceOf
  <2>11. RemoveAt(w, p) = Keep(w, Files \ {w[p]})
    <3>1. p \in 1..Len(w)
      BY <2>10
    <3> QED  BY <2>4, <3>1, RemoveAtRange
  <2>12. RemoveAt(w, p) = Keep(w, B)
    BY <2>10, <2>11
  <2> HIDE DEF A, B
  <2>13. Keep(Keep(visible, A), B) = Keep(visible, A \intersect B)
    BY KeepKeep
  <2>14. q[n+1] = RemoveAt(w, p)
    BY <2>2, <2>8, <2>9, <2>12, <2>13
  <2> QED  BY <2>2, <2>10, <2>14 DEF p
<1>10. Gone(N) = Range(hidden)
  BY <1>1, <1>3, PlacesOf
<1>11. Left(N) = Keep(visible, Files \ Range(queue))
  <2> DEFINE A == Files \ Gone(N)
             B == Files \ Range(queue)
  <2>1. \A x \in Range(visible) : x \in A <=> x \in B
    BY <1>1, <1>10
  <2> HIDE DEF A, B
  <2>2. Keep(visible, A) = Keep(visible, B)
    BY <2>1, KeepSame
  <2> QED  BY <2>2 DEF A, B
<1>12. N \in 0..Len(visible) /\ Len(Left(N)) = Len(visible) - N
  <2> DEFINE w == Left(N)
  <2>1. w \in Seq(Files) /\ IsInjective(w) /\ Range(w) = Range(visible) \ Range(hidden)
    BY <1>3, <1>6, <1>10, SMTT(30)
  <2> HIDE DEF w
  <2>2. AreParts(visible, w, hidden, Range(hidden))
    BY <1>1, <2>1 DEF AreParts
  <2>3. /\ Len(visible) \in Nat /\ Len(w) \in Nat /\ Len(hidden) \in Nat
        /\ Len(visible) = Len(w) + Len(hidden)
    BY <1>1, <2>1, <2>2, PartLengths
  <2> QED  BY <2>3 DEF w
<1>13. ArePlaces(pos, N)
  <2> SUFFICES ASSUME NEW i \in 1..N  PROVE pos[i] \in Nat \ {0}
    BY DEF ArePlaces
  <2> DEFINE n == i - 1
  <2>1. n \in 0..N-1 /\ n \in 0..N /\ n + 1 = i
    BY <1>3
  <2>2. q[n] \in Seq(Files)
    BY <1>6, <2>1
  <2> HIDE DEF n, q, pos
  <2>3. pos[n+1] \in 1..Len(q[n])
    BY <1>9, <2>1
  <2>4. Len(q[n]) \in Nat
    BY <2>2
  <2>5. pos[n+1] \in Nat \ {0}
    BY <2>3, <2>4
  <2> QED  BY <2>1, <2>5
<1> HIDE DEF q, pos, N, Left
<1>14. Removals(q, pos, N)
  BY <1>9 DEF Removals
<1>15. HidingSteps(visible, queue, v, h, pos, q, N)
  BY <1>2, <1>4, <1>7, <1>8, <1>11, <1>12, <1>13, <1>14 DEF HidingSteps
<1> QED  BY <1>15 DEF h

LEMMA HideRowsGood ==
    ASSUME NEW visible \in Seq(Files), IsInjective(visible), NEW queue \in Seq(Files),
           IsInjective(queue), NEW v, ViewOK(v, Len(visible)),
           NEW str, NEW k, NEW t, NEW c, IfInOrder(str, v, visible, k, t, c)
    PROVE  LET h == HideRows(visible, queue, v)
           IN  /\ h.rows = Keep(visible, Files \ Range(queue))
               /\ ViewOK(h.view, Len(h.rows)) /\ IfInOrder(str, h.view, h.rows, k, t, c)
               /\ Keeps(v, h.view, h.rows, str)
<1> DEFINE h == HideRows(visible, queue, v)
           G == Told(k, t, c)
<1>1. PICK pos, q, N :
              /\ N \in 0..Len(visible) /\ q[0] = visible /\ Removals(q, pos, N)
              /\ q[N] = Keep(visible, Files \ Range(queue)) /\ h.rows = q[N]
              /\ Len(h.rows) = Len(visible) - N
              /\ h.view = HandleAll(v, DeletionsAt(pos, N)) /\ ArePlaces(pos, N)
  <2>1. PICK pos, q, N : HidingSteps(visible, queue, v, h, pos, q, N)
    BY HideRowsSteps
  <2> QED  BY <2>1 DEF HidingSteps
<1> HIDE DEF h
<1>2. Len(visible) \in Nat /\ N \in Nat
  BY <1>1
<1> DEFINE L == Len(visible)
           signals == DeletionsAt(pos, N)
           w == HandleAll(v, signals)
<1>3. ViewOK(w, L - N)
  <2>1. L \in Nat /\ N \in 0..L /\ ViewOK(v, L)
    BY <1>1, <1>2
  <2>2. ArePlaces(pos, N)
    BY <1>1
  <2> HIDE DEF L
  <2> QED  BY <2>1, <2>2, DeletionsSafe
<1>4. ASSUME ~ str  PROVE Drawn(w, G) /\ Leaves(v, w, q[N])
  <2>1. Drawn(v, G) /\ Shown(v) = visible
    BY <1>4 DEF IfInOrder, Tells
  <2>2. RemovedFrom(v, q, pos, N)
    BY <1>1, <2>1 DEF RemovedFrom
  <2>3. G \in SUBSET StoreItems
    BY ToldItems
  <2> HIDE DEF G
  <2> QED  BY <1>2, <2>1, <2>2, <2>3, DeletionsShow
<1> HIDE DEF w
<1>5. h.view = w
  BY <1>1 DEF w
<1>6. IfInOrder(str, w, h.rows, k, t, c) /\ Keeps(v, w, h.rows, str)
  <2>1. str \in BOOLEAN
    BY DEF IfInOrder
  <2>2. ASSUME ~ str
        PROVE  Tells(w, h.rows, k, t, c) /\ SelectedFiles(w) = SelectedFiles(v) \intersect Range(h.rows)
    <3>1. Shown(v) = visible
      BY <2>2 DEF IfInOrder, Tells
    <3> QED  BY <1>1, <1>4, <2>2, <3>1 DEF Leaves, Tells
  <2> QED  BY <2>1, <2>2 DEF IfInOrder, Keeps
<1> QED  BY <1>1, <1>3, <1>5, <1>6 DEF h


(* gth_file_store_clear: the rows are deleted from the last one on. *)
LEMMA ClearShows ==
    ASSUME NEW r \in Seq(Files), NEW v, ViewOK(v, Len(r)), ~ v.crashed
    PROVE  LET w == HandleAll(v, [i \in DOMAIN r |-> Deleted(Len(r) + 1 - i)])
           IN  Drawn(w, StoreItems) /\ Len(w.items) = 0
<1> DEFINE d == Shown(v)
           L == Len(r)
           q == [n \in 0..L |-> First(d, L - n)]
           pos == [i \in 1..L |-> L + 1 - i]
           signals == [i \in DOMAIN r |-> Deleted(Len(r) + 1 - i)]
           w == HandleAll(v, signals)
<1>1. Drawn(v, StoreItems) /\ Len(v.items) = L /\ L \in Nat /\ DOMAIN r = 1..L
  BY DEF ViewOK
<1>2. v \in Views(Files, Keys)
  BY <1>1 DEF Drawn
<1>3. d \in Seq(Files) /\ Len(d) = L
  BY <1>1, <1>2, ShownFacts
<1> HIDE DEF d, L
<1>4. /\ First(d, 0) = <<>> /\ First(d, L) = d
      /\ \A n \in 0..L : /\ First(d, n) \in Seq(Files) /\ Len(First(d, n)) = n
                         /\ \A i \in 1..n : First(d, n)[i] = d[i]
  BY <1>3, FirstFacts
<1>5. q[0] = d /\ q[L] = <<>>
  BY <1>1, <1>4
<1>6. ASSUME NEW n \in 0..L-1
      PROVE  pos[n+1] \in 1..Len(q[n]) /\ q[n+1] = RemoveAt(q[n], pos[n+1])
  <2> DEFINE m == L - n
             x == First(d, m)
             y == First(d, m - 1)
             z == RemoveAt(x, m)
  <2>1. /\ m \in 1..L /\ m \in 0..L /\ m - 1 \in 0..L /\ m \in Nat /\ pos[n+1] = m
        /\ q[n] = x /\ q[n+1] = y
    <3>1. n \in Nat /\ n + 1 \in 1..L /\ n \in 0..L /\ n + 1 \in 0..L /\ L - (n + 1) = m - 1
      BY <1>1
    <3>2. m \in 1..L /\ L + 1 - (n + 1) = m
      BY <1>1, <3>1
    <3> HIDE DEF x, y
    <3>3. q[n] = First(d, m) /\ q[n+1] = First(d, m - 1) /\ pos[n+1] = m
      BY <3>1, <3>2
    <3> QED  BY <1>1, <3>2, <3>3 DEF x, y
  <2> HIDE DEF m, q, pos
  <2>2. /\ x \in Seq(Files) /\ Len(x) = m /\ y \in Seq(Files) /\ Len(y) = m - 1
        /\ (\A i \in 1..m : x[i] = d[i]) /\ (\A i \in 1..m-1 : y[i] = d[i])
    BY <1>4, <2>1
  <2> HIDE DEF x, y
  <2>3. m \in 1..Len(x)
    BY <2>1, <2>2
  <2>4. /\ z \in Seq(Files) /\ Len(z) = m - 1
        /\ \A i \in 1..m-1 : z[i] = x[IF i < m THEN i ELSE i + 1]
    BY <2>2, <2>3, RemoveAtFacts
  <2> HIDE DEF z
  <2>5. ASSUME NEW i \in 1..m-1  PROVE z[i] = y[i]
    <3>1. i < m /\ i \in 1..m
      BY <2>1
    <3>2. z[i] = x[i]
      BY <2>4, <3>1
    <3> QED  BY <2>2, <3>1, <3>2
  <2>6. z = y
    BY <2>2, <2>4, <2>5
  <2> QED  BY <2>1, <2>3, <2>6 DEF z
<1>7. signals = DeletionsAt(pos, L)
  BY <1>1 DEF DeletionsAt, L
<1> HIDE DEF q, pos, signals
<1>8. RemovedFrom(v, q, pos, L)
  BY <1>5, <1>6 DEF RemovedFrom, Removals, d
<1>9. StoreItems \in SUBSET StoreItems
  OBVIOUS
<1> HIDE DEF w
<1>10. Drawn(w, StoreItems) /\ Leaves(v, w, q[L])
  BY <1>1, <1>7, <1>8, <1>9, DeletionsShow DEF w
<1>11. Len(Shown(w)) = 0
  BY <1>5, <1>10 DEF Leaves
<1>12. Len(w.items) = Len(Shown(w))
  BY <1>10, ShownFacts DEF Drawn
<1> QED  BY <1>10, <1>11, <1>12 DEF w, signals

(* A view without items. *)
LEMMA NoItems ==
    ASSUME NEW w, Drawn(w, StoreItems), Len(w.items) = 0
    PROVE  /\ SelectedFiles(w) = {} /\ ViewOK(w, 0)
           /\ \A k, t, c : Tells(w, <<>>, k, t, c)
<1>1. w \in Views(Files, Keys) /\ w.items \in Seq(StoreItems) /\ Flagged(w) /\ ~ w.crashed
  BY DEF Drawn
<1>2. w.items = <<>>
  BY <1>1
<1>3. w.selection = {}
  <2>1. DOMAIN w.items = {}
    BY <1>2
  <2>2. w.selection = {p \in DOMAIN w.items : w.items[p].selected}
    BY <1>1 DEF Flagged
  <2> QED  BY <2>1, <2>2
<1>4. SelectedFiles(w) = {}
  BY <1>3 DEF SelectedFiles
<1>5. ViewOK(w, 0)
  BY <1>1, <1>3 DEF ViewOK
<1>6. Shown(w) = <<>>
  BY <1>2 DEF Shown
<1>7. ASSUME NEW k, NEW t, NEW c  PROVE Tells(w, <<>>, k, t, c)
  <2> DEFINE G == Told(k, t, c)
  <2>1. <<>> \in Seq(G)
    <3> HIDE DEF G
    <3> QED  OBVIOUS
  <2> HIDE DEF G
  <2>2. w.items \in Seq(G)
    BY <1>2, <2>1
  <2> QED  BY <1>1, <1>6, <2>2 DEF Tells, Drawn, G
<1> QED  BY <1>4, <1>5, <1>7

(* _gth_file_store_update_visibility: the new rows inserted at a position. *)
LEMMA MergedFacts ==
    ASSUME NEW all \in Seq(Files), IsInjective(all), NEW add \in Seq(Files), IsInjective(add),
           Range(all) \intersect Range(add) = {}, NEW position \in 0..Len(all)
    PROVE  LET m == Merged(all, add, position)
           IN  m \in Seq(Files) /\ IsInjective(m) /\ Range(m) = Range(all) \union Range(add)
<1> DEFINE n == Len(all)
           l == SubSeq(all, 1, position)
           r == SubSeq(all, position + 1, n)
           a == l \o add
           m == a \o r
<1>1. n \in Nat /\ position \in 0..n /\ (\A i \in 1..n : all[i] \in Files)
      /\ (\A i, j \in 1..n : all[i] = all[j] => i = j)
      /\ (\A x : x \in Range(all) <=> \E i \in 1..n : all[i] = x)
  BY PlacesOf
<1>2. Merged(all, add, position) = m
  BY DEF Merged
<1>3. l \in Seq(Files) /\ Len(l) = position /\ \A i \in 1..position : l[i] = all[i]
  BY <1>1
<1>4. /\ r \in Seq(Files) /\ Len(r) = n - position
      /\ \A i \in 1..n-position : r[i] = all[position + i]
  BY <1>1
<1> HIDE DEF n, l, r
<1>5. \A x : x \in Range(l) <=> \E i \in 1..position : all[i] = x
  <2>1. \A x : x \in Range(l) <=> \E i \in 1..position : l[i] = x
    BY <1>3, PlacesOf
  <2> QED  BY <1>3, <2>1
<1>6. \A x : x \in Range(r) <=> \E i \in 1..n-position : all[position + i] = x
  <2>1. \A x : x \in Range(r) <=> \E i \in 1..n-position : r[i] = x
    BY <1>4, PlacesOf
  <2> QED  BY <1>4, <2>1
<1>7. IsInjective(l)
  <2>1. \A i, j \in 1..position : l[i] = l[j] => i = j
    <3> SUFFICES ASSUME NEW i \in 1..position, NEW j \in 1..position, l[i] = l[j]  PROVE i = j
      OBVIOUS
    <3>1. i \in 1..n /\ j \in 1..n
      BY <1>1
    <3> QED  BY <1>1, <1>3, <3>1
  <2> QED  BY <1>3, <2>1, PlacesOf
<1>8. IsInjective(r)
  <2>1. \A i, j \in 1..n-position : r[i] = r[j] => i = j
    <3> SUFFICES ASSUME NEW i \in 1..n-position, NEW j \in 1..n-position, r[i] = r[j]  PROVE i = j
      OBVIOUS
    <3>1. position + i \in 1..n /\ position + j \in 1..n
      BY <1>1
    <3>2. all[position + i] = all[position + j]
      BY <1>4
    <3>3. position + i = position + j
      BY <1>1, <3>1, <3>2
    <3> QED  BY <1>1, <3>3
  <2> QED  BY <1>4, <2>1, PlacesOf
<1>9. Range(l) \intersect Range(r) = {}
  <2> SUFFICES ASSUME NEW x \in Range(l), x \in Range(r)  PROVE FALSE
    OBVIOUS
  <2>1. PICK i \in 1..position : all[i] = x
    BY <1>5
  <2>2. PICK j \in 1..n-position : all[position + j] = x
    BY <1>6
  <2>3. i \in 1..n /\ position + j \in 1..n /\ i # position + j
    BY <1>1
  <2> QED  BY <1>1, <2>1, <2>2, <2>3
<1>10. Range(l) \union Range(r) = Range(all)
  <2>1. ASSUME NEW x \in Range(l) \union Range(r)  PROVE x \in Range(all)
    <3>1. CASE x \in Range(l)
      <4>1. PICK i \in 1..position : all[i] = x
        BY <1>5, <3>1
      <4>2. i \in 1..n
        BY <1>1
      <4> QED  BY <1>1, <4>1, <4>2
    <3>2. CASE x \in Range(r)
      <4>1. PICK j \in 1..n-position : all[position + j] = x
        BY <1>6, <3>2
      <4>2. position + j \in 1..n
        BY <1>1
      <4> QED  BY <1>1, <4>1, <4>2
    <3> QED  BY <2>1, <3>1, <3>2
  <2>2. ASSUME NEW x \in Range(all)  PROVE x \in Range(l) \union Range(r)
    <3>1. PICK i \in 1..n : all[i] = x
      BY <1>1, <2>2
    <3>2. CASE i <= position
      <4>1. i \in 1..position
        BY <1>1, <3>2
      <4> QED  BY <1>5, <3>1, <4>1
    <3>3. CASE i > position
      <4> DEFINE j == i - position
      <4>1. j \in 1..n-position /\ position + j = i
        BY <1>1, <3>3
      <4> HIDE DEF j
      <4>2. all[position + j] = x
        BY <3>1, <4>1
      <4> QED  BY <1>6, <4>1, <4>2
    <3> QED  BY <1>1, <3>2, <3>3
  <2> QED  BY <2>1, <2>2
<1>11. a \in Seq(Files) /\ IsInjective(a) /\ Range(a) = Range(l) \union Range(add)
  <2>1. Range(l) \intersect Range(add) = {}
    BY <1>10
  <2> QED  BY <1>3, <1>7, <2>1, ConcatFacts
<1> HIDE DEF a
<1>12. m \in Seq(Files) /\ IsInjective(m) /\ Range(m) = Range(a) \union Range(r)
  <2>1. Range(a) \intersect Range(r) = {}
    BY <1>9, <1>10, <1>11
  <2> QED  BY <1>4, <1>8, <1>11, <2>1, ConcatFacts
<1>13. Range(m) = Range(all) \union Range(add)
  BY <1>10, <1>11, <1>12
<1> QED  BY <1>2, <1>12, <1>13


-----------------------------------------------------------------------------
(* The operations keep the invariant *)

StoreInv == Good(allRows, rows, key, thumb, changed, filter, sort, view, strayed)

\* the selection follows the files
SelectionKept == Keeps(view, view', rows', strayed')

LEMMA StoreParts ==
    ASSUME StoreInv
    PROVE  /\ allRows \in Seq(Files) /\ IsInjective(allRows) /\ rows \in Seq(Files) /\ IsInjective(rows)
           /\ Range(rows) \subseteq Range(allRows) /\ sort \in Sorts
           /\ \A f \in Range(allRows) : f \in Files /\ key[f] \in Keys /\ thumb[f] \in BOOLEAN
           /\ key \in [Files -> Keys \union {NoKey}] /\ thumb \in [Files -> BOOLEAN]
           /\ changed \subseteq Files /\ filter \in Filters /\ strayed \in BOOLEAN
           /\ HaveTypes(key, thumb, changed, filter)
           /\ Range(rows) = Accepted(allRows, key, filter) /\ Ordered(allRows, key, sort)
           /\ Ready(allRows, rows, key, thumb, sort)
           /\ ViewOK(view, Len(rows)) /\ IfInOrder(strayed, view, rows, key, thumb, changed)
<1>1. Ready(allRows, rows, key, thumb, sort) /\ HaveTypes(key, thumb, changed, filter)
  BY DEF StoreInv, Good
<1>2. \A f \in Range(allRows) : f \in Files
  BY <1>1, PlacesOf DEF Ready
<1> QED  BY <1>1, <1>2 DEF StoreInv, Good, Ready, HaveTypes, IfInOrder

LEMMA QueueFacts ==
    ASSUME NEW S \in SUBSET Files, NEW queue \in Queues(S)
    PROVE  queue \in Seq(Files) /\ IsInjective(queue) /\ Range(queue) \subseteq S
<1>1. IsFiniteSet(S)
  BY StoreAssumption, FS_Subset
<1>2. Cardinality(S) \in Nat
  BY <1>1, FS_CardinalityType
<1>3. PICK n \in 1..Cardinality(S) : queue \in [1..n -> S] /\ IsInjective(queue)
  BY DEF Queues
<1>4. n \in Nat
  BY <1>2
<1>5. queue \in Seq(S)
  BY <1>3, <1>4
<1>6. Range(queue) \subseteq S
  BY <1>5, PlacesOf
<1>7. queue \in Seq(Files)
  BY <1>3, <1>4
<1> QED  BY <1>3, <1>6, <1>7

(* Update, where it is called. *)
LEMMA UpdateStep ==
    ASSUME NEW all, NEW visible, NEW k, NEW t, NEW c, NEW flt, NEW s, NEW v,
           Update(all, visible, k, t, flt, s, v),
           Ready(all, visible, k, t, s), HaveTypes(k, t, c, flt), ViewOK(v, Len(visible)),
           IfInOrder(strayed, v, visible, k, t, c)
    PROVE  Good(allRows', rows', k, t, c, flt, s, view', strayed') /\ Keeps(v, view', rows', strayed')
<1> DEFINE u == UpdateVisibility(all, visible, k, t, flt, s, v)
           after == strayed \/ ~ InOrderOf(visible, all)
<1>1. allRows' = u.all /\ rows' = u.rows /\ view' = u.view /\ strayed' = after
  BY DEF Update
<1>2. Good(u.all, u.rows, k, t, c, flt, s, u.view, after) /\ Keeps(v, u.view, u.rows, after)
  BY UpdateGood
<1> HIDE DEF u, after
<1> QED  BY <1>1, <1>2

LEMMA AddFilesStep ==
    ASSUME StoreInv, NEW queue \in Queues(Files \ Range(allRows)), NEW position \in 0..Len(allRows),
           NEW data \in [Range(queue) -> Keys], AddFiles(queue, data, position)
    PROVE  StoreInv' /\ SelectionKept
<1> DEFINE all == Merged(allRows, Reverse(queue), position)
<1>1. /\ key' = [f \in Files |-> IF f \in Range(queue) THEN data[f] ELSE key[f]]
      /\ Update(all, rows, key', thumb, filter, sort, view)
      /\ thumb' = thumb /\ changed' = changed /\ filter' = filter /\ sort' = sort
  BY DEF AddFiles
<1>2. queue \in Seq(Files) /\ IsInjective(queue) /\ Range(queue) \subseteq Files \ Range(allRows)
  <2> DEFINE S == Files \ Range(allRows)
  <2>1. S \in SUBSET Files /\ queue \in Queues(S)
    OBVIOUS
  <2> HIDE DEF S
  <2> QED  BY <2>1, QueueFacts DEF S
<1>3. all \in Seq(Files) /\ IsInjective(all) /\ Range(all) = Range(allRows) \union Range(queue)
  <2> DEFINE add == Reverse(queue)
  <2>1. add \in Seq(Files) /\ IsInjective(add) /\ Range(add) = Range(queue)
    BY <1>2, ReverseFacts
  <2> HIDE DEF add
  <2>2. Range(allRows) \intersect Range(add) = {}
    BY <1>2, <2>1
  <2>3. allRows \in Seq(Files) /\ IsInjective(allRows)
    BY StoreParts
  <2>4. LET m == Merged(allRows, add, position)
        IN  m \in Seq(Files) /\ IsInjective(m) /\ Range(m) = Range(allRows) \union Range(add)
    BY <2>1, <2>2, <2>3, MergedFacts
  <2> QED  BY <2>1, <2>4 DEF add
<1> HIDE DEF all
<1>4. \A f \in Range(queue) : key'[f] \in Keys
  BY <1>1, <1>2
<1>5. \A f \in Range(allRows) : key'[f] = key[f]
  BY <1>1, <1>2, StoreParts
<1>6. Ready(all, rows, key', thumb, sort)
  <2>1. \A f \in Range(all) : key'[f] \in Keys /\ thumb[f] \in BOOLEAN
    BY <1>2, <1>3, <1>4, <1>5, StoreParts
  <2> QED  BY <1>3, <2>1, StoreParts DEF Ready
<1>7. HaveTypes(key', thumb, changed, filter)
  <2>1. key' \in [Files -> Keys \union {NoKey}]
    BY <1>1, StoreParts
  <2> QED  BY <2>1, StoreParts DEF HaveTypes
<1>8. IfInOrder(strayed, view, rows, key', thumb, changed)
  <2>1. SameData(rows, key, thumb, changed, key', thumb, changed)
    BY <1>5, StoreParts DEF SameData
  <2>2. rows \in Seq(Files)
    BY StoreParts
  <2>3. Tells(view, rows, key, thumb, changed) => Tells(view, rows, key', thumb, changed)
    BY <2>1, <2>2, Retelling
  <2>4. IfInOrder(strayed, view, rows, key, thumb, changed)
    BY StoreParts
  <2> QED  BY <2>3, <2>4 DEF IfInOrder
<1>9. ViewOK(view, Len(rows))
  BY StoreParts
<1>10. Good(allRows', rows', key', thumb, changed, filter, sort, view', strayed')
       /\ Keeps(view, view', rows', strayed')
  BY <1>1, <1>6, <1>7, <1>8, <1>9, UpdateStep
<1> QED  BY <1>1, <1>10 DEF StoreInv, SelectionKept

LEMMA SetFilterStep ==
    ASSUME StoreInv, NEW flt \in Filters, SetFilter(flt)
    PROVE  StoreInv' /\ SelectionKept
<1>1. /\ filter' = flt /\ Update(allRows, rows, key, thumb, flt, sort, view)
      /\ key' = key /\ thumb' = thumb /\ changed' = changed /\ sort' = sort
  BY DEF SetFilter
<1>2. HaveTypes(key, thumb, changed, flt)
  BY StoreParts DEF HaveTypes
<1>3. /\ Ready(allRows, rows, key, thumb, sort) /\ ViewOK(view, Len(rows))
      /\ IfInOrder(strayed, view, rows, key, thumb, changed)
  BY StoreParts
<1>4. Good(allRows', rows', key, thumb, changed, flt, sort, view', strayed')
      /\ Keeps(view, view', rows', strayed')
  BY <1>1, <1>2, <1>3, UpdateStep
<1> QED  BY <1>1, <1>4 DEF StoreInv, SelectionKept

LEMMA SetSortStep ==
    ASSUME StoreInv, NEW s \in Sorts, SetSort(s)
    PROVE  StoreInv' /\ SelectionKept
<1> DEFINE all == Sorted(allRows, key, s)
           q == Keep(all, Range(rows))
           o == PlacesIn(rows, q)
           w == RowsReordered(view, o)
<1>1. /\ sort' = s /\ allRows' = all /\ rows' = q /\ ~ view.crashed
      /\ view' = Handle(view, Reordered([i \in DOMAIN rows' |-> PosIn(rows, rows'[i])]))
      /\ key' = key /\ thumb' = thumb /\ changed' = changed /\ filter' = filter /\ strayed' = strayed
  BY DEF SetSort
<1>2. view' = w
  <2>1. [i \in DOMAIN rows' |-> PosIn(rows, rows'[i])] = o
    BY <1>1 DEF PlacesIn, PosIn
  <2>2. Handle(view, Reordered(o)) = w
    BY DEF Handle, Reordered
  <2> HIDE DEF o, w
  <2> QED  BY <1>1, <2>1, <2>2
<1>3. /\ all \in Seq(Files) /\ IsInjective(all) /\ Range(all) = Range(allRows)
      /\ Ordered(all, key, s)
  <2>1. allRows \in Seq(Files) /\ IsInjective(allRows)
    BY StoreParts
  <2>2. \A f \in Range(allRows) : key[f] \in Int
    BY StoreAssumption, StoreParts
  <2> QED  BY <2>1, <2>2, SortedFacts DEF Ordered
<1> HIDE DEF all
<1>4. q \in Seq(Files) /\ IsInjective(q) /\ Range(q) = Range(rows)
  <2>1. q \in Seq(Files) /\ IsInjective(q) /\ Range(q) = Range(all) \intersect Range(rows)
    BY <1>3, KeepFacts
  <2> QED  BY <1>3, <2>1, StoreParts
<1> HIDE DEF q, o
<1>5. IsPermuted(rows, q, o)
  <2>1. rows \in Seq(Files) /\ IsInjective(rows) /\ Range(rows) = Range(q)
    BY <1>4, StoreParts
  <2> QED  BY <1>4, <2>1, Permutes DEF o
<1>6. IsOrder(o, Len(rows)) /\ q = [i \in 1..Len(rows) |-> rows[o[i]]] /\ Len(q) = Len(rows)
  BY <1>5 DEF IsPermuted, IsOrder
<1>7. ViewOK(w, Len(rows)) /\ IfInOrder(strayed, w, q, key, thumb, changed) /\ Keeps(view, w, rows, strayed)
  <2>1. /\ rows \in Seq(Files) /\ ViewOK(view, Len(rows)) /\ ~ view.crashed
        /\ IfInOrder(strayed, view, rows, key, thumb, changed)
    BY <1>1, StoreParts
  <2> QED  BY <1>6, <2>1, ReorderView
<1> HIDE DEF w
<1>8. Ready(all, q, key, thumb, s)
  BY <1>3, <1>4, StoreParts DEF Ready
<1>9. Range(q) = Accepted(all, key, filter)
  BY <1>3, <1>4, StoreParts DEF Accepted
<1>10. Good(all, q, key, thumb, changed, filter, s, w, strayed)
  BY <1>3, <1>6, <1>7, <1>8, <1>9, StoreParts DEF Good
<1>11. Keeps(view, w, q, strayed)
  BY <1>4, <1>7 DEF Keeps
<1> QED  BY <1>1, <1>2, <1>10, <1>11 DEF StoreInv, SelectionKept


(* The same files at the same selected positions. *)
LEMMA SameSelected ==
    ASSUME NEW v, NEW w, v \in Views(Files, Keys), w \in Views(Files, Keys), Flagged(v),
           w.selection = v.selection, Shown(w) = Shown(v)
    PROVE  SelectedFiles(w) = SelectedFiles(v)
<1>1. /\ Len(v.items) \in Nat /\ Len(Shown(v)) = Len(v.items)
      /\ \A i \in 1..Len(v.items) : Shown(v)[i] = v.items[i].file
  BY ShownFacts
<1>2. /\ Len(w.items) \in Nat /\ Len(Shown(w)) = Len(w.items)
      /\ \A i \in 1..Len(w.items) : Shown(w)[i] = w.items[i].file
  BY ShownFacts
<1>3. v.selection \subseteq 1..Len(v.items)
  BY ViewFacts DEF Flagged
<1>4. \A p \in v.selection : w.items[p].file = v.items[p].file
  BY <1>1, <1>2, <1>3
<1> QED  BY <1>4 DEF SelectedFiles

LEMMA ExecSetStep ==
    ASSUME StoreInv, ~ view.crashed, NEW all, NEW visible, NEW marked, NEW k, NEW t,
           ExecSet(all, visible, marked, k, t),
           Ready(all, visible, k, t, sort), HaveTypes(k, t, marked, filter),
           Len(visible) = Len(rows), ~ strayed => Fresh(view, visible, k, t, marked)
    PROVE  LET w == ListChanged(visible, marked, k, t, view)
           IN  /\ Good(allRows', rows', k, t, changed', filter, sort, view', strayed')
               /\ Keeps(w, view', rows', strayed') /\ (strayed => strayed')
               /\ w.selection = view.selection /\ changed' = marked \ Range(visible)
               /\ IfInOrder(strayed, w, visible, k, t, changed')
<1> DEFINE w == ListChanged(visible, marked, k, t, view)
           c == marked \ Range(visible)
<1>1. Update(all, visible, k, t, filter, sort, w) /\ changed' = c
  BY DEF ExecSet
<1>2. strayed => strayed'
  BY <1>1 DEF Update
<1>3. /\ ViewOK(w, Len(visible)) /\ w.selection = view.selection
      /\ IfInOrder(strayed, w, visible, k, t, c)
  <2>1. visible \in Seq(Files) /\ IsInjective(visible)
    BY DEF Ready
  <2>2. HaveData(visible, k, t)
    BY DEF Ready, HaveData
  <2>3. ViewOK(view, Len(visible)) /\ FreshIf(strayed, view, visible, k, t, marked)
    BY StoreParts DEF FreshIf
  <2> QED  BY <2>1, <2>2, <2>3, ListChangedGood
<1> HIDE DEF w
<1>4. HaveTypes(k, t, c, filter)
  BY DEF HaveTypes
<1> HIDE DEF c
<1>5. Good(allRows', rows', k, t, c, filter, sort, view', strayed') /\ Keeps(w, view', rows', strayed')
  BY <1>1, <1>3, <1>4, UpdateStep
<1> QED  BY <1>1, <1>2, <1>3, <1>5 DEF w, c

LEMMA SetDataStep ==
    ASSUME StoreInv, NEW fs \in SUBSET Range(allRows), NEW value \in Keys, SetData(fs, value)
    PROVE  StoreInv' /\ SelectionKept
<1> DEFINE marked == changed \union fs
           w == ListChanged(rows, marked, key', thumb, view)
<1>1. /\ key' = [f \in Files |-> IF f \in fs THEN value ELSE key[f]] /\ ~ view.crashed
      /\ ExecSet(allRows, rows, marked, key', thumb)
      /\ thumb' = thumb /\ filter' = filter /\ sort' = sort
  BY DEF SetData
<1>2. \A f \in Files : key'[f] = IF f \in fs THEN value ELSE key[f]
  BY <1>1
<1>3. Ready(allRows, rows, key', thumb, sort)
  <2>1. \A f \in Range(allRows) : key'[f] \in Keys /\ thumb[f] \in BOOLEAN
    BY <1>2, StoreParts
  <2> QED  BY <2>1, StoreParts DEF Ready
<1>4. HaveTypes(key', thumb, marked, filter)
  <2>1. key' \in [Files -> Keys \union {NoKey}]
    BY <1>1, StoreParts
  <2>2. marked \subseteq Files
    BY StoreParts
  <2> HIDE DEF marked
  <2> QED  BY <2>1, <2>2, StoreParts DEF HaveTypes
<1>5. ~ strayed => Tells(view, rows, key, thumb, changed)
  BY StoreParts DEF IfInOrder
<1>6. ASSUME ~ strayed  PROVE Fresh(view, rows, key', thumb, marked)
  <2>1. /\ view \in Views(Files, Keys) /\ view.items \in Seq(Told(key, thumb, changed))
        /\ Shown(view) = rows
    BY <1>5, <1>6 DEF Tells, Drawn
  <2>2. /\ Len(view.items) \in Nat /\ Len(rows) = Len(view.items)
        /\ \A i \in 1..Len(view.items) : rows[i] = view.items[i].file
    BY <2>1, ShownFacts
  <2>3. ASSUME NEW p \in 1..Len(rows), rows[p] \notin marked
        PROVE  /\ view.items[p].file = rows[p] /\ view.items[p].key = key'[rows[p]]
               /\ view.items[p].thumb = thumb[rows[p]]
    <3>1. view.items[p] \in Told(key, thumb, changed)
      BY <2>1, <2>2
    <3>2. rows[p] \in Files
      BY StoreParts
    <3> QED  BY <1>2, <2>2, <2>3, <3>1, <3>2 DEF Told
  <2> QED  BY <2>3 DEF Fresh
<1> HIDE DEF marked
<1>7. /\ Good(allRows', rows', key', thumb, changed', filter, sort, view', strayed')
      /\ Keeps(w, view', rows', strayed') /\ (strayed => strayed')
      /\ w.selection = view.selection
      /\ IfInOrder(strayed, w, rows, key', thumb, changed')
  BY <1>1, <1>3, <1>4, <1>6, ExecSetStep
<1> HIDE DEF w
<1>8. SelectionKept
  <2> SUFFICES ASSUME ~ strayed'
               PROVE  SelectedFiles(view') = SelectedFiles(view) \intersect Range(rows')
    BY DEF SelectionKept, Keeps
  <2>1. ~ strayed
    BY <1>7
  <2>2. Tells(w, rows, key', thumb, changed') /\ Tells(view, rows, key, thumb, changed)
    BY <1>5, <1>7, <2>1 DEF IfInOrder
  <2>3. w \in Views(Files, Keys) /\ view \in Views(Files, Keys) /\ Flagged(view) /\ Shown(w) = Shown(view)
    BY <2>2 DEF Tells, Drawn
  <2>4. SelectedFiles(w) = SelectedFiles(view)
    BY <1>7, <2>3, SameSelected
  <2> QED  BY <1>7, <2>4 DEF Keeps
<1> QED  BY <1>1, <1>7, <1>8 DEF StoreInv

(* A file gets another name. *)
InRows(q, f, g)   == [i \in DOMAIN q |-> IF q[i] = f THEN g ELSE q[i]]
InFiles(S, f, g)  == {IF x = f THEN g ELSE x : x \in S}

LEMMA RenamedRows ==
    ASSUME NEW q \in Seq(Files), IsInjective(q), NEW f \in Files, NEW g \in Files, g \notin Range(q)
    PROVE  LET r == InRows(q, f, g)
           IN  /\ r \in Seq(Files) /\ IsInjective(r) /\ Len(r) = Len(q)
               /\ Range(r) = InFiles(Range(q), f, g)
<1> USE DEF InRows, InFiles
<1> DEFINE n == Len(q)
           r == InRows(q, f, g)
           New(x) == IF x = f THEN g ELSE x
<1>1. n \in Nat /\ DOMAIN q = 1..n /\ (\A i \in 1..n : q[i] \in Files /\ q[i] # g)
      /\ (\A i, j \in 1..n : q[i] = q[j] => i = j)
      /\ (\A x : x \in Range(q) <=> \E i \in 1..n : q[i] = x)
  BY PlacesOf
<1>2. r \in [1..n -> Files] /\ DOMAIN r = 1..n
  BY <1>1
<1>4. \A i \in 1..n : r[i] = New(q[i])
  BY <1>1
<1> HIDE DEF n, r
<1>3. r \in Seq(Files) /\ Len(r) = n
  BY <1>1, <1>2
<1>5. \A i, j \in 1..n : r[i] = r[j] => i = j
  BY <1>1, <1>4
<1>6. IsInjective(r)
  BY <1>2, <1>5 DEF IsInjective
<1>7. \A x : x \in Range(r) <=> \E i \in 1..n : r[i] = x
  BY <1>2 DEF Range
<1>8. Range(r) = {New(x) : x \in Range(q)}
  <2>1. ASSUME NEW y \in Range(r)  PROVE y \in {New(x) : x \in Range(q)}
    <3>1. PICK i \in 1..n : r[i] = y
      BY <1>7
    <3>2. q[i] \in Range(q) /\ y = New(q[i])
      BY <1>1, <1>4, <3>1
    <3> QED  BY <3>2
  <2>2. ASSUME NEW x \in Range(q)  PROVE New(x) \in Range(r)
    <3>1. PICK i \in 1..n : q[i] = x
      BY <1>1
    <3>2. r[i] = New(x)
      BY <1>4, <3>1
    <3> QED  BY <1>7, <3>2
  <2> QED  BY <2>1, <2>2
<1> QED  BY <1>3, <1>6, <1>8 DEF n, r

LEMMA RenameStep ==
    ASSUME StoreInv, NEW f \in Files, NEW g \in Files, Rename(f, g)
    PROVE  StoreInv'
<1> DEFINE Renamed(x) == IF x = f THEN g ELSE x
           all == InRows(allRows, f, g)
           visible == InRows(rows, f, g)
           marked == {Renamed(x) : x \in changed} \union {g}
<1>1. /\ ~ view.crashed /\ f \in Range(allRows) /\ g \notin Range(allRows)
      /\ key' = [key EXCEPT ![g] = key[f], ![f] = NoKey]
      /\ thumb' = [thumb EXCEPT ![g] = thumb[f], ![f] = FALSE]
      /\ ExecSet(all, visible, marked, key', thumb')
      /\ filter' = filter /\ sort' = sort
  BY DEF Rename, InRows
<1>2. f # g
  BY <1>1
<1>3. /\ key' \in [Files -> Keys \union {NoKey}] /\ key'[g] = key[f]
      /\ \A x \in Files : x # f /\ x # g => key'[x] = key[x]
  BY <1>1, <1>2, StoreParts
<1>4. /\ thumb' \in [Files -> BOOLEAN] /\ thumb'[g] = thumb[f]
      /\ \A x \in Files : x # f /\ x # g => thumb'[x] = thumb[x]
  BY <1>1, <1>2, StoreParts
<1>5. /\ all \in Seq(Files) /\ IsInjective(all)
      /\ Range(all) = {Renamed(x) : x \in Range(allRows)}
  <2> HIDE DEF all
  <2>1. allRows \in Seq(Files) /\ IsInjective(allRows)
    BY StoreParts
  <2>2. /\ all \in Seq(Files) /\ IsInjective(all)
        /\ Range(all) = InFiles(Range(allRows), f, g)
    BY <1>1, <2>1, RenamedRows DEF all
  <2> QED  BY <2>2 DEF InFiles
<1>6. /\ visible \in Seq(Files) /\ IsInjective(visible) /\ Len(visible) = Len(rows)
      /\ Range(visible) = {Renamed(x) : x \in Range(rows)}
  <2>1. g \notin Range(rows)
    BY <1>1, StoreParts
  <2> HIDE DEF visible
  <2>2. rows \in Seq(Files) /\ IsInjective(rows)
    BY StoreParts
  <2>3. /\ visible \in Seq(Files) /\ IsInjective(visible) /\ Len(visible) = Len(rows)
        /\ Range(visible) = InFiles(Range(rows), f, g)
    BY <2>1, <2>2, RenamedRows DEF visible
  <2> QED  BY <2>3 DEF InFiles
<1>7. \A p \in 1..Len(rows) : visible[p] = Renamed(rows[p])
  BY StoreParts DEF InRows
<1> HIDE DEF all, visible
<1>8. Ready(all, visible, key', thumb', sort)
  <2>1. \A x \in Range(all) : key'[x] \in Keys /\ thumb'[x] \in BOOLEAN
    <3> SUFFICES ASSUME NEW x \in Range(all)  PROVE key'[x] \in Keys /\ thumb'[x] \in BOOLEAN
      OBVIOUS
    <3>1. PICK y \in Range(allRows) : x = Renamed(y)
      BY <1>5
    <3>2. key[y] \in Keys /\ y \in Files /\ y # g /\ key[f] \in Keys
      BY <1>1, StoreParts
    <3>3. key'[x] \in Keys
      BY <1>3, <3>1, <3>2
    <3>4. x \in Files
      BY <3>1, <3>2
    <3> QED  BY <1>4, <3>3, <3>4
  <2>2. Range(visible) \subseteq Range(all)
    BY <1>5, <1>6, StoreParts
  <2> QED  BY <1>5, <1>6, <2>1, <2>2, StoreParts DEF Ready
<1>9. HaveTypes(key', thumb', marked, filter)
  <2>1. marked \subseteq Files
    BY StoreParts
  <2> HIDE DEF marked
  <2> QED  BY <1>3, <1>4, <2>1, StoreParts DEF HaveTypes
<1>10. ASSUME ~ strayed  PROVE Fresh(view, visible, key', thumb', marked)
  <2>1. /\ view \in Views(Files, Keys) /\ view.items \in Seq(Told(key, thumb, changed))
        /\ Shown(view) = rows
    BY <1>10, StoreParts DEF Tells, Drawn, IfInOrder
  <2>2. /\ Len(view.items) \in Nat /\ Len(rows) = Len(view.items)
        /\ \A i \in 1..Len(view.items) : rows[i] = view.items[i].file
    BY <2>1, ShownFacts
  <2>3. ASSUME NEW p \in 1..Len(visible), visible[p] \notin marked
        PROVE  /\ view.items[p].file = visible[p] /\ view.items[p].key = key'[visible[p]]
               /\ view.items[p].thumb = thumb'[visible[p]]
    <3>1. view.items[p] \in Told(key, thumb, changed)
      BY <1>6, <2>1, <2>2
    <3>2. rows[p] \in Range(rows) /\ visible[p] = Renamed(rows[p]) /\ rows[p] = view.items[p].file
      BY <1>6, <1>7, <2>2, StoreParts, PlacesOf
    <3>3. rows[p] # f /\ rows[p] # g /\ rows[p] \in Files
      <4>1. rows[p] # f
        BY <2>3, <3>2
      <4> QED  BY <1>1, <3>2, <4>1, StoreParts
    <3>4. visible[p] = rows[p] /\ rows[p] \notin changed
      BY <2>3, <3>2, <3>3
    <3> QED  BY <1>3, <1>4, <3>1, <3>2, <3>3, <3>4 DEF Told
  <2> QED  BY <2>3 DEF Fresh
<1> HIDE DEF marked
<1>11. Good(allRows', rows', key', thumb', changed', filter, sort, view', strayed')
  BY <1>1, <1>6, <1>8, <1>9, <1>10, ExecSetStep
<1> QED  BY <1>1, <1>11 DEF StoreInv


LEMMA QueueThumbnailStep ==
    ASSUME StoreInv, NEW f \in Files, QueueThumbnail(f)
    PROVE  StoreInv' /\ SelectionKept
<1>1. /\ f \in Range(rows) /\ thumb' = [thumb EXCEPT ![f] = TRUE] /\ changed' = changed \union {f}
      /\ allRows' = allRows /\ rows' = rows /\ key' = key /\ filter' = filter /\ sort' = sort
      /\ view' = view /\ strayed' = strayed
  BY DEF QueueThumbnail
<1>2. /\ thumb' \in [Files -> BOOLEAN] /\ changed' \subseteq Files
      /\ \A g \in Files : g # f => thumb'[g] = thumb[g]
  BY <1>1, StoreParts
<1>3. HaveTypes(key, thumb', changed', filter)
  BY <1>2, StoreParts DEF HaveTypes
<1>4. SameData(allRows, key, thumb, changed, key, thumb', changed')
  <2> SUFFICES ASSUME NEW g \in Range(allRows)
               PROVE  /\ thumb'[g] \in BOOLEAN
                      /\ (thumb'[g] = thumb[g] /\ (g \in changed => g \in changed')) \/ g \in changed'
    BY DEF SameData
  <2>1. g \in Files
    BY StoreParts
  <2>2. thumb'[g] \in BOOLEAN
    BY <1>2, <2>1
  <2>3. g \in changed => g \in changed'
    BY <1>1
  <2>4. CASE g = f
    BY <1>1, <2>2, <2>4
  <2>5. CASE g # f
    BY <1>2, <2>1, <2>2, <2>3, <2>5
  <2> QED  BY <2>4, <2>5
<1>5. Good(allRows, rows, key, thumb', changed', filter, sort, view, strayed)
  <2>1. Good(allRows, rows, key, thumb, changed, filter, sort, view, strayed)
    BY DEF StoreInv
  <2> QED  BY <1>3, <1>4, <2>1, RetoldGood
<1>6. SelectionKept
  <2> SUFFICES ASSUME ~ strayed  PROVE SelectedFiles(view) = SelectedFiles(view) \intersect Range(rows)
    BY <1>1 DEF SelectionKept, Keeps
  <2>1. view \in Views(Files, Keys) /\ Flagged(view) /\ Shown(view) = rows
    BY StoreParts DEF IfInOrder, Tells, Drawn
  <2>2. SelectedFiles(view) \subseteq Range(rows)
    BY <2>1, SelectedShown
  <2> QED  BY <2>2
<1> QED  BY <1>1, <1>5, <1>6 DEF StoreInv

LEMMA ExecThumbnailsStep ==
    ASSUME StoreInv, ExecThumbnails
    PROVE  StoreInv' /\ SelectionKept
<1> DEFINE w == ThumbnailsChanged(rows, changed, thumb, view)
           c == changed \ Range(rows)
           G == Told(key, thumb, c)
           n == Len(rows)
<1>1. /\ ~ view.crashed /\ view' = w /\ changed' = c
      /\ allRows' = allRows /\ rows' = rows /\ key' = key /\ thumb' = thumb
      /\ filter' = filter /\ sort' = sort /\ strayed' = strayed
  BY DEF ExecThumbnails, ThumbnailsChanged
<1>2. view \in Views(Files, Keys) /\ Flagged(view) /\ Len(view.items) = n
  BY <1>1, StoreParts DEF ViewOK, Drawn
<1>3. /\ Retold(view, w, n)
      /\ \A p \in 1..n : w.items[p] = IF rows[p] \in changed
                                     THEN NewThumb(thumb, rows[p], view.items[p]) ELSE view.items[p]
  <2>1. rows \in Seq(Files) /\ IsInjective(rows) /\ \A f \in Range(rows) : thumb[f] \in BOOLEAN
    BY StoreParts
  <2> QED  BY <1>1, <1>2, <2>1, ThumbnailsShow
<1> HIDE DEF w
<1>4. /\ w \in Views(Files, Keys) /\ Flagged(w) /\ ~ w.crashed /\ Len(w.items) = n
      /\ w.selection = view.selection
  BY <1>3 DEF Retold
<1>5. /\ w.items \in Seq(StoreItems)
      /\ \A i \in 1..n : w.items[i] \in StoreItems /\ Shown(w)[i] = w.items[i].file
  BY <1>4, ShownFacts
<1>6. Drawn(w, StoreItems)
  BY <1>4, <1>5 DEF Drawn
<1>7. ViewOK(w, n)
  BY <1>4, <1>6 DEF ViewOK, Flagged
<1>8. rows \in Seq(Files) /\ n \in Nat /\ rows = [p \in 1..n |-> rows[p]]
  BY StoreParts
<1>9. ASSUME ~ strayed  PROVE Tells(w, rows, key, thumb, c) /\ SelectedFiles(w) = SelectedFiles(view)
  <2>1. view.items \in Seq(Told(key, thumb, changed)) /\ Shown(view) = rows
    BY <1>9, StoreParts DEF IfInOrder, Tells, Drawn
  <2>2. \A p \in 1..n : rows[p] = view.items[p].file /\ view.items[p] \in Told(key, thumb, changed)
    BY <1>2, <2>1, ShownFacts
  <2>3. ASSUME NEW p \in 1..n
        PROVE  /\ w.items[p].file = rows[p] /\ w.items[p].key = key[rows[p]]
               /\ w.items[p].thumb = thumb[rows[p]]
    <3>1. rows[p] = view.items[p].file /\ view.items[p] \in Told(key, thumb, changed)
      BY <2>2
    <3>2. view.items[p] \in StoreItems /\ view.items[p].key = key[rows[p]]
      BY <3>1 DEF Told
    <3>3. CASE rows[p] \in changed
      <4>1. w.items[p] = NewThumb(thumb, rows[p], view.items[p])
        BY <1>3, <3>3
      <4> QED  BY <3>1, <3>2, <4>1 DEF NewThumb, StoreItems, GridItems
    <3>4. CASE rows[p] \notin changed
      <4>1. w.items[p] = view.items[p]
        BY <1>3, <3>4
      <4>2. view.items[p].thumb = thumb[rows[p]]
        BY <3>1, <3>4 DEF Told
      <4> QED  BY <3>1, <3>2, <4>1, <4>2
    <3> QED  BY <3>3, <3>4
  <2>4. \A p \in 1..n : w.items[p] \in G
    BY <1>5, <2>3 DEF Told
  <2> HIDE DEF G, n
  <2>5. w.items \in Seq(G)
    <3>1. w.items = [p \in 1..n |-> w.items[p]]
      BY <1>4, <1>5
    <3> QED  BY <1>8, <2>4, <3>1
  <2>6. Shown(w) = rows
    <3>1. Shown(w) = [p \in 1..n |-> Shown(w)[p]]
      BY <1>4, ShownFacts
    <3>2. \A p \in 1..n : Shown(w)[p] = rows[p]
      BY <1>5, <2>3
    <3> QED  BY <1>8, <3>1, <3>2
  <2>7. Tells(w, rows, key, thumb, c)
    BY <1>4, <2>5, <2>6 DEF Tells, Drawn, G
  <2>8. SelectedFiles(w) = SelectedFiles(view)
    BY <1>2, <1>4, <2>1, <2>6, SameSelected
  <2> QED  BY <2>7, <2>8
<1> HIDE DEF n
<1>10. IfInOrder(strayed, w, rows, key, thumb, c)
  BY <1>9, StoreParts DEF IfInOrder
<1>11. HaveTypes(key, thumb, c, filter)
  BY StoreParts DEF HaveTypes
<1>12. Good(allRows, rows, key, thumb, c, filter, sort, w, strayed)
  BY <1>7, <1>10, <1>11, StoreParts DEF Good, n
<1>13. Keeps(view, w, rows, strayed)
  <2> SUFFICES ASSUME ~ strayed  PROVE SelectedFiles(w) = SelectedFiles(view) \intersect Range(rows)
    BY DEF Keeps
  <2>1. w \in Views(Files, Keys) /\ Flagged(w) /\ Shown(w) = rows /\ SelectedFiles(w) = SelectedFiles(view)
    BY <1>4, <1>9 DEF Tells
  <2>2. SelectedFiles(w) \subseteq Range(rows)
    BY <2>1, SelectedShown
  <2> QED  BY <2>1, <2>2
<1> HIDE DEF c
<1> QED  BY <1>1, <1>12, <1>13 DEF StoreInv, SelectionKept

LEMMA RemoveFilesStep ==
    ASSUME StoreInv, NEW queue \in Queues(Range(allRows)), RemoveFiles(queue)
    PROVE  StoreInv' /\ SelectionKept
<1> DEFINE Q == Range(queue)
           A == Files \ Q
           left == Keep(allRows, A)
           h == HideRows(rows, queue, view)
<1>1. /\ Update(left, h.rows, key, thumb, filter, sort, h.view)
      /\ key' = [f \in Files |-> IF f \in Q THEN NoKey ELSE key[f]]
      /\ thumb' = [f \in Files |-> thumb[f] /\ f \notin Q]
      /\ changed' = changed \ Q /\ filter' = filter /\ sort' = sort
  BY DEF RemoveFiles
<1>2. queue \in Seq(Files) /\ IsInjective(queue)
  <2> DEFINE S == Range(allRows)
  <2>1. S \in SUBSET Files /\ queue \in Queues(S)
    BY StoreParts
  <2> HIDE DEF S
  <2> QED  BY <2>1, QueueFacts
<1>3. left \in Seq(Files) /\ IsInjective(left) /\ Range(left) = Range(allRows) \intersect A
  <2> HIDE DEF A
  <2> QED  BY StoreParts, KeepFacts
<1>4. /\ h.rows = Keep(rows, A) /\ ViewOK(h.view, Len(h.rows))
      /\ IfInOrder(strayed, h.view, h.rows, key, thumb, changed)
      /\ Keeps(view, h.view, h.rows, strayed)
  <2>1. /\ rows \in Seq(Files) /\ IsInjective(rows) /\ ViewOK(view, Len(rows))
        /\ IfInOrder(strayed, view, rows, key, thumb, changed)
    BY StoreParts
  <2> QED  BY <1>2, <2>1, HideRowsGood
<1>5. h.rows \in Seq(Files) /\ IsInjective(h.rows) /\ Range(h.rows) = Range(rows) \intersect A
  <2>1. LET x == Keep(rows, A)
        IN  x \in Seq(Files) /\ IsInjective(x) /\ Range(x) = Range(rows) \intersect A
    <3> HIDE DEF A
    <3> QED  BY StoreParts, KeepFacts
  <2> HIDE DEF h, A
  <2> QED  BY <1>4, <2>1
<1> HIDE DEF h, left
<1>6. Ready(left, h.rows, key, thumb, sort)
  <2>1. Range(h.rows) \subseteq Range(left)
    BY <1>3, <1>5, StoreParts
  <2>2. \A f \in Range(left) : key[f] \in Keys /\ thumb[f] \in BOOLEAN
    BY <1>3, StoreParts
  <2> QED  BY <1>3, <1>5, <2>1, <2>2, StoreParts DEF Ready
<1>7. /\ Good(allRows', rows', key, thumb, changed, filter, sort, view', strayed')
      /\ Keeps(h.view, view', rows', strayed')
  <2>1. HaveTypes(key, thumb, changed, filter)
    BY StoreParts
  <2> QED  BY <1>1, <1>4, <1>6, <2>1, UpdateStep
<1>8. allRows' = Sorted(left, key, sort)
  BY <1>1 DEF Update, UpdateVisibility
<1>9. Range(allRows') = Range(left) /\ (strayed => strayed') /\ Range(rows') \subseteq Range(left)
  <2>1. Range(allRows') = Range(left)
    <3>1. \A f \in Range(left) : key[f] \in Int
      BY <1>6, StoreAssumption DEF Ready
    <3> QED  BY <1>3, <1>8, <3>1, StoreParts, SortedFacts
  <2>2. strayed => strayed'
    BY <1>1 DEF Update
  <2>3. Range(rows') \subseteq Range(allRows')
    BY <1>7 DEF Good, Ready
  <2> QED  BY <2>1, <2>2, <2>3
<1>10. HaveTypes(key', thumb', changed', filter)
  <2>1. key' \in [Files -> Keys \union {NoKey}] /\ thumb' \in [Files -> BOOLEAN]
    BY <1>1, StoreParts
  <2>2. changed' \subseteq Files
    BY <1>1, StoreParts
  <2> QED  BY <2>1, <2>2, StoreParts DEF HaveTypes
<1>11. SameData(allRows', key, thumb, changed, key', thumb', changed')
  <2> SUFFICES ASSUME NEW f \in Range(allRows')
               PROVE  /\ key'[f] = key[f] /\ thumb'[f] \in BOOLEAN /\ thumb'[f] = thumb[f]
                      /\ f \in changed => f \in changed'
    BY DEF SameData
  <2>1. f \in Files /\ f \notin Q
    BY <1>3, <1>9
  <2> HIDE DEF Q
  <2>2. key'[f] = key[f] /\ thumb[f] \in BOOLEAN
    BY <1>1, <2>1, StoreParts
  <2>3. thumb'[f] = (thumb[f] /\ f \notin Q)
    BY <1>1, <2>1
  <2>4. thumb'[f] = thumb[f]
    BY <2>1, <2>2, <2>3
  <2> QED  BY <1>1, <2>1, <2>2, <2>4
<1>12. Good(allRows', rows', key', thumb', changed', filter, sort, view', strayed')
  BY <1>7, <1>10, <1>11, RetoldGood
<1>13. SelectionKept
  <2> SUFFICES ASSUME ~ strayed'
               PROVE  SelectedFiles(view') = SelectedFiles(view) \intersect Range(rows')
    BY DEF SelectionKept, Keeps
  <2>1. SelectedFiles(view') = SelectedFiles(h.view) \intersect Range(rows')
    BY <1>7 DEF Keeps
  <2>2. /\ SelectedFiles(h.view) = SelectedFiles(view) \intersect Range(h.rows)
        /\ SelectedFiles(view) \subseteq Range(rows)
    <3>1. ~ strayed
      BY <1>9
    <3>2. view \in Views(Files, Keys) /\ Flagged(view) /\ Shown(view) = rows
      BY <3>1, StoreParts DEF IfInOrder, Tells, Drawn
    <3> QED  BY <1>4, <3>1, <3>2, SelectedShown DEF Keeps
  <2>3. \A f \in Range(rows') : f \in A
    BY <1>3, <1>9
  <2> QED  BY <1>5, <2>1, <2>2, <2>3
<1> QED  BY <1>1, <1>12, <1>13 DEF StoreInv


LEMMA ClearStep ==
    ASSUME StoreInv, Clear
    PROVE  StoreInv' /\ SelectionKept
<1> DEFINE w == HandleAll(view, [i \in DOMAIN rows |-> Deleted(Len(rows) + 1 - i)])
           none == <<>>
<1>1. /\ ~ view.crashed /\ view' = w /\ allRows' = none /\ rows' = none
      /\ key' = [f \in Files |-> NoKey] /\ thumb' = [f \in Files |-> FALSE] /\ changed' = {}
      /\ strayed' = FALSE /\ filter' = filter /\ sort' = sort
  BY DEF Clear
<1>2. Drawn(w, StoreItems) /\ Len(w.items) = 0
  <2>1. rows \in Seq(Files) /\ ViewOK(view, Len(rows))
    BY StoreParts
  <2> QED  BY <1>1, <2>1, ClearShows
<1> HIDE DEF w
<1>3. SelectedFiles(w) = {} /\ ViewOK(w, 0) /\ Tells(w, none, key', thumb', changed')
  BY <1>2, NoItems
<1>4. none \in Seq(Files) /\ IsInjective(none) /\ Range(none) = {} /\ Len(none) = 0 /\ DOMAIN none = {}
  BY DEF IsInjective, Range
<1> HIDE DEF none
<1>5. Ready(none, none, key', thumb', sort)
  BY <1>4, StoreParts DEF Ready
<1>6. HaveTypes(key', thumb', changed', filter)
  BY <1>1, StoreParts DEF HaveTypes
<1>7. Range(none) = Accepted(none, key', filter) /\ Ordered(none, key', sort)
  BY <1>4 DEF Accepted, Ordered
<1>8. IfInOrder(FALSE, w, none, key', thumb', changed')
  BY <1>3 DEF IfInOrder
<1>9. Good(none, none, key', thumb', changed', filter, sort, w, FALSE)
  BY <1>3, <1>4, <1>5, <1>6, <1>7, <1>8 DEF Good
<1>10. Keeps(view, w, none, FALSE)
  BY <1>3, <1>4 DEF Keeps
<1> QED  BY <1>1, <1>9, <1>10 DEF StoreInv, SelectionKept

LEMMA UserReorderStep ==
    ASSUME StoreInv, NEW order \in Orders(Len(rows)), UserReorder(order)
    PROVE  StoreInv' /\ SelectionKept
<1> DEFINE n == Len(rows)
           q == [i \in 1..n |-> rows[order[i]]]
           w == RowsReordered(view, order)
<1>1. rows \in Seq(Files) /\ IsInjective(rows) /\ DOMAIN rows = 1..n
  BY StoreParts
<1>2. /\ ~ view.crashed /\ rows' = q /\ view' = w
      /\ allRows' = allRows /\ key' = key /\ thumb' = thumb /\ changed' = changed
      /\ filter' = filter /\ sort' = sort /\ strayed' = strayed
  <2>1. Handle(view, Reordered(order)) = w
    BY DEF Handle, Reordered
  <2> HIDE DEF w
  <2> QED  BY <1>1, <2>1 DEF UserReorder
<1>3. order \in [1..n -> 1..n] /\ IsInjective(order)
  BY DEF Orders
<1>4. /\ q \in Seq(Files) /\ Len(q) = n /\ IsInjective(q) /\ Range(q) = Range(rows)
      /\ IsOrder(order, n)
  <2> DEFINE p == q
  <2>1. p = Rearranged(rows, order)
    BY DEF Rearranged
  <2>3. order \in [1..Len(rows) -> 1..Len(rows)]
    BY <1>3
  <2>4. IsInjective(order)
    BY <1>3
  <2> HIDE DEF p
  <2>2. /\ p \in Seq(Files) /\ Len(p) = Len(rows) /\ IsInjective(p) /\ Range(p) = Range(rows)
        /\ IsOrder(order, Len(rows))
    BY <1>1, <2>1, <2>3, <2>4, ReorderRows
  <2> QED  BY <2>2 DEF p
<1>5. q = [i \in 1..Len(rows) |-> rows[order[i]]]
  OBVIOUS
<1> HIDE DEF q, w
<1>6. /\ ViewOK(w, n) /\ IfInOrder(strayed, w, q, key, thumb, changed)
      /\ Keeps(view, w, rows, strayed)
  <2>1. ViewOK(view, Len(rows)) /\ IfInOrder(strayed, view, rows, key, thumb, changed)
    BY StoreParts
  <2>2. IsOrder(order, Len(rows))
    BY <1>4
  <2> QED  BY <1>1, <1>2, <1>5, <2>1, <2>2, ReorderView DEF w
<1>7. Ready(allRows, q, key, thumb, sort)
  BY <1>4, StoreParts DEF Ready
<1>8. Good(allRows, q, key, thumb, changed, filter, sort, w, strayed)
  BY <1>4, <1>6, <1>7, StoreParts DEF Good
<1>9. Keeps(view, w, q, strayed)
  BY <1>4, <1>6 DEF Keeps
<1> QED  BY <1>2, <1>8, <1>9 DEF StoreInv, SelectionKept

(* What the user selects: no item changes but for that. *)
LEMMA SelectGood ==
    ASSUME NEW v, NEW w, NEW r \in Seq(Files), NEW str, NEW k, NEW t, NEW c,
           ViewOK(v, Len(r)), ~ v.crashed, IfInOrder(str, v, r, k, t, c),
           w \in Views(Files, Keys), Flagged(w), ~ w.crashed, SameRows(v, w)
    PROVE  ViewOK(w, Len(r)) /\ IfInOrder(str, w, r, k, t, c)
<1> DEFINE n == Len(r)
           G == Told(k, t, c)
<1>1. v \in Views(Files, Keys) /\ Flagged(v) /\ Len(v.items) = n /\ Len(w.items) = n
  BY DEF ViewOK, Drawn, SameRows
<1>2. w.items \in Seq(StoreItems) /\ \A i \in 1..n : w.items[i] \in StoreItems /\ Shown(w)[i] = w.items[i].file
  BY <1>1, ShownFacts
<1>3. \A i \in 1..n : v.items[i] \in StoreItems /\ Shown(v)[i] = v.items[i].file
  BY <1>1, ShownFacts
<1>4. Drawn(w, StoreItems)
  BY <1>2 DEF Drawn
<1>5. ViewOK(w, n)
  BY <1>1, <1>4 DEF ViewOK, Flagged
<1>6. ASSUME Tells(v, r, k, t, c)  PROVE Tells(w, r, k, t, c)
  <2>1. v.items \in Seq(G) /\ Shown(v) = r
    BY <1>6 DEF Tells, Drawn
  <2>2. \A i \in 1..n : v.items[i] \in G
    BY <1>1, <2>1
  <2>3. ASSUME NEW i \in 1..n  PROVE w.items[i] \in G
    <3>1. /\ w.items[i].file = v.items[i].file /\ w.items[i].key = v.items[i].key
          /\ w.items[i].thumb = v.items[i].thumb
      BY <1>1 DEF SameRows
    <3>2. v.items[i] \in G /\ w.items[i] \in StoreItems
      BY <1>2, <2>2
    <3> QED  BY <3>1, <3>2 DEF Told
  <2>4. n \in Nat /\ r = [i \in 1..n |-> r[i]]
    OBVIOUS
  <2> HIDE DEF G, n
  <2>5. w.items \in Seq(G)
    <3>1. w.items = [i \in 1..n |-> w.items[i]]
      BY <1>1, <1>2, SMTT(30)
    <3> QED  BY <2>3, <2>4, <3>1
  <2>6. Shown(w) = r
    <3>1. Shown(w) = [i \in 1..n |-> Shown(w)[i]]
      BY <1>1, ShownFacts
    <3>2. \A i \in 1..n : Shown(w)[i] = r[i]
      BY <1>1, <1>2, <1>3, <2>1 DEF SameRows
    <3> QED  BY <2>4, <3>1, <3>2
  <2> QED  BY <2>5, <2>6 DEF Tells, Drawn, G
<1> HIDE DEF n
<1>7. IfInOrder(str, w, r, k, t, c)
  BY <1>6 DEF IfInOrder
<1> QED  BY <1>5, <1>7 DEF n

LEMMA SelectStep ==
    ASSUME StoreInv, Select
    PROVE  StoreInv'
<1>1. /\ ~ view.crashed
      /\ allRows' = allRows /\ rows' = rows /\ key' = key /\ thumb' = thumb /\ changed' = changed
      /\ filter' = filter /\ sort' = sort /\ strayed' = strayed
      /\ \/ \E pos \in DOMAIN view.items : view' = SelectOnly(view, pos) \/ view' = Toggle(view, pos)
         \/ view' = SetAllSelected(view, TRUE) \/ view' = SetAllSelected(view, FALSE)
  BY DEF Select
<1>2. view \in Views(Files, Keys) /\ Flagged(view) /\ Len(view.items) = Len(rows)
      /\ DOMAIN view.items = 1..Len(view.items)
  BY <1>1, StoreParts, ViewFacts DEF ViewOK, Drawn
<1> DEFINE Fine(w) == w \in Views(Files, Keys) /\ Flagged(w) /\ ~ w.crashed /\ SameRows(view, w)
<1>3. \A yes \in BOOLEAN : Fine(SetAllSelected(view, yes))
  BY <1>1, <1>2, AllSelectedShows
<1>4. ASSUME NEW pos \in DOMAIN view.items  PROVE Fine(Toggle(view, pos))
  <2> DEFINE yes == ~ view.items[pos].selected
  <2>1. pos \in 1..Len(view.items)
    BY <1>2
  <2>2. yes \in BOOLEAN
    OBVIOUS
  <2>3. Toggle(view, pos) = SetItemSelected(view, yes, pos)
    BY DEF Toggle
  <2> HIDE DEF yes
  <2> QED  BY <1>1, <1>2, <2>1, <2>2, <2>3, SelectingShows
<1>5. ASSUME NEW pos \in DOMAIN view.items  PROVE Fine(SelectOnly(view, pos))
  <2> DEFINE u == SetAllSelected(view, FALSE)
             w == SetItemSelected(u, TRUE, pos)
  <2>1. u \in Views(Files, Keys) /\ Flagged(u) /\ ~ u.crashed /\ SameRows(view, u)
    BY <1>3
  <2> HIDE DEF u
  <2>2. pos \in 1..Len(u.items) /\ TRUE \in BOOLEAN
    BY <1>2, <2>1 DEF SameRows
  <2>3. w \in Views(Files, Keys) /\ Flagged(w) /\ ~ w.crashed /\ SameRows(u, w)
    BY <2>1, <2>2, SelectingShows
  <2> HIDE DEF w
  <2>4. SameRows(view, w)
    BY <2>1, <2>3 DEF SameRows
  <2>5. SelectOnly(view, pos) = w
    BY DEF SelectOnly, u, w
  <2> QED  BY <2>3, <2>4, <2>5
<1>6. Fine(view')
  <2> HIDE DEF Fine
  <2>1. TRUE \in BOOLEAN /\ FALSE \in BOOLEAN
    OBVIOUS
  <2> QED  BY <1>1, <1>3, <1>4, <1>5, <2>1
<1>7. ViewOK(view', Len(rows)) /\ IfInOrder(strayed, view', rows, key, thumb, changed)
  <2>1. /\ rows \in Seq(Files) /\ ViewOK(view, Len(rows))
        /\ IfInOrder(strayed, view, rows, key, thumb, changed)
    BY StoreParts
  <2> DEFINE w == view'
  <2>2. w \in Views(Files, Keys) /\ Flagged(w) /\ ~ w.crashed /\ SameRows(view, w)
    BY <1>6
  <2> HIDE DEF w
  <2>3. ViewOK(w, Len(rows)) /\ IfInOrder(strayed, w, rows, key, thumb, changed)
    BY <1>1, <2>1, <2>2, SelectGood
  <2> QED  BY <2>3 DEF w
<1>8. Good(allRows, rows, key, thumb, changed, filter, sort, view', strayed)
  BY <1>7, StoreParts DEF Good
<1> QED  BY <1>1, <1>8 DEF StoreInv


-----------------------------------------------------------------------------
(* The specification *)

(* gth_file_store_init *)
LEMMA StoreStarts ==
    ASSUME StoreInit
    PROVE  StoreInv
<1> DEFINE none == <<>>
<1>1. /\ allRows = none /\ rows = none /\ key = [f \in Files |-> NoKey] /\ thumb = [f \in Files |-> FALSE]
      /\ changed = {} /\ filter = Keys /\ sort = "unsorted" /\ view = EmptyView /\ strayed = FALSE
  BY DEF StoreInit
<1>2. Drawn(view, StoreItems) /\ Len(view.items) = 0
  <2>1. view = [items |-> none, selection |-> {}, crashed |-> FALSE]
    BY <1>1 DEF EmptyView
  <2>2. \A S : none \in Seq(S)
    OBVIOUS
  <2>3. DOMAIN none = {} /\ Len(none) = 0
    OBVIOUS
  <2> HIDE DEF none
  <2>4. view \in Views(Files, Keys)
    BY <2>1, <2>2 DEF Views
  <2>5. Flagged(view)
    BY <2>1, <2>3 DEF Flagged
  <2>6. view.items = none /\ ~ view.crashed
    BY <2>1
  <2> QED  BY <2>2, <2>3, <2>4, <2>5, <2>6 DEF Drawn
<1>3. ViewOK(view, 0) /\ Tells(view, none, key, thumb, changed)
  BY <1>2, NoItems
<1>4. none \in Seq(Files) /\ IsInjective(none) /\ Range(none) = {} /\ Len(none) = 0 /\ DOMAIN none = {}
  BY DEF IsInjective, Range
<1> HIDE DEF none
<1>5. Ready(allRows, rows, key, thumb, sort)
  BY <1>1, <1>4 DEF Ready, Sorts
<1>6. HaveTypes(key, thumb, changed, filter)
  BY <1>1, StoreAssumption DEF HaveTypes
<1>7. Range(rows) = Accepted(allRows, key, filter) /\ Ordered(allRows, key, sort)
  BY <1>1, <1>4 DEF Accepted, Ordered
<1>8. ViewOK(view, Len(rows)) /\ IfInOrder(strayed, view, rows, key, thumb, changed)
  BY <1>1, <1>3, <1>4 DEF IfInOrder
<1> QED  BY <1>5, <1>6, <1>7, <1>8 DEF StoreInv, Good

\* a file is renamed, or the user selects
ByHand == Select \/ \E f, g \in Files : Rename(f, g)

(* Every operation keeps the invariant, and all but those of ByHand the selection. *)
LEMMA StoreSteps ==
    ASSUME StoreInv, StoreNext
    PROVE  StoreInv' /\ (SelectionKept \/ ByHand)
<1>1. ASSUME NEW queue \in Queues(Files \ Range(allRows)), NEW position \in 0..Len(allRows),
             NEW data \in [Range(queue) -> Keys], AddFiles(queue, data, position)
      PROVE  StoreInv' /\ SelectionKept
  BY <1>1, AddFilesStep
<1>2. ASSUME NEW flt \in Filters, SetFilter(flt)  PROVE StoreInv' /\ SelectionKept
  BY <1>2, SetFilterStep
<1>3. ASSUME NEW s \in Sorts, SetSort(s)  PROVE StoreInv' /\ SelectionKept
  BY <1>3, SetSortStep
<1>4. ASSUME NEW fs \in SUBSET Range(allRows), NEW value \in Keys, SetData(fs, value)
      PROVE  StoreInv' /\ SelectionKept
  BY <1>4, SetDataStep
<1>5. ASSUME NEW f \in Files, NEW g \in Files, Rename(f, g)  PROVE StoreInv' /\ ByHand
  BY <1>5, RenameStep DEF ByHand
<1>6. ASSUME NEW f \in Files, QueueThumbnail(f)  PROVE StoreInv' /\ SelectionKept
  BY <1>6, QueueThumbnailStep
<1>7. ASSUME ExecThumbnails  PROVE StoreInv' /\ SelectionKept
  BY <1>7, ExecThumbnailsStep
<1>8. ASSUME NEW queue \in Queues(Range(allRows)), RemoveFiles(queue)
      PROVE  StoreInv' /\ SelectionKept
  BY <1>8, RemoveFilesStep
<1>9. ASSUME Clear  PROVE StoreInv' /\ SelectionKept
  BY <1>9, ClearStep
<1>10. ASSUME NEW order \in Orders(Len(rows)), UserReorder(order)
       PROVE  StoreInv' /\ SelectionKept
  BY <1>10, UserReorderStep
<1>11. ASSUME Select  PROVE StoreInv' /\ ByHand
  BY <1>11, SelectStep DEF ByHand
<1> QED  BY <1>1, <1>2, <1>3, <1>4, <1>5, <1>6, <1>7, <1>8, <1>9, <1>10, <1>11 DEF StoreNext

(* A step that changes nothing. *)
LEMMA StoreStutters ==
    ASSUME StoreInv, UNCHANGED vars
    PROVE  StoreInv'
BY DEF vars, StoreInv

\* The inductive invariant: the visible rows are the accepted ones, with a cmp_func
\* all_rows is in its order, and as long as rows was in the order of all_rows in every
\* update (gth_file_store_reorder leaves it in another) the view shows them, with
\* their data but for what the marked rows will tell.
THEOREM StoreInvariant == StoreSpec => []StoreInv
<1>1. StoreInit => StoreInv
  BY StoreStarts
<1>2. StoreInv /\ [StoreNext]_vars => StoreInv'
  BY StoreSteps, StoreStutters
<1> QED  BY <1>1, <1>2, PTL DEF StoreSpec

\* Rows, keys, marks and the view keep their types; no file is listed twice in all_rows
\* or in rows; the positions that the view holds as selected are of its items, and are
\* those of the items that have the flag.
THEOREM StoreTypes == StoreSpec => []StoreTypeOK
<1>1. StoreInv => StoreTypeOK
  <2> SUFFICES ASSUME StoreInv PROVE StoreTypeOK
    OBVIOUS
  <2>1. view \in Views(Files, Keys) /\ view.selection \subseteq DOMAIN view.items
        /\ (~ view.crashed => Flagged(view))
    BY StoreParts DEF ViewOK, Drawn
  <2>2. view.items \in Seq([file : Files, key : Keys, thumb : BOOLEAN, selected : BOOLEAN])
    BY <2>1 DEF Views, GridItems
  <2>3. view.crashed \in BOOLEAN
    BY <2>1 DEF Views
  <2> QED  BY <2>1, <2>2, <2>3, StoreParts DEF StoreTypeOK, Flagged
<1> QED  BY <1>1, StoreInvariant, PTL

\* _gth_file_store_update_visibility and all that leads to it: after any sequence of
\* operations the visible rows are exactly the files that the filter accepts, and with
\* a cmp_func all_rows is sorted.
THEOREM RowsAreAcceptedHolds == StoreSpec => []RowsAreAccepted
<1>1. StoreInv => RowsAreAccepted
  BY StoreParts DEF RowsAreAccepted, Accepted, Ordered
<1> QED  BY <1>1, StoreInvariant, PTL

\* The signals of the store take the grid view to the visible rows, one for one, and
\* never past its items, unless an update found rows in another order than all_rows; an
\* item that does not show what its row has is one of a row that will be told.
THEOREM ViewMirrorsStoreHolds == StoreSpec => []ViewMirrorsStore
<1>1. StoreInv => ViewMirrorsStore
  <2> SUFFICES ASSUME StoreInv, ~ strayed
               PROVE  /\ ~ view.crashed /\ ViewFiles = rows
                      /\ \A i \in DOMAIN view.items : LET f == view.items[i].file IN
                            (view.items[i].key # key[f] \/ view.items[i].thumb # thumb[f]) => f \in changed
    BY DEF ViewMirrorsStore
  <2> DEFINE G == Told(key, thumb, changed)
  <2>1. Drawn(view, G) /\ Shown(view) = rows
    BY StoreParts DEF IfInOrder, Tells
  <2>2. view.items \in Seq(G) /\ ~ view.crashed
    BY <2>1 DEF Drawn
  <2>3. ASSUME NEW i \in DOMAIN view.items, NEW f, f = view.items[i].file,
               view.items[i].key # key[f] \/ view.items[i].thumb # thumb[f]
        PROVE  f \in changed
    <3> HIDE DEF G
    <3>1. view.items[i] \in G
      BY <2>2
    <3> QED  BY <2>3, <3>1 DEF G, Told
  <2>4. ViewFiles = rows
    BY <2>1 DEF ViewFiles, Shown
  <2> QED  BY <2>2, <2>3, <2>4
<1> QED  BY <1>1, StoreInvariant, PTL

\* A change of the store (files added, removed, sorted, filtered, moved, set) selects
\* nothing that the user did not, and unselects only what is no longer visible.
THEOREM SelectionFollowsFilesHolds == StoreSpec => SelectionFollowsFiles
<1> DEFINE Follows1 == \/ Selected' = Selected \intersect Range(rows')
                       \/ strayed'
                       \/ Select
                       \/ \E f, g \in Files : Rename(f, g)
<1>1. StoreInv /\ [StoreNext]_vars => [Follows1]_vars
  <2> SUFFICES ASSUME StoreInv, StoreNext  PROVE Follows1
    OBVIOUS
  <2>1. CASE ByHand
    BY <2>1 DEF ByHand
  <2>2. CASE SelectionKept
    BY <2>2 DEF SelectionKept, Keeps, SelectedFiles, Selected
  <2> QED  BY <2>1, <2>2, StoreSteps
<1> QED  BY <1>1, StoreInvariant, PTL DEF StoreSpec, SelectionFollowsFiles

=============================================================================
