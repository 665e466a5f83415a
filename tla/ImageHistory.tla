---------------------------- MODULE ImageHistory ----------------------------
(***************************************************************************)
(* gthumb/gthumb/gth-image-history.c and the operations of the viewer page *)
(* (extensions/image_viewer/gth-image-viewer-page.c) that edit the opened  *)
(* image: two bounded lists of images, the newest first, the image in the  *)
(* viewer, and whether the page takes it for a change to be saved.         *)
(* Everything happens in callbacks of the main loop, one step each.  The   *)
(* way images travel through the preloader is left to ViewerPage.          *)
(***************************************************************************)
EXTENDS Integers, Sequences

CONSTANTS
    MAX_UNDO_HISTORY_LEN,
    MaxImages           \* bound: images that exist, on disk or as edits

ASSUME HistoryAssumption ==
    /\ MAX_UNDO_HISTORY_LEN \in Nat
    /\ MAX_UNDO_HISTORY_LEN >= 2
    /\ MaxImages \in Nat \ {0}

NoImage   == 0
Images    == 0..MaxImages
ImageData == [image : Images, unsaved : BOOLEAN]

VARIABLES
    undo,       \* priv->undo_history; its first image is the current one
    redo,       \* priv->redo_history
    shown,      \* the image in the viewer
    changed,    \* priv->image_changed
    saved,      \* the image in the file
    stale,      \* the file has changed since the page loaded it
    made        \* number of images so far; images are numbered

hvars == <<undo, redo, shown, changed, saved, stale, made>>

-----------------------------------------------------------------------------
(* The lists *)

\* Mutant: truncated a step too early, when undo and redo only move images.
AddToList_Early(l, e) ==
    <<e>> \o (IF Len(l) >= MAX_UNDO_HISTORY_LEN - 1
              THEN SubSeq(l, 1, MAX_UNDO_HISTORY_LEN - 2) ELSE l)

\* A list that has grown beyond the bound is cut below it: two images are lost.
AddToList(l, e) ==
    <<e>> \o (IF Len(l) > MAX_UNDO_HISTORY_LEN
              THEN SubSeq(l, 1, MAX_UNDO_HISTORY_LEN - 1) ELSE l)

\* Mutant: the images that could be redone stay.
AddImage_KeepRedo(i, unsaved) ==
    /\ undo' = AddToList(undo, [image |-> i, unsaved |-> unsaved])
    /\ UNCHANGED redo

AddImage(i, unsaved) ==
    /\ undo' = AddToList(undo, [image |-> i, unsaved |-> unsaved])
    /\ redo' = <<>>

ClearAndAdd(i) ==
    /\ undo' = <<[image |-> i, unsaved |-> FALSE]>>
    /\ redo' = <<>>

CanUndo == Len(undo) >= 2
CanRedo == redo # <<>>

\* The image to go back to, as a set of at most one: the oldest saved one.
LastSaved ==
    LET S == {k \in DOMAIN undo : ~ undo[k].unsaved}
    IN  {undo[k] : k \in {k \in S : \A j \in S : j <= k}}

-----------------------------------------------------------------------------
(* The operations of the page *)

\* _gth_image_viewer_page_set_image
SetImage(d) ==
    /\ shown' = d.image
    /\ changed' = d.unsaved

\* The page loads the file: when it is opened, has changed on disk, or when the
\* changes to it were discarded (preloader_load_ready_cb).
Load ==
    /\ stale \/ changed
    /\ ClearAndAdd(saved)
    /\ shown' = saved
    /\ changed' = FALSE
    /\ stale' = FALSE
    /\ UNCHANGED <<saved, made>>

\* gth_image_viewer_page_set_image: a tool changes the image for good ...
Edit ==
    /\ shown # NoImage
    /\ made < MaxImages
    /\ made' = made + 1
    /\ AddImage(made', TRUE)
    /\ SetImage([image |-> made', unsaved |-> TRUE])
    /\ UNCHANGED <<saved, stale>>

\* ... or shows what it would do,
Preview ==
    /\ shown # NoImage
    /\ made < MaxImages
    /\ made' = made + 1
    /\ SetImage([image |-> made', unsaved |-> TRUE])
    /\ UNCHANGED <<undo, redo, saved, stale>>

\* and goes back to the current image when it is cancelled.
\* gth_image_viewer_page_reset
Reset ==
    /\ undo # <<>>
    /\ SetImage(Head(undo))
    /\ UNCHANGED <<undo, redo, saved, stale, made>>

\* Mutant: the oldest image is taken for the saved one.
Undo_ToSaved ==
    /\ CanUndo
    /\ undo' = Tail(undo)
    /\ redo' = AddToList(redo, Head(undo))
    /\ SetImage([Head(undo') EXCEPT !.unsaved = Len(undo') > 1])
    /\ UNCHANGED <<saved, stale, made>>

Undo ==
    /\ CanUndo
    /\ undo' = Tail(undo)
    /\ redo' = AddToList(redo, Head(undo))
    /\ SetImage(Head(undo'))
    /\ UNCHANGED <<saved, stale, made>>

Redo ==
    /\ CanRedo
    /\ redo' = Tail(redo)
    /\ undo' = AddToList(undo, Head(redo))
    /\ SetImage(Head(redo))
    /\ UNCHANGED <<saved, stale, made>>

\* Mutant: it is not checked that the history still has a saved image.
Revert_NoCheck ==
    /\ changed
    /\ undo' = <<>>
    /\ redo' = <<>>
    /\ \/ \E d \in LastSaved : SetImage(d)
       \/ LastSaved = {} /\ shown' = -1 /\ UNCHANGED changed
    /\ UNCHANGED <<saved, stale, made>>

\* gth_image_viewer_page_real_revert: the history is cleared in any case, also
\* when it no longer has a saved image.  (Enabled for a modified image.)
Revert ==
    /\ changed
    /\ undo' = <<>>
    /\ redo' = <<>>
    /\ \/ \E d \in LastSaved : SetImage(d)
       \/ LastSaved = {} /\ UNCHANGED <<shown, changed>>
    /\ UNCHANGED <<saved, stale, made>>

\* The changed image is written to the file, which is then loaded again; the
\* history does not notice.
Save ==
    /\ changed
    /\ saved' = shown
    /\ stale' = TRUE
    /\ UNCHANGED <<undo, redo, shown, changed, made>>

\* Another program writes the file.
FileChanged ==
    /\ made < MaxImages
    /\ made' = made + 1
    /\ saved' = made'
    /\ stale' = TRUE
    /\ UNCHANGED <<undo, redo, shown, changed>>

\* A file that is yet to be opened.
HInit ==
    /\ undo = <<>>
    /\ redo = <<>>
    /\ shown = NoImage
    /\ changed = FALSE
    /\ saved = 1
    /\ stale = TRUE
    /\ made = 1

HNext == Load \/ Edit \/ Preview \/ Reset \/ Undo \/ Redo \/ Revert \/ Save \/ FileChanged

HSpec == HInit /\ [][HNext]_hvars

-----------------------------------------------------------------------------
(* Properties *)

HistoryTypeOK ==
    /\ undo \in Seq(ImageData)
    /\ redo \in Seq(ImageData)
    /\ shown \in Images
    /\ changed \in BOOLEAN
    /\ saved \in Images
    /\ stale \in BOOLEAN
    /\ made \in 0..MaxImages

\* The two lists together never exceed the bound by more than one, so undo and
\* redo, which call the same truncating function, never lose an image.
HistoryFits == Len(undo) + Len(redo) <= MAX_UNDO_HISTORY_LEN + 1

\* Only the oldest image of all can be a saved one, so that whatever was undone
\* or redone the page marks as unchanged the image that was loaded, and no other.
OldestIsSaved ==
    /\ \A k \in DOMAIN undo : ~ undo[k].unsaved => k = Len(undo)
    /\ \A k \in DOMAIN redo : redo[k].unsaved

\* When the page says that the image is unchanged (the user will not be asked to
\* save it) the viewer shows what is in the file, unless the file has changed
\* and is yet to be loaded again.
UnchangedIsSaved == ~ changed /\ ~ stale => shown = saved

\* The history implements the timeline: undo and redo lose nothing and are each
\* other's inverse, and MAX_UNDO_HISTORY_LEN - 1 steps can always be undone.
LineOf(u, r) == [k \in 1 .. Len(u) + Len(r) |->
                    IF k <= Len(u) THEN u[Len(u) + 1 - k].image
                                   ELSE r[k - Len(u)].image]

Timeline == INSTANCE EditTimeline WITH
    Depth  <- MAX_UNDO_HISTORY_LEN - 1,
    line   <- LineOf(undo, redo),
    cursor <- Len(undo)

ImplementsTimeline == Timeline!TimelineSpec

=============================================================================
