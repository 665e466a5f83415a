---------------------------- MODULE EditTimeline ----------------------------
(***************************************************************************)
(* What undo and redo promise: a line of images with a cursor on it.  Undo *)
(* and redo only move the cursor, an edit cuts the line after the cursor   *)
(* and appends the new image.  Only an edit may forget old images, and it  *)
(* always leaves at least Depth steps to undo, if there were as many.      *)
(* ImageHistory implements it.                                             *)
(***************************************************************************)
EXTENDS Integers, Sequences

CONSTANTS
    Depth,      \* steps that can always be undone, a natural number
    Images

VARIABLES
    line,       \* the images, the oldest first
    cursor,     \* the position of the current one, 0 when the line is empty
    shown       \* the image in the viewer: the current one, or a preview

tvars == <<line, cursor, shown>>

TimelineInit ==
    /\ line = <<>>
    /\ cursor = 0
    /\ shown \in Images

\* A loaded file starts a new line.
Start ==
    \E i \in Images :
        /\ line' = <<i>>
        /\ cursor' = 1
        /\ shown' = i

Edit ==
    \E i \in Images, forgotten \in 0..cursor :
        /\ cursor - forgotten >= IF cursor < Depth THEN cursor ELSE Depth
        /\ line' = Append(SubSeq(line, forgotten + 1, cursor), i)
        /\ cursor' = cursor - forgotten + 1
        /\ shown' = i

Back ==
    /\ cursor > 1
    /\ cursor' = cursor - 1
    /\ shown' = line[cursor - 1]
    /\ UNCHANGED line

Forth ==
    /\ cursor < Len(line)
    /\ cursor' = cursor + 1
    /\ shown' = line[cursor + 1]
    /\ UNCHANGED line

\* A preview shows an image that is not on the line; it ends where it began.
Show ==
    /\ shown' \in Images
    /\ UNCHANGED <<line, cursor>>

\* Reverting goes back to an image of the line, if any, and forgets the line.
GoBackToSaved ==
    /\ shown' \in {shown} \union {line[k] : k \in 1..cursor}
    /\ line' = <<>>
    /\ cursor' = 0

TimelineNext == Start \/ Edit \/ Back \/ Forth \/ Show \/ GoBackToSaved

TimelineSpec == TimelineInit /\ [][TimelineNext]_tvars
=============================================================================
