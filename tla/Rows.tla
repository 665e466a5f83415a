-------------------------------- MODULE Rows --------------------------------
(***************************************************************************)
(* What the lists of files, jobs and locations have in common: a sequence  *)
(* is gone through, and what does not belong to it any more is taken out.  *)
(***************************************************************************)
EXTENDS Integers, Sequences, SequencesExt

\* The elements of s that are in A, in their order.  It is a function over the places
\* of s, about which more can be proved than about SelectSeq.
Keep(s, A) ==
    LET kept[n \in 0..Len(s)] ==
            IF n = 0 THEN <<>>
            ELSE IF s[n] \in A THEN Append(kept[n-1], s[n]) ELSE kept[n-1]
    IN  kept[Len(s)]
=============================================================================
