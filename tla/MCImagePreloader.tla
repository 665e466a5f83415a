-------------------------- MODULE MCImagePreloader --------------------------
(* Instances of ImagePreloader for TLC. *)
EXTENDS ImagePreloader

CONSTANTS f1, f2

\* With two files the only neighbour of a file is the other one; a list may
\* also be empty, and the requested file itself may come back as a neighbour.
MCNeighbours == {<<>>, <<f1>>, <<f2>>}
OneNeighbour == {<<>>, <<f2>>}
=============================================================================
