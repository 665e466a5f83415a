---------------------------- MODULE MCViewerPage ----------------------------
(* Instances of ViewerPage for TLC. *)
EXTENDS ViewerPage

CONSTANTS f1, f2

\* The neighbour of the first file is decoded in advance, or none.
NoNeighbours == {<<>>}
OneNeighbour == {<<f2>>}
=============================================================================
