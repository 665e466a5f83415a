--------------------------- MODULE MCImageHistory ---------------------------
(* Instances of ImageHistory for TLC. *)
EXTENDS ImageHistory
=============================================================================
