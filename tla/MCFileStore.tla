---------------------------- MODULE MCFileStore -----------------------------
(* Instances of FileStore for TLC. *)
EXTENDS FileStore, TLC

FileSymmetry == Permutations(Files)

\* Bound: nothing is explored after a view has strayed.
NotStrayed == ~strayed
=============================================================================
