--------------------------- MODULE MCDirectoryView ---------------------------
(* Instances of DirectoryView for TLC.                                     *)
EXTENDS DirectoryView, TLC

(* The children are interchangeable; no run with it checks liveness. *)
Interchangeable == Permutations(File)
=============================================================================
