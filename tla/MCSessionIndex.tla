--------------------------- MODULE MCSessionIndex ---------------------------
(* The account a has logged in with a wildcard and a drive session before.   *)
EXTENDS SessionIndex, TLC
MCHeld == <<<<"a", "*">>, <<"a", "drive">>>>
Interchangeable == Permutations(Procs)
=============================================================================
