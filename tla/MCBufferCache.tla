---------------------------- MODULE MCBufferCache ----------------------------
(* Instances of BufferCache for TLC. The names of a key's slots are reused *)
(* as soon as nothing refers to them: one for the map and one for each     *)
(* goroutine that still waits on a slot that left it are enough.           *)
EXTENDS BufferCache
=============================================================================
