-------------------------- MODULE MCFileDescriptor --------------------------
(* Instances of FileDescriptor for TLC.                                    *)
EXTENDS FileDescriptor

(* An orderly writer of up to three blocks, and threads that use the       *)
(* descriptor in every way on up to two.                                   *)
Load(usage, size, w_, f) ==
  [usage |-> usage, maxSize |-> size, maxWrites |-> w_, maxFlushes |-> f]
MCWorkloads == {Load({"sync"}, 5, 3, 4), Load(Uses, 2, 2, 2)}
MCFsync == {Load({"sync", "newsync"}, 4, 3, 2)}
=============================================================================
