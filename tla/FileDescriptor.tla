---------------------------- MODULE FileDescriptor ----------------------------
(***************************************************************************)
(* The write side of api/drive/fd.go: one write-mode FileDescriptor, the   *)
(* threads that call Write, WriteAt, Truncate, Sync, Flush and Close on    *)
(* it, the upload goroutines flushBlock starts, and the server's view of   *)
(* the file.                                                               *)
(*                                                                         *)
(* The steps of a call are its critical sections: fd.mu is held during a   *)
(* whole Write or WriteAt, but Flush and Sync hold it only while they hand *)
(* over the partial block, and take tokensMu three more times around the   *)
(* commit. A byte is the number of the write that wrote it; 0 is a zero.   *)
(***************************************************************************)
EXTENDS Naturals, Sequences, FiniteSets

CONSTANTS
  Thread,        \* callers of the descriptor
  BlockSize,     \* bytes in a block
  MayFail,       \* which requests may fail: "upload", "commit", "create"
  Workloads      \* how the threads may use the descriptor, see WorkloadAssumption

ASSUME SizeAssumption == BlockSize \in Nat \ {0}
ASSUME FlagAssumption == MayFail \subseteq {"upload", "commit", "create"}
(* "rewrite": WriteAt before the end of what was written; "gap": beyond    *)
(* it; "resume": a write after a Flush or Sync; "sync", "newsync": Sync is *)
(* called on a file that existed, that is new; "overlap": a Flush, Sync or *)
(* Close begins while another one runs; "truncate": Truncate is called.    *)
(* The bounds are the file size, the calls of Write, WriteAt and Truncate, *)
(* and those of Flush, Sync and Close.                                     *)
Uses == {"rewrite", "gap", "resume", "sync", "newsync", "overlap", "truncate"}
ASSUME WorkloadAssumption ==
  Workloads \subseteq [usage : SUBSET Uses, maxSize : Nat, maxWrites : Nat, maxFlushes : Nat]

(* What the server shows of the file: the revision that is overwritten, or *)
(* no active revision yet, or the blocks a commit named.                   *)
Old == [state |-> "old", blocks |-> <<>>]
Draft == [state |-> "draft", blocks |-> <<>>]
Active(blocks) == [state |-> "active", blocks |-> blocks]

VARIABLES
  load,       \* the workload of this behaviour
  w,          \* the accumulator: [cur |-> curBlock, idx |-> curIdx, size |-> fileSize]
  closed,
  uploads,    \* inflight: [n |-> number, idx, data] of the blocks being uploaded
  uploaded,   \* how many uploads were started
  tokens,     \* fd.tokens: set of [idx, data], one per index
  firstErr, committed,
  place,      \* per thread: where it is in Flush ("f..."), Sync ("s...") or not
  hadBlock,   \* per thread: hasCurBlock of its Flush
  snap,       \* per thread: tokensCopy
  revision,   \* fd.revisionID, as the number of the revision
  isNew,      \* CreateFD (TRUE) or OverwriteFD (FALSE)
  active,     \* server: the active revision
  \* history, read by the properties and the usage guards only
  written,    \* the bytes a reader of a local file would see
  writes, flushes, touched, goal, result,
  faulty      \* a request has failed

fdVars == <<w, closed, uploads, uploaded, tokens, firstErr, committed, revision, isNew>>
threadVars == <<place, hadBlock, snap>>
history == <<written, writes, flushes, touched, goal, result, faulty>>
fdAll == <<load, fdVars, threadVars, active, history>>

Usage == load.usage
MaxSize == load.maxSize
MaxWrites == load.maxWrites
MaxFlushes == load.maxFlushes

Blocks(data) ==
  LET n == (Len(data) + BlockSize - 1) \div BlockSize
      Hi(i) == IF i * BlockSize < Len(data) THEN i * BlockSize ELSE Len(data)
  IN [i \in 1..n |-> SubSeq(data, (i - 1) * BlockSize + 1, Hi(i))]

Place == {"idle", "close", "fwait", "fread", "fcopy", "fupdate", "fdone",
       "swait", "sread", "scopy", "supdate", "screate", "sreset", "sclear"}
Byte == 0..MaxWrites
Block == UNION {[1..n -> Byte] : n \in 0..BlockSize}
Token == [idx : 0..MaxSize, data : Block]

FdTypeOK ==
  /\ load \in Workloads
  /\ w.cur \in Block /\ Len(w.cur) < BlockSize /\ w.idx \in 0..MaxSize /\ w.size \in 0..MaxSize
  /\ {closed, firstErr, committed, isNew, touched, faulty} \subseteq BOOLEAN
  /\ uploaded \in Nat
  /\ \A u \in uploads : u.n \in 1..uploaded /\ [idx |-> u.idx, data |-> u.data] \in Token
  /\ tokens \subseteq Token /\ \A s, t \in tokens : s.idx = t.idx => s = t
  /\ place \in [Thread -> Place]
  /\ hadBlock \in [Thread -> BOOLEAN]
  /\ \A t \in Thread : snap[t] \subseteq Token
  /\ revision \in Nat
  /\ active.state \in {"old", "draft", "active"}
  /\ \A i \in DOMAIN active.blocks : active.blocks[i] \in Block
  /\ Len(written) <= MaxSize
  /\ writes \in 0..MaxWrites /\ flushes \in 0..MaxFlushes
  /\ result \in [Thread -> {"none", "ok", "err"}]

FdInit ==
  /\ load \in Workloads
  /\ w = [cur |-> <<>>, idx |-> 0, size |-> 0]
  /\ closed = FALSE /\ firstErr = FALSE /\ committed = FALSE
  /\ uploads = {} /\ uploaded = 0 /\ tokens = {} /\ revision = 1
  /\ place = [t \in Thread |-> "idle"]
  /\ hadBlock = [t \in Thread |-> FALSE]
  /\ snap = [t \in Thread |-> {}]
  /\ isNew \in BOOLEAN /\ active = IF isNew THEN Draft ELSE Old
  /\ written = <<>> /\ writes = 0 /\ flushes = 0 /\ touched = isNew
  /\ goal = [t \in Thread |-> <<>>]
  /\ result = [t \in Thread |-> "none"] /\ faulty = FALSE

-----------------------------------------------------------------------------
(* Write and WriteAt. The loop over chunks is taken as a whole: it leaves  *)
(* what putting all bytes behind the beginning of the block it starts in,  *)
(* and cutting the result into blocks, leaves.                             *)

(* data with n bytes v at off: overwritten, extended, zero-filled up to it *)
Overlay(data, off, n, v) ==
  [i \in 1..(IF off + n > Len(data) THEN off + n ELSE Len(data)) |->
     IF i > off /\ i <= off + n THEN v ELSE IF i <= Len(data) THEN data[i] ELSE 0]

(* flushBlock of the accumulated block, if it is not empty.                *)
FlushCur == IF w.cur = <<>> THEN <<>> ELSE <<[idx |-> w.idx, data |-> w.cur]>>

(* The current index after k blocks filled up.                             *)
IndexKept(first, k) == first
IndexAfter(first, k) == first + k

(* A block that is not the current one becomes it: what was accumulated is *)
(* flushed, and the accumulator starts empty even when that block was      *)
(* written before.                                                         *)
Base(first) == IF first = w.idx THEN w.cur ELSE <<>>
Left(first) == IF first = w.idx THEN <<>> ELSE FlushCur

(* The accumulator after n bytes v were written at position at of block    *)
(* first, and the blocks that were flushed.                                *)
Accumulated(first, at, n, v, size) ==
  LET data == Overlay(Base(first), at, n, v)
      full == Len(data) \div BlockSize
  IN [w |-> [cur |-> SubSeq(data, full * BlockSize + 1, Len(data)),
             idx |-> IndexAfter(first, full), size |-> size],
      out |-> Left(first) \o
        [i \in 1..full |-> [idx |-> IndexAfter(first, i - 1),
                           data |-> SubSeq(data, (i - 1) * BlockSize + 1, i * BlockSize)]]]
Written(n, v) == Accumulated(w.idx, Len(w.cur), n, v, w.size + n)
WrittenAt(off, n, v) ==
  Accumulated(off \div BlockSize, off % BlockSize, n, v,
              IF off + n > w.size THEN off + n ELSE w.size)

(* The upload goroutines for a sequence of flushed blocks.                 *)
Spawn(out) ==
  /\ uploads' = uploads \cup {[n |-> uploaded + i, idx |-> out[i].idx, data |-> out[i].data]
                                : i \in DOMAIN out}
  /\ uploaded' = uploaded + Len(out)

Busy == {t \in Thread : place[t] # "idle"}
MayWrite ==
  /\ writes < MaxWrites /\ writes' = writes + 1
  /\ flushes = 0 \/ "resume" \in Usage
OffsetAllowed(off) ==
  /\ off < Len(written) => "rewrite" \in Usage
  /\ off > Len(written) => "gap" \in Usage

(* Write: append to the accumulator, whatever the offset.                  *)
Write(t, n) ==
  /\ place[t] = "idle" /\ ~closed /\ MayWrite
  /\ "rewrite" \notin Usage /\ "gap" \notin Usage /\ "truncate" \notin Usage
  /\ w.size + n <= MaxSize
  /\ LET acc == Written(n, writes + 1) IN w' = acc.w /\ Spawn(acc.out)
  /\ written' = Overlay(written, Len(written), n, writes + 1) /\ touched' = TRUE
  /\ UNCHANGED <<closed, tokens, firstErr, committed, revision, isNew, threadVars, active,
                 flushes, goal, result, faulty>>

(* WriteAt.                                                                *)
WriteAt(t, off, n) ==
  /\ place[t] = "idle" /\ ~closed /\ MayWrite /\ OffsetAllowed(off)
  /\ off + n <= MaxSize
  /\ LET acc == WrittenAt(off, n, writes + 1) IN w' = acc.w /\ Spawn(acc.out)
  /\ written' = Overlay(written, off, n, writes + 1) /\ touched' = TRUE
  /\ UNCHANGED <<closed, tokens, firstErr, committed, revision, isNew, threadVars, active,
                 flushes, goal, result, faulty>>

(* Truncate: only the recorded size changes.                               *)
Truncate(t, size) ==
  /\ place[t] = "idle" /\ ~closed /\ MayWrite /\ "truncate" \in Usage
  /\ w' = [w EXCEPT !.size = size]
  /\ written' = [i \in 1..size |-> IF i <= Len(written) THEN written[i] ELSE 0]
  /\ touched' = TRUE
  /\ UNCHANGED <<closed, uploads, uploaded, tokens, firstErr, committed, revision, isNew, threadVars,
                 active, flushes, goal, result, faulty>>

-----------------------------------------------------------------------------
(* The goroutine flushBlock starts: encryptAndUploadBlock, then the token  *)
(* of the index is replaced, or the first error recorded.                  *)
UploadOK(u) ==
  /\ uploads' = uploads \ {u}
  /\ tokens' = {s \in tokens : s.idx # u.idx} \cup {[idx |-> u.idx, data |-> u.data]}
  /\ UNCHANGED <<w, closed, uploaded, firstErr, committed, revision, isNew, threadVars, active, history>>

UploadFails(u) ==
  /\ "upload" \in MayFail
  /\ uploads' = uploads \ {u} /\ firstErr' = TRUE /\ faulty' = TRUE
  /\ UNCHANGED <<w, closed, uploaded, tokens, committed, revision, isNew, threadVars, active,
                 written, writes, flushes, touched, goal, result>>

-----------------------------------------------------------------------------
(* Flush, Close and Sync.                                                  *)
GoOn(t, l) == place' = [place EXCEPT ![t] = l]
Return(t, r) ==
  /\ GoOn(t, "idle") /\ result' = [result EXCEPT ![t] = r]
  /\ hadBlock' = [hadBlock EXCEPT ![t] = FALSE]
  /\ snap' = [snap EXCEPT ![t] = {}]
Stay == UNCHANGED <<hadBlock, snap, result>>
SameCalls == UNCHANGED <<written, writes, flushes, touched, goal>>
NoHistory == SameCalls /\ UNCHANGED faulty

Called(t) ==
  /\ place[t] = "idle" /\ flushes < MaxFlushes /\ flushes' = flushes + 1
  /\ Busy = {} \/ "overlap" \in Usage
  /\ UNCHANGED <<written, writes, touched, faulty>>

(* The first critical section: the partial block is handed over; the next  *)
(* writes go on at the same index with an empty accumulator.               *)
HandOver(t, l) ==
  /\ Spawn(FlushCur) /\ w' = [w EXCEPT !.cur = <<>>]
  /\ hadBlock' = [hadBlock EXCEPT ![t] = w.cur # <<>>]
  /\ GoOn(t, l)
  /\ goal' = [goal EXCEPT ![t] = written]
  /\ result' = [result EXCEPT ![t] = "none"]
  /\ UNCHANGED <<tokens, firstErr, committed, revision, isNew, snap, active>>

Flush(t) == Called(t) /\ HandOver(t, "fwait") /\ UNCHANGED closed

(* Close sets closed in a critical section of its own; a second Close      *)
(* returns nil at once.                                                    *)
Close(t) ==
  /\ Called(t)
  /\ closed' = TRUE
  /\ IF closed THEN Return(t, "none") ELSE GoOn(t, "close") /\ Stay
  /\ UNCHANGED <<w, uploads, uploaded, tokens, firstErr, committed, revision, isNew, active, goal>>
CloseFlush(t) ==
  /\ place[t] = "close"
  /\ HandOver(t, "fwait") /\ UNCHANGED <<closed, written, writes, flushes, touched, faulty>>

Sync(t) ==
  /\ (IF isNew THEN "newsync" ELSE "sync") \in Usage /\ ~closed
  /\ Called(t) /\ HandOver(t, "swait") /\ UNCHANGED closed

(* inflight.Wait().                                                        *)
WaitNot(t) ==
  /\ place[t] \in {"fwait", "swait"}
  /\ GoOn(t, IF place[t] = "fwait" THEN "fread" ELSE "sread")
  /\ Stay /\ NoHistory /\ UNCHANGED <<fdVars, active>>
Wait(t) ==
  /\ place[t] \in {"fwait", "swait"} /\ uploads = {}
  /\ GoOn(t, IF place[t] = "fwait" THEN "fread" ELSE "sread")
  /\ Stay /\ NoHistory /\ UNCHANGED <<fdVars, active>>

(* firstErr, len(tokens) and committed are read under tokensMu. A Sync     *)
(* with nothing to commit promises nothing.                                *)
NothingToCommit(t) ==
  /\ tokens = {}
  /\ place[t] = "fread" => ~hadBlock[t] /\ ~(isNew /\ ~committed)
UploadFailedNever(t) == FALSE
UploadFailed(t) == firstErr
Decide(t) ==
  /\ place[t] \in {"fread", "sread"}
  /\ \/ UploadFailed(t) /\ Return(t, "err")
     \/ ~UploadFailed(t) /\ NothingToCommit(t)
          /\ Return(t, IF place[t] = "fread" THEN "ok" ELSE "none")
     \/ ~UploadFailed(t) /\ ~NothingToCommit(t) /\ Stay
          /\ GoOn(t, IF place[t] = "fread" THEN "fcopy" ELSE "scopy")
  /\ NoHistory /\ UNCHANGED <<fdVars, active>>

(* commitRevision: the tokens are copied, and must have the indices        *)
(* 0 .. n-1.                                                               *)
Contiguous(T) == {s.idx : s \in T} = 0..(Cardinality(T) - 1)
CopyTokens(t) ==
  /\ place[t] \in {"fcopy", "scopy"}
  /\ IF Contiguous(tokens)
     THEN /\ snap' = [snap EXCEPT ![t] = tokens]
          /\ GoOn(t, IF place[t] = "fcopy" THEN "fupdate" ELSE "supdate")
          /\ UNCHANGED <<hadBlock, result>>
     ELSE Return(t, "err")
  /\ NoHistory /\ UNCHANGED <<fdVars, active>>

(* UpdateRevision: the copied blocks become the active revision. The       *)
(* server is taken to accept a second update of the same revision.         *)
BlocksOf(T) == [i \in 1..Cardinality(T) |-> (CHOOSE s \in T : s.idx = i - 1).data]
UpdateRetries(t) ==
  /\ place[t] \in {"fupdate", "supdate"}
  /\ Stay
  /\ \/ /\ active' = Active(BlocksOf(snap[t])) /\ UNCHANGED faulty
        /\ GoOn(t, IF place[t] = "fupdate" THEN "fdone" ELSE "screate")
     \/ /\ "commit" \in MayFail /\ faulty' = TRUE /\ UNCHANGED active
        /\ GoOn(t, IF place[t] = "fupdate" THEN "fcopy" ELSE "scopy")
  /\ SameCalls /\ UNCHANGED fdVars
UpdateRevision(t) ==
  /\ place[t] \in {"fupdate", "supdate"}
  /\ \/ /\ active' = Active(BlocksOf(snap[t]))
        /\ GoOn(t, IF place[t] = "fupdate" THEN "fdone" ELSE "screate")
        /\ Stay /\ UNCHANGED faulty
     \/ "commit" \in MayFail /\ faulty' = TRUE /\ Return(t, "err") /\ UNCHANGED active
  /\ SameCalls /\ UNCHANGED fdVars

(* Flush marks the descriptor committed and forgets the tokens.            *)
FlushDone(t) ==
  /\ place[t] = "fdone"
  /\ committed' = TRUE /\ tokens' = {}
  /\ Return(t, "ok")
  /\ NoHistory /\ UNCHANGED <<w, closed, uploads, uploaded, firstErr, revision, isNew, active>>

(* Sync opens the next revision, then starts over at block 0 (fd.mu), then *)
(* forgets tokens and error (tokensMu).                                    *)
CreateRevision(t) ==
  /\ place[t] = "screate"
  /\ \/ GoOn(t, "sreset") /\ Stay /\ UNCHANGED faulty
     \/ "create" \in MayFail /\ faulty' = TRUE /\ Return(t, "err")
  /\ SameCalls /\ UNCHANGED <<fdVars, active>>
SyncReset(t) ==
  /\ place[t] = "sreset"
  /\ revision' = revision + 1 /\ w' = [w EXCEPT !.cur = <<>>, !.idx = 0]
  /\ GoOn(t, "sclear") /\ Stay
  /\ NoHistory /\ UNCHANGED <<closed, uploads, uploaded, tokens, firstErr, committed, isNew, active>>
SyncClear(t) ==
  /\ place[t] = "sclear"
  /\ tokens' = {} /\ firstErr' = FALSE
  /\ Return(t, "ok")
  /\ NoHistory /\ UNCHANGED <<w, closed, uploads, uploaded, committed, revision, isNew, active>>

-----------------------------------------------------------------------------
CallStep(t) ==
  /\ \/ CloseFlush(t) \/ Wait(t) \/ Decide(t) \/ CopyTokens(t) \/ UpdateRevision(t)
     \/ FlushDone(t) \/ CreateRevision(t) \/ SyncReset(t) \/ SyncClear(t)
  /\ UNCHANGED load
Upload == (\E u \in uploads : UploadOK(u) \/ UploadFails(u)) /\ UNCHANGED load
Call(t) ==
  /\ \/ \E n \in 1..MaxSize : Write(t, n) \/ \E off \in 0..MaxSize : WriteAt(t, off, n)
     \/ \E size \in 0..MaxSize : Truncate(t, size)
     \/ Flush(t) \/ Close(t) \/ Sync(t)
  /\ UNCHANGED load

FdNext == Upload \/ \E t \in Thread : CallStep(t) \/ Call(t)

(* A call that was made goes on, and an upload ends: flushBlock gives it   *)
(* 60 seconds. Nothing forces a thread to make a call.                     *)
FdFairness == WF_fdAll(Upload) /\ \A t \in Thread : WF_fdAll(CallStep(t))
FdSpec == FdInit /\ [][FdNext]_fdAll /\ FdFairness

-----------------------------------------------------------------------------
(* Properties.                                                             *)

(* What a sequential writer does: it writes front to back, and flushes,    *)
(* syncs (a file that existed) and closes one call at a time.              *)
Orderly == Usage \subseteq {"sync"}

(* A Flush, Sync or Close of an orderly writer that returned without       *)
(* error, with no write since it began, left exactly the bytes written so  *)
(* far as the active revision; an overwrite in which nothing was written   *)
(* left the old one.                                                       *)
Expected == IF touched THEN Active(Blocks(written)) ELSE Old
DurableAfter(t) ==
  place[t] = "idle" /\ result[t] = "ok" /\ goal[t] = written => active = Expected
Durable == Orderly => \A t \in Thread : DurableAfter(t)

(* "Repeat Flush/Close calls after the first commit are no-ops" (fd.go:    *)
(* 555): the same of a writer that also syncs a new file.                  *)
DurableAfterSync ==
  Usage \subseteq {"sync", "newsync"} => \A t \in Thread : DurableAfter(t)

(* A Flush, Sync or Close of an orderly writer reports an error only when  *)
(* a request has failed: the blocks that were handed over are always the   *)
(* indices 0 .. n-1 that commitRevision asks for.                          *)
ErrorsAreReal == Orderly => \A t \in Thread : result[t] = "err" => faulty

(* Once Close has waited, nothing is buffered or in flight, whatever the   *)
(* other callers were doing, and nothing can be any more: no upload        *)
(* outlives the handle.                                                    *)
CloseDrains ==
  closed /\ (\A t \in Thread : place[t] \notin {"close", "fwait", "swait"})
    => uploads = {} /\ w.cur = <<>>

(* A call of Flush, Sync or Close returns.                                 *)
CallsReturn == \A t \in Thread : place[t] # "idle" ~> place[t] = "idle"
=============================================================================
