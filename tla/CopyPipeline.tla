------------------------------ MODULE CopyPipeline ------------------------------
(***************************************************************************)
(* api/drive/pipeline.go: the copy jobs of one "drive cp", the tasks of    *)
(* the session's pool (api/semaphore.go, api/throttle.go) that copy their  *)
(* blocks, the local and Proton ends of a job (local.go,                   *)
(* proton_endpoint.go) and the commit that Close makes.                    *)
(*                                                                         *)
(* A task is one goroutine of the pool; its steps are the points at which  *)
(* it touches what the others see. A block is its index; what a job has    *)
(* stored at its destination is a set of indices.                          *)
(***************************************************************************)
EXTENDS Naturals, FiniteSets

CONSTANTS
  Worker,     \* the pool's slots: RunPipeline submits one task for each
  NJobs,      \* jobs of the command
  MaxBlocks,  \* bound: blocks of a file
  MaxFaults,  \* bound: calls that fail
  MayFail     \* which calls may: "open", "read", "write", "close", "commit"; "short":
              \* a local source shrinks; "end": the pool's context ends

ASSUME WorkerAssumption == IsFiniteSet(Worker) /\ Worker # {}
ASSUME BoundAssumption == {NJobs, MaxBlocks, MaxFaults} \subseteq Nat
ASSUME FlagAssumption ==
  MayFail \subseteq {"open", "read", "short", "write", "close", "commit", "end"}

Job == 1..NJobs
Index == 0..(MaxBlocks - 1)
Source == {"local", "proton"}
Target == {"local", "new file", "new revision"}

VARIABLES
  blocks,    \* Src.BlockCount(), fixed when the job is built
  source,    \* where the job reads
  target,    \* where it writes: a file created empty, or the draft of a new Proton
             \* file or of a new revision of one
  next,      \* blockMap.next
  pc, at,    \* per task: where it is, and the block it has claimed
  clones,    \* per task: jobs whose ends it has opened
  stored,    \* the blocks written (local) or uploaded (ProtonWriter.uploaded)
  done,      \* jobDoneCount
  announced, \* jobs passed to opts.Verbose
  errs,      \* what errs are about: blocks, or with idx = MaxBlocks a Close
  main,      \* RunPipeline: 0 in wg.Wait(), then the job it closes, then NJobs + 1
  active,    \* per job: number of blocks of the active revision, or Old, or None
  ended,     \* the pool's context is done
  damaged,   \* history: jobs of which a block was read short, or a clone of the local
             \* writer failed to close
  faults     \* history: calls that failed

jobVars == <<blocks, source, target>>
vars == <<jobVars, next, pc, at, clones, stored, done, announced, errs, main, active, ended,
          damaged, faults>>

Old == MaxBlocks + 1   \* the revision from before the copy
None == MaxBlocks + 2  \* no active revision: the link is a draft

PC == {"submitted", "throttled", "loop", "open", "read", "write", "count", "exit"}
Claimed == [job : Job, idx : Index]
Idle == [job |-> 0, idx |-> 0]

TypeOK ==
  /\ blocks \in [Job -> 0..MaxBlocks]
  /\ source \in [Job -> Source] /\ target \in [Job -> Target]
  /\ next \in [Job -> 0..MaxBlocks]
  /\ pc \in [Worker -> PC] /\ at \in [Worker -> Claimed \cup {Idle}]
  /\ clones \in [Worker -> SUBSET Job]
  /\ stored \in [Job -> SUBSET Index] /\ done \in [Job -> 0..MaxBlocks]
  /\ announced \subseteq Job
  /\ errs \subseteq [job : Job, idx : 0..MaxBlocks]
  /\ main \in 0..(NJobs + 1)
  /\ active \in [Job -> 0..None]
  /\ ended \in BOOLEAN
  /\ damaged \subseteq Job
  /\ faults \in 0..MaxFaults

(* RunPipeline: the block maps, and one submitted task per slot.           *)
Init ==
  /\ blocks \in [Job -> 0..MaxBlocks]
  /\ source \in [Job -> Source] /\ target \in [Job -> Target]
  /\ next = [j \in Job |-> 0]
  /\ pc = [w \in Worker |-> "submitted"] /\ at = [w \in Worker |-> Idle]
  /\ clones = [w \in Worker |-> {}]
  /\ stored = [j \in Job |-> {}] /\ done = [j \in Job |-> 0]
  /\ announced = {} /\ errs = {} /\ main = 0
  /\ active = [j \in Job |-> IF target[j] = "new revision" THEN Old ELSE None]
  /\ ended = FALSE
  /\ damaged = {} /\ faults = 0

Goto(w, l) == pc' = [pc EXCEPT ![w] = l]
Fault(kind) == kind \in MayFail /\ faults < MaxFaults /\ faults' = faults + 1
DropError(e) == UNCHANGED errs
AddErr(e) == errs' = errs \cup {e}

-----------------------------------------------------------------------------
(* The pool. A task reads Throttle.until once, which an answer to any      *)
(* earlier request may have put in the future, and sleeps that long; when  *)
(* the pool's context ends before, Go drops the task without running it.   *)
Start(w) ==
  /\ pc[w] = "submitted"
  /\ Goto(w, "throttled") \/ Goto(w, "loop")
  /\ UNCHANGED <<jobVars, next, at, clones, stored, done, announced, errs, main, active, ended,
                 damaged, faults>>
ReleaseNot(w) == Goto(w, "throttled")
Release(w) == Goto(w, "exit")
Wake(w) ==
  /\ pc[w] = "throttled"
  /\ \/ Goto(w, "loop")
     \/ ended /\ Release(w)
  /\ UNCHANGED <<jobVars, next, at, clones, stored, done, announced, errs, main, active, ended,
                 damaged, faults>>

(* The next block nobody has claimed, in the order of the jobs; claim runs *)
(* under mu. A task that finds none, or the pool's context done, closes    *)
(* its clones and returns.                                                 *)
Unclaimed == {j \in Job : next[j] < blocks[j]}
Advance(j) == next' = [next EXCEPT ![j] = @ + 1]
Claim(w) ==
  /\ pc[w] = "loop" /\ ~ended
  /\ \E j \in Unclaimed :
       /\ \A k \in Unclaimed : j <= k
       /\ at' = [at EXCEPT ![w] = [job |-> j, idx |-> next[j]]]
       /\ Advance(j)
  /\ Goto(w, "open")
  /\ UNCHANGED <<jobVars, clones, stored, done, announced, errs, main, active, ended,
                 damaged, faults>>

(* Nobody sees the error of a clone that does not close, which for a local *)
(* file is where a write that was put off fails.                           *)
Closes(w) ==
  \/ UNCHANGED <<damaged, faults>>
  \/ /\ Fault("close")
     /\ \E T \in SUBSET {j \in clones[w] : target[j] = "local"} :
          T # {} /\ damaged' = damaged \cup T
Exit(w) ==
  /\ pc[w] = "loop" /\ (ended \/ Unclaimed = {})
  /\ Closes(w)
  /\ Release(w) /\ clones' = [clones EXCEPT ![w] = {}]
  /\ UNCHANGED <<jobVars, next, at, stored, done, announced, errs, main, active, ended>>

-----------------------------------------------------------------------------
(* One block. An error is recorded and the task goes on with another one:  *)
(* nobody tries the block again.                                           *)
LoseBlock(w) ==
  /\ AddErr(at[w])
  /\ Goto(w, "loop") /\ at' = [at EXCEPT ![w] = Idle]
  /\ UNCHANGED <<jobVars, next, clones, stored, done, announced, main, active, ended, damaged>>

(* CloneReader and CloneWriter, on the task's first block of a job: it     *)
(* opens the local ends for itself, and shares the Proton ones.            *)
OpenEnds(w) ==
  /\ pc[w] = "open"
  /\ Goto(w, "read") /\ clones' = [clones EXCEPT ![w] = @ \cup {at[w].job}]
  /\ UNCHANGED <<jobVars, next, at, stored, done, announced, errs, main, active, ended,
                 damaged, faults>>
OpenFails(w) ==
  /\ pc[w] = "open" /\ at[w].job \notin clones[w]
  /\ "local" \in {source[at[w].job], target[at[w].job]}
  /\ Fault("open") /\ LoseBlock(w)

(* ReadBlock: GetBlock and decryption, or pread of the size the source had *)
(* when the job was built: if it has shrunk, what is left of the block is  *)
(* copied, be it nothing. A request fails once the pool's context is done. *)
Shrunk(w) ==
  /\ source[at[w].job] = "local" /\ Fault("short")
  /\ damaged' = damaged \cup {at[w].job}
ReadBlock(w) ==
  /\ pc[w] = "read"
  /\ UNCHANGED <<damaged, faults>> \/ Shrunk(w)
  /\ Goto(w, "write")
  /\ UNCHANGED <<jobVars, next, at, clones, stored, done, announced, errs, main, active, ended>>
ReadFails(w) ==
  /\ pc[w] = "read"
  /\ \/ Fault("read")
     \/ ended /\ source[at[w].job] = "proton" /\ UNCHANGED faults
  /\ LoseBlock(w)

(* WriteBlock: pwrite at the block's offset, or encryptAndUploadBlock and  *)
(* its token.                                                              *)
Put(j, i) == stored' = [stored EXCEPT ![j] = @ \cup {i}]
WriteBlock(w) ==
  /\ pc[w] = "write"
  /\ Put(at[w].job, at[w].idx)
  /\ Goto(w, "count")
  /\ UNCHANGED <<jobVars, next, at, clones, done, announced, errs, main, active, ended,
                 damaged, faults>>
WriteFails(w) ==
  /\ pc[w] = "write"
  /\ \/ Fault("write")
     \/ ended /\ target[at[w].job] # "local" /\ UNCHANGED faults
  /\ LoseBlock(w)

(* jobDoneCount: the task that counts the last block announces the job.    *)
IsLast(j) == done[j] + 1 = blocks[j]
Count(w) ==
  /\ pc[w] = "count"
  /\ LET j == at[w].job
     IN /\ done' = [done EXCEPT ![j] = @ + 1]
        /\ announced' = IF IsLast(j) THEN announced \cup {j} ELSE announced
  /\ Goto(w, "loop") /\ at' = [at EXCEPT ![w] = Idle]
  /\ UNCHANGED <<jobVars, next, clones, stored, errs, main, active, ended,
                 damaged, faults>>

-----------------------------------------------------------------------------
(* After wg.Wait(), RunPipeline closes the ends of every job, with errors  *)
(* or without. Closing a Proton writer commits the revision, unless not    *)
(* one block was uploaded; it asks for the tokens of 0 .. n-1.             *)
GapsAllowed(S) == TRUE
Contiguous(S) == S = 0..(Cardinality(S) - 1)
Commits(j) == target[j] # "local" /\ stored[j] # {}
AllReturned == \A w \in Worker : pc[w] = "exit"
WaitReturns ==
  /\ main = 0 /\ AllReturned
  /\ main' = 1
  /\ UNCHANGED <<jobVars, next, pc, at, clones, stored, done, announced, errs, active, ended,
                 damaged, faults>>

CloseFailed(j) == AddErr([job |-> j, idx |-> MaxBlocks]) /\ UNCHANGED active
Close(j) ==
  /\ main = j
  /\ \/ ~Commits(j) /\ UNCHANGED <<errs, active, faults>>
     \/ Commits(j) /\ ~Contiguous(stored[j]) /\ CloseFailed(j) /\ UNCHANGED faults
     \/ /\ Commits(j) /\ Contiguous(stored[j])
        /\ active' = [active EXCEPT ![j] = Cardinality(stored[j])]
        /\ UNCHANGED <<errs, faults>>
     \/ Commits(j) /\ Contiguous(stored[j]) /\ Fault("commit") /\ CloseFailed(j)
  /\ main' = j + 1
  /\ UNCHANGED <<jobVars, next, pc, at, clones, stored, done, announced, ended, damaged>>

(* The context given to the pool is cancelled.                             *)
EndPool ==
  /\ main = 0 /\ ~ended /\ "end" \in MayFail
  /\ ended' = TRUE
  /\ UNCHANGED <<jobVars, next, pc, at, clones, stored, done, announced, errs, main, active,
                 damaged, faults>>

Step(w) ==
  \/ Start(w) \/ Wake(w) \/ Claim(w) \/ Exit(w)
  \/ OpenEnds(w) \/ OpenFails(w) \/ ReadBlock(w) \/ ReadFails(w)
  \/ WriteBlock(w) \/ WriteFails(w) \/ Count(w)
Main == WaitReturns \/ \E j \in Job : Close(j)
Returned == main = NJobs + 1 /\ UNCHANGED vars
Next == (\E w \in Worker : Step(w)) \/ Main \/ EndPool \/ Returned

(* Goroutines run, and calls of the file system and of the HTTP client     *)
(* return: the transport bounds the wait for an answer.                    *)
Fairness == WF_vars(Main) /\ \A w \in Worker : WF_vars(Step(w))
Spec == Init /\ [][Next]_vars /\ Fairness

-----------------------------------------------------------------------------
(* Properties.                                                             *)
All(j) == 0..(blocks[j] - 1)
Over == main = NJobs + 1
Success == Over /\ errs = {}

(* No block is worked on by two tasks, or after it was stored: the buffers *)
(* and offsets of the tasks never overlap.                                 *)
BlockHasOneOwner ==
  \A w \in Worker : at[w] # Idle =>
    /\ \A v \in Worker \ {w} : at[v] # at[w]
    /\ pc[w] # "count" => at[w].idx \notin stored[at[w].job]

(* When the tasks have returned, every block of every job was stored or is *)
(* named by an error: a block cannot get lost between the tasks, unless    *)
(* the pool was cancelled (the tasks then return nil, pipeline.go:129).    *)
NoSilentLoss ==
  main > 0 /\ ~ended =>
    \A j \in Job : \A i \in All(j) : i \in stored[j] \/ [job |-> j, idx |-> i] \in errs

(* A copy that reports success wrote every block that it read to its       *)
(* destination, and every Proton file has a new active revision of all of  *)
(* them. Not so for an empty file, whose Close commits nothing, nor when   *)
(* the pool was cancelled. It does not say that the blocks are whole: a    *)
(* source that shrank and a clone that did not close are no errors.        *)
SuccessIsWritten ==
  Success /\ ~ended =>
    \A j \in Job : /\ stored[j] = All(j)
                   /\ target[j] # "local" /\ blocks[j] > 0 => active[j] = blocks[j]

(* The same of what the destination then holds; not so, for those reasons. *)
SuccessIsWhole ==
  Success /\ ~ended =>
    \A j \in Job : stored[j] = All(j) /\ j \notin damaged

(* "'a' -> 'b'" is printed for files whose blocks have all been written.   *)
AnnouncedIsComplete == \A j \in announced : stored[j] = All(j)

(* What a copy publishes is the first blocks of the source, without gaps,  *)
(* and when it is not all of them the command fails.                       *)
PublishedIsPrefix ==
  \A j \in Job : active[j] \notin {Old, None} =>
    /\ stored[j] = 0..(active[j] - 1)
    /\ Over /\ active[j] # blocks[j] => ~Success \/ ended

(* The revision a file had stays active until no task works any more, and  *)
(* is replaced once.                                                       *)
ReplacedOnceAtTheEnd ==
  [][\A j \in Job : active'[j] # active[j] => AllReturned /\ active[j] \in {Old, None}]_vars

(* RunPipeline returns, throttled, cancelled or with errors.               *)
Returns == <>Over
=============================================================================
