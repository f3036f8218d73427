----------------------------- MODULE MountProofs -----------------------------
(***************************************************************************)
(* Proofs about Mount for any shares, names, users, open files and bounds. *)
(***************************************************************************)
EXTENDS Mount, TLAPS

(* A writer that was not robbed holds the draft; there is none when the    *)
(* name is not that of a file, so a new file takes the draft of nobody.    *)
NoWriterWithoutFile ==
  thing \notin {"draft", "file"} =>
    \A h \in Handle : handle[h].kind = "write" => handle[h].robbed
IInv == TypeOK /\ WritersKeepTheirDraft /\ NoWriterWithoutFile

-----------------------------------------------------------------------------
LEMMA Bounds == {MaxRenames, MaxResyncs, MaxFaults, MaxCrashes, MaxWrites} \subseteq Nat
BY MountAssumption

LEMMA Initial == Init => IInv
<1> SUFFICES ASSUME Init PROVE IInv
  OBVIOUS
<1>1. title \in [Share -> Title]
  BY TitleAssumption DEF Init
<1>2. NewHandle \in HandleState /\ NewHandle.kind = "free"
  BY Bounds DEF NewHandle, HandleState, Mode
<1>3. TypeOK
  BY <1>1, <1>2, Bounds, MountAssumption DEF Init, TypeOK, Idle, Nothing, Mode, Phase
<1> QED BY <1>2, <1>3 DEF IInv, Init, WritersKeepTheirDraft, NoWriterWithoutFile

(* What a bound allows.                                                    *)
LEMMA Spending ==
  ASSUME TypeOK, used' = used \/ Fault \/ DaemonFault
           \/ Spend("renames", MaxRenames) \/ Spend("resyncs", MaxResyncs)
           \/ Spend("crashes", MaxCrashes) \/ Spend("writes", MaxWrites)
  PROVE  used' \in [renames : 0..MaxRenames, resyncs : 0..MaxResyncs, faults : 0..MaxFaults,
                    crashes : 0..MaxCrashes, writes : 0..MaxWrites]
BY Bounds DEF TypeOK, Fault, DaemonFault, Spend

(* A request that was let through has an answer.                           *)
LEMMA Answering ==
  ASSUME TypeOK, NEW n, NEW op, NEW ok \in BOOLEAN, Asked(n, op, ok)
  PROVE  answer' \in [user : User, ok : BOOLEAN]
BY DEF Asked, Reply

LEMMA Fresh == NewHandle \in HandleState /\ Idle.pc = "idle"
         /\ Idle \in [pc : {"idle", "read", "write", "stat"}, mode : Mode, content : 0..MaxWrites]
BY Bounds DEF NewHandle, HandleState, Mode, Idle

-----------------------------------------------------------------------------
(* Steps of the daemon, of its share map and at the root leave the files   *)
(* alone, or take all of what the process held.                            *)
FilesTypes ==
  /\ thing \in {"none", "draft", "file", "dir", "link"}
  /\ file \in [content : 0..MaxWrites, mode : Mode]
  /\ draft \in Handle \cup {None, "chmod", "stale"} /\ node \in Mode \cup {None}
  /\ handle \in [Handle -> HandleState]
  /\ chm \in [pc : {"idle", "read", "write", "stat"}, mode : Mode, content : 0..MaxWrites]
DaemonTypes ==
  /\ scene \in Scenes /\ phase \in Phase /\ mnt \in {"none", "live", "dead"}
  /\ title \in [Share -> Title] /\ map \in [Share -> Title \cup {None}]
  /\ ref \in [pc : {"off", "wait", "list", "get"}, todo : SUBSET Share,
              got : [Share -> Title \cup {None}]]
  /\ answer \in [user : User, ok : BOOLEAN]

LEMMA GoneStep ==
  ASSUME IInv, Gone
  PROVE  FilesTypes' /\ WritersKeepTheirDraft' /\ NoWriterWithoutFile'
BY Fresh DEF IInv, TypeOK, Gone, FilesTypes, WritersKeepTheirDraft, NoWriterWithoutFile, NewHandle

LEMMA StillStep ==
  ASSUME IInv, UNCHANGED files
  PROVE  FilesTypes' /\ WritersKeepTheirDraft' /\ NoWriterWithoutFile'
BY DEF IInv, TypeOK, files, FilesTypes, WritersKeepTheirDraft, NoWriterWithoutFile

LEMMA LifecycleStep ==
  ASSUME IInv, Lifecycle
  PROVE  DaemonTypes' /\ (UNCHANGED used \/ DaemonFault \/ Spend("crashes", MaxCrashes))
         /\ (Gone \/ UNCHANGED files)
<1> USE DEF IInv, TypeOK, DaemonTypes, Phase, shares, Exit
<1>1. CASE Start \/ Restart
  BY <1>1 DEF Start, Restart, StartAt, Nothing
<1>2. CASE StartFails
  BY <1>2 DEF StartFails
<1>3. CASE MountFS
  <2>1. CleanStaleMount(mnt) \in {"none", "live", "dead"}
    BY DEF CleanStaleMount
  <2> HIDE DEF TypeOK, IInv
  <2>2. /\ UNCHANGED <<scene, shares, files, answer>> /\ mnt' \in {"none", "live", "dead"}
        /\ phase' \in {"serving", "failed"} /\ (UNCHANGED used \/ DaemonFault)
        /\ ref' \in {[ref EXCEPT !.pc = "wait"], [ref EXCEPT !.pc = "off"]}
    <3>1. mnt \in {"none", "live", "dead"}
      BY DEF IInv, TypeOK
    <3> HIDE DEF CleanStaleMount
    <3> QED BY <1>3, <2>1, <3>1 DEF MountFS
  <2> QED BY <2>2 DEF IInv, TypeOK
<1>4. CASE Signal
  BY <1>4 DEF Signal
<1>5. CASE LoopsStop
  BY <1>5 DEF LoopsStop
<1>6. CASE Unmount
  BY <1>6 DEF Unmount
<1>7. CASE Crash
  BY <1>7 DEF Crash
<1> QED BY <1>1, <1>2, <1>3, <1>4, <1>5, <1>6, <1>7 DEF Lifecycle

(* One share's title fetched by the refresh, or not.                       *)
RefreshRec ==
  [pc : {"off", "wait", "list", "get"}, todo : SUBSET Share, got : [Share -> Title \cup {None}]]
LEMMA Fetched ==
  ASSUME NEW r \in RefreshRec, NEW s \in Share, NEW t \in Title
  PROVE  /\ [r EXCEPT !.todo = @ \ {s}, !.got[s] = t] \in RefreshRec
         /\ [r EXCEPT !.todo = @ \ {s}] \in RefreshRec
BY DEF RefreshRec

(* A share map is filled with names the server gave.                       *)
LEMMA RefreshStep ==
  ASSUME IInv, Refresh \/ InvalidateAll \/ RemoteRename
  PROVE  DaemonTypes' /\ UNCHANGED files
         /\ (UNCHANGED used \/ DaemonFault \/ Spend("resyncs", MaxResyncs)
               \/ Spend("renames", MaxRenames))
<1> USE DEF IInv, TypeOK, DaemonTypes, Phase, shares, RefVars, Exit
<1>1. CASE Tick
  BY <1>1 DEF Tick
<1>2. CASE ListShares
  BY <1>2 DEF ListShares, Nothing
<1>3. CASE GetShare
  <2>1. PICK s \in ref.todo :
          \/ ref' = [ref EXCEPT !.todo = @ \ {s}, !.got[s] = title[s]] /\ UNCHANGED used
          \/ ref' = [ref EXCEPT !.todo = @ \ {s}] /\ (UNCHANGED used \/ DaemonFault)
    BY <1>3 DEF GetShare
  <2>2. s \in Share /\ title[s] \in Title /\ ref \in RefreshRec
    BY DEF RefreshRec
  <2>3. ref' \in {[ref EXCEPT !.todo = @ \ {s}, !.got[s] = title[s]], [ref EXCEPT !.todo = @ \ {s}]}
    BY <2>1
  <2>4. ref' \in RefreshRec
    <3> HIDE DEF IInv, TypeOK, DaemonTypes
    <3>1. [ref EXCEPT !.todo = @ \ {s}, !.got[s] = title[s]] \in RefreshRec
      BY <2>2, Fetched
    <3>2. [ref EXCEPT !.todo = @ \ {s}] \in RefreshRec
      BY <2>2, Fetched
    <3> QED BY <2>3, <3>1, <3>2
  <2> QED BY <1>3, <2>1, <2>4 DEF GetShare, RefreshRec
<1>4. CASE SwapShares
  BY <1>4 DEF SwapShares, Loaded
<1>5. CASE InvalidateAll
  BY <1>5 DEF InvalidateAll, Nothing
<1>6. CASE RemoteRename
  <2>1. title' \in [Share -> Title]
    BY <1>6, MountAssumption DEF RemoteRename, FreeTitle
  <2> QED BY <1>6, <2>1 DEF RemoteRename
<1> QED BY <1>1, <1>2, <1>3, <1>4, <1>5, <1>6 DEF Refresh

LEMMA RootStep ==
  ASSUME IInv, RootRequest
  PROVE  DaemonTypes' /\ UNCHANGED files /\ (UNCHANGED used \/ Spend("renames", MaxRenames))
<1> USE DEF IInv, TypeOK, DaemonTypes, shares, Rest
<1>1. CASE Getattr \/ Statfs \/ Readdir \/ Opendir
  <2>1. PICK op : Inspect(op)
    BY <1>1 DEF Getattr, Statfs, Readdir, Opendir
  <2>2. answer' \in [user : User, ok : BOOLEAN]
    BY <2>1 DEF Inspect, Inspectors, Reply
  <2> QED BY <2>1, <2>2 DEF Inspect
<1>2. CASE LookupShare
  BY <1>2 DEF LookupShare, Reply
<1>3. CASE LookupID
  BY <1>3, Answering DEF LookupID
<1>4. CASE RenameFails
  BY <1>4, Answering DEF RenameFails
<1>5. CASE RenameShare
  <2>1. answer' \in [user : User, ok : BOOLEAN]
    BY <1>5, Answering DEF RenameShare
  <2>2. title' \in [Share -> Title]
    BY <1>5, MountAssumption DEF RenameShare, FreeTitle
  <2> QED BY <1>5, <2>1, <2>2 DEF RenameShare, Nothing
<1>6. CASE Refused
  BY <1>6 DEF Refused, Refusals
<1> QED BY <1>1, <1>2, <1>3, <1>4, <1>5, <1>6 DEF RootRequest

-----------------------------------------------------------------------------
(* What a request for a file or a directory leaves alone.                  *)
Request == DirRequest \/ FileRequest
LEMMA RequestTypes ==
  ASSUME IInv, Request
  PROVE  DaemonTypes' /\ (UNCHANGED used \/ Fault \/ Spend("writes", MaxWrites))
<1> USE DEF IInv, TypeOK, DaemonTypes, shares, Rest, DirRest, FileRest
<1>1. CASE DirRequest
  <2> USE DEF Failed, Dir
  <2>1. CASE Lookup
    BY <2>1, Answering DEF Lookup
  <2>2. CASE Create
    BY <2>2, Answering DEF Create, CreateFD, CreateCut
  <2>3. CASE Mkdir \/ Symlink
    BY <2>3, Answering DEF Mkdir, Symlink, Make
  <2>4. CASE Unlink \/ Rmdir \/ Rename
    BY <2>4, Answering DEF Unlink, Rmdir, Rename
  <2>5. CASE Forget
    BY <2>5 DEF Forget
  <2> QED BY <1>1, <2>1, <2>2, <2>3, <2>4, <2>5 DEF DirRequest
<1>2. CASE FileRequest
  <2> USE DEF File, Open
  <2>1. CASE OpenWrite \/ OpenRead \/ OpenFails
    BY <2>1, Answering DEF OpenWrite, OpenRead, OpenFails
  <2>2. CASE Read \/ Readlink
    BY <2>2, Answering DEF Read, Readlink
  <2>3. CASE Write
    BY <2>3, Answering DEF Write
  <2>4. CASE SetModeStaged \/ SetattrOther \/ Fsync
    BY <2>4, Answering DEF SetModeStaged, SetattrOther, Fsync
  <2>5. CASE ChmodRead \/ ChmodOpen \/ ChmodCommit \/ ChmodRefresh
    BY <2>5, Answering DEF ChmodRead, ChmodOpen, ChmodCommit, ChmodRefresh
  <2>6. CASE Flush
    BY <2>6, Answering DEF Flush
  <2>7. CASE Release
    BY <2>7 DEF Release
  <2> QED BY <1>2, <2>1, <2>2, <2>3, <2>4, <2>5, <2>6, <2>7 DEF FileRequest
<1> QED BY <1>1, <1>2 DEF Request

-----------------------------------------------------------------------------
(* The files. A descriptor's draft is taken by another open, by a chmod or *)
(* with the file itself, and each of these marks the writer.               *)
Kept == WritersKeepTheirDraft /\ NoWriterWithoutFile
LEMMA RobbedType ==
  ASSUME IInv, NEW by
  PROVE  /\ Robbed(by) \in [Handle -> HandleState]
         /\ \A h \in Handle : Robbed(by)[h].kind = handle[h].kind
         /\ \A h \in Handle : h # by /\ handle[h].kind = "write" => Robbed(by)[h].robbed
<1>1. \A h \in Handle : handle[h] \in HandleState
  BY DEF IInv, TypeOK
<1>2. \A h \in Handle : [handle[h] EXCEPT !.robbed = TRUE] \in HandleState
  BY <1>1 DEF HandleState
<1>3. Robbed(by) \in [Handle -> HandleState]
  BY <1>1, <1>2 DEF Robbed
<1>4. \A h \in Handle : Robbed(by)[h].kind = handle[h].kind
  BY <1>1 DEF Robbed, HandleState
<1>5. ASSUME NEW h \in Handle, h # by, handle[h].kind = "write"
      PROVE  Robbed(by)[h].robbed
  <2>1. CASE draft = h
    BY <1>1, <1>5, <2>1 DEF Robbed, HandleState
  <2>2. CASE draft # h
    <3>1. handle[h].robbed
      BY <1>5, <2>2 DEF IInv, WritersKeepTheirDraft
    <3> QED BY <2>2, <3>1 DEF Robbed
  <2> QED BY <2>1, <2>2
<1> QED BY <1>3, <1>4, <1>5

LEMMA SetType ==
  ASSUME IInv, NEW h \in Handle, NEW r \in HandleState, Set(h, r)
  PROVE  /\ handle' \in [Handle -> HandleState] /\ handle'[h] = r
         /\ \A k \in Handle \ {h} : handle'[k] = handle[k]
BY DEF IInv, TypeOK, Set

LEMMA DirStep ==
  ASSUME IInv, DirRequest
  PROVE  FilesTypes' /\ Kept'
<1> USE Bounds DEF IInv, TypeOK, FilesTypes, Kept, WritersKeepTheirDraft, NoWriterWithoutFile, Mode
<1>1. CASE UNCHANGED files
  BY <1>1, StillStep DEF files
<1>2. CASE Lookup
  BY <1>2 DEF Lookup
<1>3. CASE Create
  <2>1. CASE thing # "none"
    BY <1>1, <2>1, <1>3 DEF Create, Failed
  <2>2. CASE thing = "none"
    <3>1. /\ thing' = "draft" /\ file' = [content |-> 0, mode |-> 0] /\ chm' = chm
          /\ (\E h \in Handle : CreateFD(h)) \/ CreateCut
      BY <1>3, <2>2 DEF Create
    <3>2. CASE CreateCut
      BY <2>2, <3>1, <3>2 DEF CreateCut
    <3>3. ASSUME NEW h \in Handle, CreateFD(h)
          PROVE  FilesTypes' /\ Kept'
      <4>1. [NewHandle EXCEPT !.kind = "write", !.due = TRUE] \in HandleState
        BY Fresh DEF HandleState
      <4>2. /\ handle' \in [Handle -> HandleState] /\ draft' = h /\ node' = 0
            /\ \A k \in Handle \ {h} : handle'[k] = handle[k]
        BY <3>3, <4>1, SetType DEF CreateFD
      <4> QED BY <2>2, <3>1, <4>2
    <3> QED BY <3>1, <3>2, <3>3
  <2> QED BY <2>1, <2>2
<1>4. CASE Mkdir \/ Symlink
  <2>1. ASSUME NEW op, NEW what \in {"dir", "link"}, Make(op, what)
        PROVE  FilesTypes' /\ Kept'
    <3>1. CASE thing # "none"
      BY <1>1, <2>1, <3>1 DEF Make, Failed
    <3>2. CASE thing = "none"
      <4>1. /\ thing' = what /\ file' = [content |-> 0, mode |-> 0] /\ node' \in {0, None}
            /\ UNCHANGED <<draft, handle, chm>>
        BY <2>1, <3>2 DEF Make
      <4> QED BY <3>2, <4>1
    <3> QED BY <3>1, <3>2
  <2> QED BY <1>1, <1>4, <2>1 DEF Mkdir, Symlink, Failed
<1>5. ASSUME Trashed
      PROVE  FilesTypes' /\ Kept'
  <2>1. \A h \in Handle : [handle[h] EXCEPT !.robbed = handle[h].kind = "write"] \in HandleState
    <3> SUFFICES ASSUME NEW h \in Handle
                 PROVE  [handle[h] EXCEPT !.robbed = handle[h].kind = "write"] \in HandleState
      OBVIOUS
    <3>1. handle[h] \in HandleState
      OBVIOUS
    <3>2. CASE handle[h].kind = "write"
      <4>1. [handle[h] EXCEPT !.robbed = handle[h].kind = "write"] = [handle[h] EXCEPT !.robbed = TRUE]
        BY <3>2
      <4> QED BY <3>1, <4>1 DEF HandleState
    <3>3. CASE handle[h].kind # "write"
      <4>1. [handle[h] EXCEPT !.robbed = handle[h].kind = "write"] = [handle[h] EXCEPT !.robbed = FALSE]
        BY <3>3
      <4> QED BY <3>1, <4>1 DEF HandleState
    <3> QED BY <3>2, <3>3
  <2>2. handle' \in [Handle -> HandleState]
    BY <1>5, <2>1 DEF Trashed
  <2>3. ASSUME NEW h \in Handle, handle'[h].kind = "write" PROVE handle'[h].robbed
    <3>1. /\ handle[h] \in HandleState
          /\ handle'[h] = [handle[h] EXCEPT !.robbed = handle[h].kind = "write"]
      BY <1>5 DEF Trashed
    <3>2. handle'[h].kind = handle[h].kind /\ handle'[h].robbed = (handle[h].kind = "write")
      BY <3>1 DEF HandleState
    <3> QED BY <2>3, <3>2
  <2>4. /\ thing' = "none" /\ file' = [content |-> 0, mode |-> 0] /\ draft' = None
        /\ node' = None /\ chm' = chm
    BY <1>5 DEF Trashed
  <2> QED BY <2>2, <2>3, <2>4
<1>6. CASE Unlink \/ Rmdir \/ Rename
  BY <1>1, <1>5, <1>6 DEF Unlink, Rmdir, Rename, Failed
<1>7. CASE Forget
  BY <1>7 DEF Forget
<1> QED BY <1>2, <1>3, <1>4, <1>6, <1>7 DEF DirRequest

(* A commit ends the writing of the descriptor that holds the draft.       *)
LEMMA CommitStep ==
  ASSUME IInv, NEW h \in Handle, Commit(h), UNCHANGED <<node, chm>>,
         NEW r \in HandleState, r.kind # "write", Set(h, r)
  PROVE  FilesTypes' /\ Kept'
<1>1. handle[h] \in HandleState
  BY DEF IInv, TypeOK
<1>2. Committed(h) \in [content : 0..MaxWrites, mode : Mode]
  BY <1>1 DEF Committed, HandleState, NewMode, Mode
<1>3. /\ handle' \in [Handle -> HandleState] /\ handle'[h] = r
      /\ \A k \in Handle \ {h} : handle'[k] = handle[k]
  BY SetType
<1>4. \A k \in Handle : handle'[k].kind = "write" => handle'[k].robbed
  BY <1>3 DEF Commit, IInv, WritersKeepTheirDraft
<1> QED BY <1>2, <1>3, <1>4 DEF Commit, IInv, TypeOK, FilesTypes, Kept, WritersKeepTheirDraft,
              NoWriterWithoutFile

LEMMA FileStep ==
  ASSUME IInv, FileRequest
  PROVE  FilesTypes' /\ Kept'
<1>k. /\ FilesTypes /\ Kept /\ \A h \in Handle : handle[h] \in HandleState
  BY DEF IInv, TypeOK, FilesTypes, Kept
<1> USE DEF FilesTypes, Kept, WritersKeepTheirDraft, NoWriterWithoutFile
<1>1. CASE OpenWrite
  <2>1. PICK h \in Handle :
          /\ Free(h) /\ thing = "file" /\ draft' = h
          /\ handle' = [Robbed(h) EXCEPT ![h] = [NewHandle EXCEPT !.kind = "write", !.prior = file.mode]]
          /\ UNCHANGED <<FileRest, file, chm>>
    BY <1>1 DEF OpenWrite
  <2>2. [NewHandle EXCEPT !.kind = "write", !.prior = file.mode] \in HandleState
    BY <1>k, Fresh DEF HandleState
  <2>3. /\ handle' \in [Handle -> HandleState]
        /\ \A k \in Handle \ {h} : handle'[k].kind = "write" => handle'[k].robbed
    BY <2>1, <2>2, RobbedType
  <2> QED BY <1>k, <2>1, <2>3 DEF FileRest
<1>2. CASE OpenRead
  <2>1. PICK h \in Handle :
          /\ Free(h) /\ Set(h, [NewHandle EXCEPT !.kind = "read"])
          /\ UNCHANGED <<FileRest, file, draft, chm>>
    BY <1>2 DEF OpenRead
  <2>2. /\ [NewHandle EXCEPT !.kind = "read"] \in HandleState
        /\ [NewHandle EXCEPT !.kind = "read"].kind = "read"
    BY Fresh DEF HandleState
  <2>3. /\ handle' \in [Handle -> HandleState] /\ handle'[h].kind = "read"
        /\ \A k \in Handle \ {h} : handle'[k] = handle[k]
    BY <2>1, <2>2, SetType
  <2> QED BY <1>k, <2>1, <2>3 DEF FileRest
<1>3. ASSUME UNCHANGED <<FileRest, file, chm>>, draft' \in {"stale", "chmod"},
             NEW by \in {None, "chmod"}, handle' = Robbed(by)
      PROVE  FilesTypes' /\ Kept'
  <2>1. by \notin Handle
    BY MountAssumption
  <2>2. /\ handle' \in [Handle -> HandleState]
        /\ \A k \in Handle : handle'[k].kind = "write" => handle'[k].robbed
    BY <1>3, <2>1, RobbedType
  <2> QED BY <1>k, <1>3, <2>2 DEF FileRest
<1>4. CASE OpenFails
  BY <1>3, <1>4, StillStep DEF OpenFails, FileRest, files
<1>5. CASE Read \/ Readlink \/ SetattrOther \/ Fsync
  BY <1>5, StillStep DEF Read, Readlink, SetattrOther, Fsync, FileRest, files
<1>6. CASE Write
  <2>1. PICK h \in Handle :
          /\ UNCHANGED <<FileRest, file, draft, chm>>
          /\ UNCHANGED handle \/
               (/\ handle[h].kind = "write" /\ Spend("writes", MaxWrites)
                /\ Set(h, [handle[h] EXCEPT !.val = used.writes + 1, !.due = TRUE]))
    BY <1>6 DEF Write
  <2>2. CASE UNCHANGED handle
    BY <2>1, <2>2, StillStep DEF FileRest, files
  <2>3. CASE ~UNCHANGED handle
    <3>1. used.writes + 1 \in 0..MaxWrites
      BY <2>1, <2>3, Bounds DEF Spend, IInv, TypeOK
    <3>2. [handle[h] EXCEPT !.val = used.writes + 1, !.due = TRUE] \in HandleState
      <4>1. handle[h] \in HandleState
        BY <1>k
      <4> QED BY <3>1, <4>1 DEF HandleState
    <3>3. /\ [handle[h] EXCEPT !.val = used.writes + 1, !.due = TRUE].kind = handle[h].kind
          /\ [handle[h] EXCEPT !.val = used.writes + 1, !.due = TRUE].robbed = handle[h].robbed
      <4>1. handle[h] \in HandleState
        BY <1>k
      <4> QED BY <4>1 DEF HandleState
    <3>4. /\ handle' \in [Handle -> HandleState]
          /\ \A k \in Handle : handle'[k].kind = handle[k].kind /\ handle'[k].robbed = handle[k].robbed
      BY <2>1, <2>3, <3>2, <3>3, SetType
    <3> QED BY <1>k, <2>1, <3>4 DEF FileRest
  <2> QED BY <2>2, <2>3
<1>7. CASE SetModeStaged
  <2>1. PICK h \in Handle, m \in Mode : Staged(h, m)
    BY <1>7 DEF SetModeStaged
  <2>2. [handle[h] EXCEPT !.mode = m] \in HandleState
    BY <1>k DEF HandleState
  <2>3. /\ [handle[h] EXCEPT !.mode = m].kind = handle[h].kind
        /\ [handle[h] EXCEPT !.mode = m].robbed = handle[h].robbed
    BY <1>k DEF HandleState
  <2>4. /\ handle' \in [Handle -> HandleState]
        /\ \A k \in Handle : handle'[k].kind = handle[k].kind /\ handle'[k].robbed = handle[k].robbed
    BY <2>1, <2>2, <2>3, SetType DEF Staged
  <2> QED BY <1>k, <1>7, <2>1, <2>4 DEF SetModeStaged, Staged, FileRest
<1>8. CASE ChmodRead
  BY <1>k, <1>8 DEF ChmodRead, FileRest
<1>9. CASE ChmodOpen
  <2>1. chm' \in [pc : {"idle", "read", "write", "stat"}, mode : Mode, content : 0..MaxWrites]
    BY <1>k, <1>9 DEF ChmodOpen
  <2>2. /\ handle' \in [Handle -> HandleState]
        /\ \A k \in Handle : handle'[k].kind = "write" => handle'[k].robbed
    BY <1>9, MountAssumption, RobbedType DEF ChmodOpen
  <2> QED BY <1>k, <1>9, <2>1, <2>2 DEF ChmodOpen, FileRest
<1>10. CASE ChmodCommit
  <2>1. chm' \in [pc : {"idle", "read", "write", "stat"}, mode : Mode, content : 0..MaxWrites]
    BY <1>k, <1>10, Fresh DEF ChmodCommit
  <2>2. UNCHANGED <<FileRest, handle>>
    BY <1>10 DEF ChmodCommit
  <2>3. \/ UNCHANGED <<file, draft>>
        \/ draft = "chmod" /\ draft' = None /\ file' \in [content : 0..MaxWrites, mode : Mode]
    <3>1. [content |-> chm.content, mode |-> NewMode(chm.mode, file.mode)]
            \in [content : 0..MaxWrites, mode : Mode]
      BY <1>k DEF NewMode
    <3> QED BY <1>10, <3>1 DEF ChmodCommit
  <2> QED BY <1>k, <2>1, <2>2, <2>3, MountAssumption DEF FileRest
<1>11. CASE ChmodRefresh
  BY <1>k, <1>11, Fresh DEF ChmodRefresh, Rest, shares
<1>12. CASE Flush
  <2>1. PICK h \in Handle :
          \/ Commit(h) /\ Set(h, [handle[h] EXCEPT !.kind = "done", !.due = FALSE])
          \/ Same /\ UNCHANGED handle
    BY <1>12 DEF Flush
  <2>2. UNCHANGED <<node, chm>>
    BY <1>12 DEF Flush
  <2>3. CASE Same /\ UNCHANGED handle
    BY <2>2, <2>3, StillStep DEF Same, files
  <2>4. CASE Commit(h) /\ Set(h, [handle[h] EXCEPT !.kind = "done", !.due = FALSE])
    <3>1. /\ [handle[h] EXCEPT !.kind = "done", !.due = FALSE] \in HandleState
          /\ [handle[h] EXCEPT !.kind = "done", !.due = FALSE].kind = "done"
      BY <1>k DEF HandleState
    <3> QED BY <2>2, <2>4, <3>1, CommitStep
  <2> QED BY <2>1, <2>3, <2>4
<1>13. CASE Release
  <2>1. PICK h \in Handle :
          /\ Set(h, NewHandle)
          /\ \/ Commit(h)
             \/ draft' = (IF draft = h THEN "stale" ELSE draft) /\ UNCHANGED <<thing, file>>
    BY <1>13 DEF Release
  <2>2. UNCHANGED <<node, chm>>
    BY <1>13 DEF Release
  <2>3. NewHandle \in HandleState /\ NewHandle.kind # "write"
    BY Fresh DEF NewHandle
  <2>4. CASE Commit(h)
    BY <2>1, <2>2, <2>3, <2>4, CommitStep
  <2>5. CASE ~Commit(h)
    <3>1. /\ handle' \in [Handle -> HandleState] /\ handle'[h].kind # "write"
          /\ \A k \in Handle \ {h} : handle'[k] = handle[k]
      BY <2>1, <2>3, SetType
    <3> QED BY <1>k, <2>1, <2>2, <2>5, <3>1
  <2> QED BY <2>4, <2>5
<1> QED BY <1>1, <1>2, <1>4, <1>5, <1>6, <1>7, <1>8, <1>9, <1>10, <1>11, <1>12, <1>13 DEF FileRequest

-----------------------------------------------------------------------------
LEMMA Inductive == IInv /\ [Next]_vars => IInv'
<1> SUFFICES ASSUME IInv, [Next]_vars PROVE IInv'
  OBVIOUS
<1>t. ASSUME DaemonTypes', FilesTypes' /\ Kept',
             UNCHANGED used \/ Fault \/ DaemonFault \/ Spend("renames", MaxRenames)
               \/ Spend("resyncs", MaxResyncs) \/ Spend("crashes", MaxCrashes)
               \/ Spend("writes", MaxWrites)
      PROVE  IInv'
  <2>1. used' \in [renames : 0..MaxRenames, resyncs : 0..MaxResyncs, faults : 0..MaxFaults,
                    crashes : 0..MaxCrashes, writes : 0..MaxWrites]
    BY <1>t, Spending DEF IInv
  <2> QED BY <1>t, <2>1 DEF IInv, TypeOK, DaemonTypes, FilesTypes, Kept
<1>1. CASE Lifecycle
  BY <1>1, <1>t, LifecycleStep, GoneStep, StillStep DEF Kept
<1>2. CASE Refresh \/ InvalidateAll \/ RemoteRename
  BY <1>2, <1>t, RefreshStep, StillStep DEF Kept
<1>3. CASE RootRequest
  BY <1>3, <1>t, RootStep, StillStep DEF Kept
<1>4. CASE DirRequest
  BY <1>4, <1>t, RequestTypes, DirStep DEF Request
<1>5. CASE FileRequest
  BY <1>5, <1>t, RequestTypes, FileStep DEF Request
<1>6. CASE UNCHANGED vars
  BY <1>6 DEF IInv, TypeOK, WritersKeepTheirDraft, NoWriterWithoutFile, vars, files, shares
<1> QED BY <1>1, <1>2, <1>3, <1>4, <1>5, <1>6 DEF Next

LEMMA Invariance == Spec => []IInv
BY Initial, Inductive, PTL DEF Spec

(* Every variable keeps its type, whatever the users, the daemon and the   *)
(* server do.                                                              *)
THEOREM TypeCorrect == Spec => []TypeOK
<1>1. IInv => TypeOK
  BY DEF IInv
<1> QED BY <1>1, Invariance, PTL

(* A descriptor open for writing keeps the draft it will commit until      *)
(* another open, a chmod by path or a removal takes it (nodes.go:891), for *)
(* any number of descriptors.                                              *)
THEOREM DraftsKept == Spec => []WritersKeepTheirDraft
<1>1. IInv => WritersKeepTheirDraft
  BY DEF IInv
<1> QED BY <1>1, Invariance, PTL
=============================================================================
