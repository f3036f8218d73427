-------------------------------- MODULE Mount --------------------------------
(***************************************************************************)
(* The mount daemon, cmd/proton-fuse/main.go, and the requests the kernel  *)
(* sends to it, internal/fusemount: start-up over a mount a dead daemon    *)
(* left, the map of the shares and the loop that refreshes it, shutdown;   *)
(* the gate at the namespace boundary; and the nodes below a share, as a   *)
(* directory with one name in it.                                          *)
(*                                                                         *)
(* The content of a file is the number of the write that made it, 0 when   *)
(* it is empty; a mode is a number, 0 when no mode is stored. What a       *)
(* directory node remembers of its children is module DirectoryView, what  *)
(* a descriptor does between two requests is FileDescriptor.               *)
(***************************************************************************)
EXTENDS Naturals, FiniteSets

CONSTANTS
  Share,       \* the shares of the account
  Standard,    \* those of type standard, which can be renamed
  Title,       \* their names
  User, Owner, \* the users of the machine, and the one who runs the daemon
  Handle,      \* open files
  None,
  Scenes,      \* what goes on at once, see SceneAssumption
  MaxRenames, MaxResyncs, MaxFaults, MaxCrashes, MaxWrites  \* bounds

ASSUME MountAssumption ==
  /\ Standard \subseteq Share /\ Owner \in User
  /\ None \notin Title \cup Handle \cup {"chmod"} /\ "chmod" \notin Handle
  /\ {MaxRenames, MaxResyncs, MaxFaults, MaxCrashes, MaxWrites} \subseteq Nat
ASSUME TitleAssumption == \E t \in [Share -> Title] : \A r, s \in Share : t[r] = t[s] => r = s
(* "shares": shares are renamed and volumes resynchronised; "life": the    *)
(* daemon is stopped, or dies; "files": files are opened and changed.      *)
ASSUME SceneAssumption == Scenes \subseteq SUBSET {"shares", "life", "files"}

VARIABLES
  scene,    \* what goes on in this behaviour
  phase,    \* where run is
  mnt,      \* the mountpoint: "none", "live", or "dead" when its daemon is gone
  title,    \* server: the name of each share
  map,      \* DriveHandler.shares: the name of each Share it holds, or None
  ref,      \* LoadShares or RefreshShares: [pc, todo, got]
  thing,    \* server: what the name in the directory is
  file,     \* server: [content, mode] of the active revision
  draft,    \* server: who made the draft revision of the file
  node,     \* the mode in the Link of the kernel's FileNode, None without one
  handle,   \* per handle: the descriptor, see NewHandle
  chm,      \* a chmod without a descriptor: [pc, mode, content]
  answer,   \* the last request: [user, ok], who made it and whether it succeeded
  used      \* how much of the bounds is used
files == <<thing, file, draft, node, handle, chm>>
shares == <<title, map>>
vars == <<scene, phase, mnt, shares, ref, files, answer, used>>

Mode == {0, 1}
Phase == {"down", "failed", "load", "mount", "serving", "stopping", "unmount"}
NewHandle == [kind |-> "free", due |-> FALSE, val |-> 0, mode |-> 0, prior |-> 0,
              robbed |-> FALSE]
Idle == [pc |-> "idle", mode |-> 0, content |-> 0]
Nothing == [s \in Share |-> None]

HandleState ==
  [kind : {"free", "read", "write", "done"}, due : BOOLEAN, val : 0..MaxWrites,
   mode : Mode, prior : Mode, robbed : BOOLEAN]
TypeOK ==
  /\ scene \in Scenes /\ phase \in Phase /\ mnt \in {"none", "live", "dead"}
  /\ title \in [Share -> Title] /\ map \in [Share -> Title \cup {None}]
  /\ ref \in [pc : {"off", "wait", "list", "get"}, todo : SUBSET Share,
              got : [Share -> Title \cup {None}]]
  /\ thing \in {"none", "draft", "file", "dir", "link"}
  /\ file \in [content : 0..MaxWrites, mode : Mode]
  /\ draft \in Handle \cup {None, "chmod", "stale"} /\ node \in Mode \cup {None}
  /\ handle \in [Handle -> HandleState]
  /\ chm \in [pc : {"idle", "read", "write", "stat"}, mode : Mode, content : 0..MaxWrites]
  /\ answer \in [user : User, ok : BOOLEAN]
  /\ used \in [renames : 0..MaxRenames, resyncs : 0..MaxResyncs, faults : 0..MaxFaults,
               crashes : 0..MaxCrashes, writes : 0..MaxWrites]

Init ==
  /\ scene \in Scenes
  /\ phase = "down" /\ mnt \in {"none", "dead"}
  /\ title = CHOOSE t \in [Share -> Title] : \A r, s \in Share : t[r] = t[s] => r = s
  /\ map = Nothing /\ ref = [pc |-> "off", todo |-> {}, got |-> Nothing]
  /\ thing \in {"none", "file"} /\ file = [content |-> 0, mode |-> 0]
  /\ draft = None /\ node = None
  /\ handle = [h \in Handle |-> NewHandle] /\ chm = Idle
  /\ answer = [user |-> Owner, ok |-> TRUE]
  /\ used = [renames |-> 0, resyncs |-> 0, faults |-> 0, crashes |-> 0, writes |-> 0]

Spend(what, max) == used[what] < max /\ used' = [used EXCEPT ![what] = @ + 1]
Serving == mnt = "live"
(* In a scene with files it is the requests that fail, unless the daemon   *)
(* is stopped or dies.                                                     *)
Renaming == "shares" \in scene
Stopping == "life" \in scene
InFiles == "files" \in scene
Fault == ~(InFiles /\ Stopping) /\ Spend("faults", MaxFaults)
DaemonFault == ~InFiles /\ Fault

------------------------------------------------------------------------------
(* The life of the daemon: run. *)

(* By hand, or by systemd, which restarts it on failure. *)
StartAt(p) ==
  /\ phase = p /\ phase' = "load"
  /\ ref' = [pc |-> "list", todo |-> {}, got |-> Nothing] /\ map' = Nothing
  /\ UNCHANGED <<scene, mnt, title, files, answer, used>>
Start == StartAt("down")
Restart == StartAt("failed")

(* Every return of an error ends the process with a status of 1. *)
Exit(p) == phase' = p /\ ref' = [ref EXCEPT !.pc = "off"]

StartFails ==
  /\ phase = "load" /\ DaemonFault /\ Exit("failed")
  /\ UNCHANGED <<scene, mnt, shares, files, answer>>

(* The steps of Mount: a stale mount is taken down, the directory is       *)
(* ensured, which a mount nobody serves makes impossible, and the file     *)
(* system is mounted.                                                      *)
NotDetected(m) == FALSE
DetectStaleMount(m) == m # "none"
CleanStaleMount(m) == IF DetectStaleMount(m) THEN "none" ELSE m
EnsureMountDir(m) == m # "dead"
MountFS ==
  /\ phase = "mount"
  /\ LET m == CleanStaleMount(mnt)
     IN \/ /\ EnsureMountDir(m)
           /\ mnt' = "live" /\ phase' = "serving" /\ ref' = [ref EXCEPT !.pc = "wait"]
           /\ UNCHANGED used
        \/ ~EnsureMountDir(m) /\ mnt' = m /\ Exit("failed") /\ UNCHANGED used
        \/ DaemonFault /\ mnt' \in {mnt, m} /\ Exit("failed")
  /\ UNCHANGED <<scene, shares, files, answer>>

(* SIGTERM: the refresh loop is cancelled and waited for, then the event   *)
(* loop; then the file system is unmounted, which fails when it is in use. *)
Signal ==
  /\ Stopping /\ phase = "serving"
  /\ phase' = "stopping"
  /\ UNCHANGED <<scene, mnt, shares, ref, files, answer, used>>

LoopsStop ==
  /\ phase = "stopping" /\ ref.pc \in {"wait", "list"}
  /\ phase' = "unmount" /\ ref' = [ref EXCEPT !.pc = "off"]
  /\ UNCHANGED <<scene, mnt, shares, files, answer, used>>

(* What the process held is gone; a draft it made stays at the server. *)
Gone ==
  /\ handle' = [h \in Handle |-> NewHandle] /\ chm' = Idle /\ node' = None
  /\ draft' = IF draft = None THEN None ELSE "stale"
  /\ UNCHANGED <<thing, file>>

InUse == (\E h \in Handle : handle[h].kind # "free") \/ chm.pc # "idle"
Unmount ==
  /\ phase = "unmount"
  /\ IF InUse THEN mnt' = "dead" /\ Exit("failed")
              ELSE mnt' = "none" /\ Exit("down")
  /\ Gone
  /\ UNCHANGED <<scene, shares, answer, used>>

Crash ==
  /\ Stopping /\ phase \notin {"down", "failed"} /\ Spend("crashes", MaxCrashes)
  /\ mnt' = IF mnt = "live" THEN "dead" ELSE mnt
  /\ Exit("failed") /\ Gone
  /\ UNCHANGED <<scene, shares, answer>>

------------------------------------------------------------------------------
(* The map of the shares: LoadShares at start-up, RefreshShares by the     *)
(* loop, every five minutes, cleared by a rename and by a resync.          *)

Loading == phase = "load"
RefVars == <<scene, mnt, files, answer>>

(* A scene with files has no use for it. *)
Tick ==
  /\ ~InFiles
  /\ ref.pc = "wait" /\ phase = "serving" /\ ref' = [ref EXCEPT !.pc = "list"]
  /\ UNCHANGED <<RefVars, phase, shares, used>>

(* Without the list LoadShares fails, and RefreshShares keeps the map. *)
ListShares ==
  /\ ref.pc = "list"
  /\ \/ ref' = [pc |-> "get", todo |-> Share, got |-> Nothing] /\ UNCHANGED <<phase, used>>
     \/ DaemonFault /\ IF Loading THEN Exit("failed")
                 ELSE ref' = [ref EXCEPT !.pc = "wait"] /\ UNCHANGED phase
  /\ UNCHANGED <<RefVars, shares>>

(* A share that cannot be got, as every one of them once the loop is       *)
(* cancelled, is skipped.                                                  *)
GetShare ==
  /\ ref.pc = "get"
  /\ \E s \in ref.todo :
       \/ /\ ref' = [ref EXCEPT !.todo = @ \ {s}, !.got[s] = title[s]]
          /\ phase # "stopping" /\ UNCHANGED used
       \/ /\ ref' = [ref EXCEPT !.todo = @ \ {s}]
          /\ (phase = "stopping" /\ UNCHANGED used) \/ (phase # "stopping" /\ DaemonFault)
  /\ UNCHANGED <<RefVars, phase, shares>>

(* The map is replaced by what was got. *)
Merged == [s \in Share |-> IF map[s] # None THEN map[s] ELSE ref.got[s]]
Loaded == ref.got
SwapShares ==
  /\ ref.pc = "get" /\ ref.todo = {}
  /\ map' = Loaded
  /\ IF Loading THEN phase' = "mount" /\ ref' = [ref EXCEPT !.pc = "off"]
                ELSE ref' = [ref EXCEPT !.pc = "wait"] /\ UNCHANGED phase
  /\ UNCHANGED <<RefVars, title, used>>

(* The event loop resynchronises a volume: InvalidateAll. *)
InvalidateAll ==
  /\ Renaming /\ phase = "serving" /\ Spend("resyncs", MaxResyncs)
  /\ map' = Nothing
  /\ UNCHANGED <<RefVars, phase, ref, title>>

(* Another client renames a share (external). *)
FreeTitle == {t \in Title : \A s \in Share : title[s] # t}
RemoteRename ==
  /\ Renaming /\ Spend("renames", MaxRenames)
  /\ \E s \in Standard, t \in FreeTitle : title' = [title EXCEPT ![s] = t]
  /\ UNCHANGED <<RefVars, phase, ref, map>>

------------------------------------------------------------------------------
(* The requests. A node is the root of the mount ("top"), the namespace's  *)
(* ("root"), a directory ("dir"), a file or symlink ("file"), or .linkid   *)
(* ("ids"). What it has to do with a request is which interfaces its type  *)
(* implements.                                                             *)

Walk == {"getattr", "lookup", "readdir", "opendir"}
Capable(n) ==
  CASE n = "top" -> {"getattr", "lookup", "readdir", "statfs"}
    [] n = "root" -> Walk \cup {"rename"}
    [] n = "ids" -> Walk
    [] n = "dir" -> Walk \cup {"create", "mkdir", "symlink", "unlink", "rmdir", "rename", "forget"}
    [] n = "file" -> {"getattr", "setattr", "open", "read", "write", "flush", "fsync",
                      "release", "readlink"}

(* Only the user who runs the daemon gets past the namespace's root.       *)
(* Release and Forget come from the kernel itself.                         *)
AnyUser(n, op) ==
  \/ n = "top"
  \/ n = "root" /\ op = "getattr"
  \/ op \in {"release", "forget"}
CheckAccess(u, n, op) == AnyUser(n, op) \/ u = Owner

(* When the type has no such method, the request is answered with a        *)
(* success that does nothing, or refused: with EPERM, EBADF, EINVAL or     *)
(* ENOTDIR, by the request.                                                *)
Lacking(n, op) ==
  \/ op \in {"fsync", "flush", "release", "forget"}
  \/ op = "setattr" /\ n # "root"

Requests == UNION {Capable(n) : n \in {"root", "dir", "file"}}
Reply(u, ok) == answer' = [user |-> u, ok |-> ok]

Node == {"root", "ids", "dir", "file"}
Refusals ==
  {r \in [user : User, ok : BOOLEAN] : \E n \in Node, op \in Requests :
     IF CheckAccess(r.user, n, op) THEN op \notin Capable(n) /\ r.ok = Lacking(n, op)
                                   ELSE ~r.ok}
Refused ==
  /\ Serving
  /\ answer' \in Refusals
  /\ UNCHANGED <<scene, phase, mnt, shares, ref, files, used>>

Asked(n, op, ok) ==
  /\ Serving
  /\ \E u \in User : CheckAccess(u, n, op) /\ Reply(u, ok)
Rest == <<scene, phase, mnt, ref>>

------------------------------------------------------------------------------
(* The top and the root of the namespace. *)

(* Reads. The quota Statfs asks for, at most once a minute, and a failing  *)
(* listing change nothing either.                                          *)
Inspectors(op) ==
  {u \in User : \E n \in Node \cup {"top"} : op \in Capable(n) /\ CheckAccess(u, n, op)}
Inspect(op) ==
  /\ Serving
  /\ \E u \in Inspectors(op) : Reply(u, TRUE)
  /\ UNCHANGED <<Rest, shares, files, used>>
Getattr == Inspect("getattr")
Statfs == Inspect("statfs")
Readdir == Inspect("readdir")
Opendir == Inspect("opendir")

(* A share is looked up in the map by its name. *)
FindShare(name) == {s \in Share : map[s] = name}
LookupShare ==
  /\ Renaming
  /\ Serving
  /\ \E u \in User, s \in Share :
       /\ CheckAccess(u, "root", "lookup")
       /\ Reply(u, FindShare(title[s]) # {})
  /\ UNCHANGED <<Rest, shares, files, used>>

(* Below .linkid only the roots of the shares in the map are found. *)
LookupID ==
  /\ Renaming
  /\ \E s \in Share : Asked("ids", "lookup", map[s] # None)
  /\ UNCHANGED <<Rest, shares, files, used>>

(* DriveHandler.Rename: the server is asked, then the map is cleared. *)
RenameFails ==           \* into a directory, of what is not there, of Home
  /\ Renaming /\ Asked("root", "rename", FALSE)
  /\ UNCHANGED <<Rest, shares, files, used>>
RenameShare ==
  /\ Renaming /\ Spend("renames", MaxRenames)
  /\ \E s \in Standard, t \in FreeTitle :
       map[s] # None /\ title' = [title EXCEPT ![s] = t]
  /\ map' = Nothing
  /\ Asked("root", "rename", TRUE)
  /\ UNCHANGED <<Rest, files>>

------------------------------------------------------------------------------
(* A directory below a share, and the one name in it. What another request *)
(* of the same mount does to the name is seen at once (DirectoryView has   *)
(* the caches); an inode lives until the kernel forgets it.                *)

Dir(op, ok) == InFiles /\ Asked("dir", op, ok)
DirRest == <<Rest, shares>>
Failed(op) == Dir(op, FALSE) /\ UNCHANGED <<DirRest, files>>

(* The kernel locks the inode during a write, a setattr and an unlink.     *)
Unlocked == chm.pc = "idle"

Set(h, r) == handle' = [handle EXCEPT ![h] = r]
Free(h) == handle[h].kind = "free"
Shown == thing \in {"file", "link"}

(* go-fuse keeps the inode it has, so the Link of a node is the one of the *)
(* first Lookup.                                                           *)
Lookup ==
  /\ \/ /\ thing \in {"none", "draft"} /\ Dir("lookup", FALSE) /\ UNCHANGED node
     \/ /\ thing \notin {"none", "draft"} /\ Dir("lookup", TRUE)
        /\ node' = IF node = None /\ Shown THEN file.mode ELSE node
  /\ UNCHANGED <<DirRest, thing, file, draft, handle, chm, used>>

(* A new file is a draft with a descriptor open for writing. When its link *)
(* cannot be fetched the draft stays, and the name is taken, unlisted.     *)
CreateFD(h) ==
  /\ Free(h) /\ Dir("create", TRUE)
  /\ draft' = h /\ node' = 0 /\ UNCHANGED used
  /\ Set(h, [NewHandle EXCEPT !.kind = "write", !.due = TRUE])
CreateCut ==
  /\ Fault /\ Dir("create", FALSE)
  /\ draft' = "stale" /\ UNCHANGED <<node, handle>>
Create ==
  IF thing # "none" THEN Failed("create") /\ UNCHANGED used
  ELSE /\ thing' = "draft" /\ file' = [content |-> 0, mode |-> 0]
       /\ (\E h \in Handle : CreateFD(h)) \/ CreateCut
       /\ UNCHANGED <<DirRest, chm>>

Make(op, what) ==
  IF thing # "none" THEN Failed(op)
  ELSE /\ Dir(op, TRUE)
       /\ thing' = what /\ file' = [content |-> 0, mode |-> 0]
       /\ node' = IF what = "link" THEN 0 ELSE None
       /\ UNCHANGED <<DirRest, draft, handle, chm>>
Mkdir == Make("mkdir", "dir") /\ UNCHANGED used
Symlink == (Make("symlink", "link") \/ Failed("symlink")) /\ UNCHANGED used

(* The child goes to the trash with its drafts; who has it open finds out  *)
(* when it commits. A draft is not listed, and cannot be trashed.          *)
Trashed ==
  /\ thing' = "none" /\ file' = [content |-> 0, mode |-> 0] /\ draft' = None
  /\ node' = None /\ UNCHANGED chm
  /\ handle' = [h \in Handle |-> [handle[h] EXCEPT !.robbed = handle[h].kind = "write"]]
Unlink ==
  /\ \/ ~Shown /\ Failed("unlink")
     \/ Shown /\ Unlocked /\ Dir("unlink", TRUE) /\ Trashed /\ UNCHANGED DirRest
  /\ UNCHANGED used
Rmdir ==
  /\ \/ Failed("rmdir")        \* a directory that is not empty, too
     \/ thing = "dir" /\ Dir("rmdir", TRUE) /\ Trashed /\ UNCHANGED DirRest
  /\ UNCHANGED used

(* To another name of the directory, or into another share; the server     *)
(* refuses a name that is taken.                                           *)
Rename ==
  /\ Failed("rename") \/ (thing # "none" /\ Dir("rename", TRUE) /\ UNCHANGED <<DirRest, files>>)
  /\ UNCHANGED used

Forget ==
  /\ InFiles /\ Serving /\ ~InUse /\ node # None /\ node' = None
  /\ UNCHANGED <<Rest, shares, thing, file, draft, handle, chm, answer, used>>

------------------------------------------------------------------------------
(* The file. *)

Open(op, ok) == InFiles /\ Asked("file", op, ok)
File(op, ok) == node # None /\ Open(op, ok)
FileRest == <<Rest, shares, thing, node>>

(* OverwriteFile: a draft that is there is taken for a stale one, deleted, *)
(* and the request tried again. The XAttr that is carried over is the one  *)
(* of now.                                                                 *)
Robbed(by) == [h \in Handle |-> IF draft = h /\ by # h THEN [handle[h] EXCEPT !.robbed = TRUE]
                                                     ELSE handle[h]]
OpenWrite ==
  \E h \in Handle :
    /\ Free(h) /\ thing = "file" /\ File("open", TRUE) /\ UNCHANGED used
    /\ draft' = h
    /\ handle' = [Robbed(h) EXCEPT ![h] = [NewHandle EXCEPT !.kind = "write", !.prior = file.mode]]
    /\ UNCHANGED <<FileRest, file, chm>>

OpenRead ==
  \E h \in Handle :
    /\ Free(h) /\ thing = "file" /\ File("open", TRUE) /\ UNCHANGED used
    /\ Set(h, [NewHandle EXCEPT !.kind = "read"])
    /\ UNCHANGED <<FileRest, file, draft, chm>>

(* Also after the revision was created. *)
OpenFails ==
  /\ File("open", FALSE)
  /\ \/ UNCHANGED <<draft, handle>> /\ IF thing = "file" THEN Fault ELSE UNCHANGED used
     \/ thing = "file" /\ Fault /\ draft' = "stale" /\ handle' = Robbed(None)
  /\ UNCHANGED <<FileRest, file, chm>>

Read ==
  /\ \E h \in Handle : ~Free(h) /\ (Open("read", TRUE) \/ Open("read", FALSE))
  /\ UNCHANGED <<FileRest, file, draft, handle, chm, used>>

Readlink ==
  /\ File("readlink", thing = "link")
  /\ UNCHANGED <<FileRest, file, draft, handle, chm, used>>

Write ==
  \E h \in Handle :
    /\ ~Free(h) /\ Unlocked
    /\ \/ /\ handle[h].kind # "write" /\ Open("write", FALSE)
          /\ UNCHANGED <<handle, used>>
       \/ /\ handle[h].kind = "write" /\ Spend("writes", MaxWrites)
          /\ Open("write", TRUE)
          /\ Set(h, [handle[h] EXCEPT !.val = used.writes + 1, !.due = TRUE])
    /\ UNCHANGED <<FileRest, file, draft, chm>>

(* A chmod through a descriptor open for writing is staged on it; a size   *)
(* only changes what the descriptor reports, and times change nothing.     *)
StagedByPath(h, m) ==
  /\ draft' = None /\ file' = [file EXCEPT !.mode = m] /\ UNCHANGED handle
Staged(h, m) == Set(h, [handle[h] EXCEPT !.mode = m]) /\ UNCHANGED <<draft, file>>
SetModeStaged ==
  /\ Unlocked /\ Open("setattr", TRUE)
  /\ \E h \in Handle, m \in Mode : handle[h].kind = "write" /\ Staged(h, m)
  /\ UNCHANGED <<FileRest, chm, used>>
SetattrOther ==
  /\ Unlocked /\ File("setattr", TRUE)
  /\ UNCHANGED <<FileRest, file, draft, handle, chm, used>>

(* Otherwise Client.Chmod: the content is read, a revision opened, the     *)
(* content written again with the new mode, and the Link fetched again.    *)
ChmodRead ==
  /\ Unlocked /\ thing = "file"
  /\ File("setattr", TRUE)
  /\ \E m \in Mode : chm' = [pc |-> "read", mode |-> m, content |-> file.content]
  /\ UNCHANGED <<FileRest, file, draft, handle, used>>

ChmodOpen ==
  /\ chm.pc = "read"
  /\ draft' = "chmod" /\ handle' = Robbed("chmod")
  /\ chm' = [chm EXCEPT !.pc = "write"]
  /\ UNCHANGED <<FileRest, file, answer, used>>

(* Without content there is no block, and Close has nothing to commit.     *)
NewMode(m, prior) == IF m = 0 THEN prior ELSE m
ChmodCommit ==
  /\ chm.pc = "write"
  /\ \/ chm.content = 0 /\ UNCHANGED <<file, draft, answer>> /\ chm' = [chm EXCEPT !.pc = "stat"]
     \/ /\ chm.content # 0 /\ draft = "chmod"
        /\ file' = [content |-> chm.content, mode |-> NewMode(chm.mode, file.mode)]
        /\ draft' = None /\ chm' = [chm EXCEPT !.pc = "stat"] /\ UNCHANGED answer
     \/ /\ chm.content # 0 /\ draft # "chmod"
        /\ File("setattr", FALSE) /\ chm' = Idle /\ UNCHANGED <<file, draft>>
  /\ UNCHANGED <<FileRest, handle, used>>

(* The answer is a success even when the Link cannot be fetched.           *)
ChmodRefresh ==
  /\ chm.pc = "stat" /\ File("setattr", TRUE)
  /\ (node' = file.mode /\ UNCHANGED used) \/ (Fault /\ UNCHANGED node)
  /\ chm' = Idle
  /\ UNCHANGED <<Rest, shares, thing, file, draft, handle>>

(* FileDescriptor.Flush: what was written is committed, and the first      *)
(* revision of a new file even when nothing was; the descriptor takes no   *)
(* more writes then. The draft may be gone.                                *)
Committed(h) == [content |-> handle[h].val, mode |-> NewMode(handle[h].mode, handle[h].prior)]
Commit(h) ==
  /\ handle[h].due /\ draft = h
  /\ file' = Committed(h) /\ draft' = None
  /\ thing' = IF thing = "draft" THEN "file" ELSE thing
Same == UNCHANGED <<thing, file, draft>>

Flush ==
  /\ \E h \in Handle :
       /\ ~Free(h)
       /\ \/ /\ Commit(h) /\ Set(h, [handle[h] EXCEPT !.kind = "done", !.due = FALSE])
             /\ Open("flush", TRUE) /\ UNCHANGED used
          \/ /\ handle[h].due /\ draft # h /\ Open("flush", FALSE) /\ Same /\ UNCHANGED <<handle, used>>
          \/ /\ handle[h].due /\ Fault /\ Open("flush", FALSE) /\ Same /\ UNCHANGED handle
          \/ /\ ~handle[h].due /\ Open("flush", TRUE) /\ Same /\ UNCHANGED <<handle, used>>
  /\ UNCHANGED <<Rest, shares, node, chm>>

(* Close commits what Flush did not; its error is only logged. A draft     *)
(* with nothing to commit is left.                                         *)
Release ==
  /\ InFiles /\ Serving
  /\ \E h \in Handle :
       /\ ~Free(h) /\ Set(h, NewHandle)
       /\ \/ Commit(h) /\ UNCHANGED used
          \/ /\ IF handle[h].due /\ draft = h THEN Fault ELSE UNCHANGED used
             /\ draft' = IF draft = h THEN "stale" ELSE draft
             /\ UNCHANGED <<thing, file>>
  /\ UNCHANGED <<Rest, shares, node, chm, answer>>

(* Sync is a step of FileDescriptor; a descriptor open for reading, or     *)
(* already closed, answers a success.                                      *)
Fsync ==
  /\ \E h \in Handle : ~handle[h].due /\ Open("fsync", TRUE)
  /\ UNCHANGED <<FileRest, file, draft, handle, chm, used>>

------------------------------------------------------------------------------
Lifecycle == Start \/ Restart \/ StartFails \/ MountFS \/ Signal \/ LoopsStop \/ Unmount \/ Crash
Refresh == Tick \/ ListShares \/ GetShare \/ SwapShares
RootRequest ==
  \/ Getattr \/ Statfs \/ Readdir \/ Opendir \/ LookupShare \/ LookupID
  \/ RenameFails \/ RenameShare \/ Refused
DirRequest == Lookup \/ Create \/ Mkdir \/ Symlink \/ Unlink \/ Rmdir \/ Rename \/ Forget
FileRequest ==
  \/ OpenWrite \/ OpenRead \/ OpenFails \/ Read \/ Readlink \/ Write \/ SetModeStaged
  \/ SetattrOther \/ ChmodRead \/ ChmodOpen \/ ChmodCommit \/ ChmodRefresh
  \/ Flush \/ Release \/ Fsync

Next ==
  \/ Lifecycle \/ Refresh \/ InvalidateAll \/ RemoteRename
  \/ RootRequest \/ DirRequest \/ FileRequest

(* The goroutines of the daemon are scheduled, the requests to the server  *)
(* end, and systemd restarts a daemon that failed.                         *)
Spec ==
  /\ Init /\ [][Next]_vars
  /\ WF_vars(Refresh) /\ WF_vars(MountFS) /\ WF_vars(LoopsStop) /\ WF_vars(Unmount)
  /\ WF_vars(Restart)

------------------------------------------------------------------------------
(* Properties. *)

(* main.go:431: the loop brings the shares back after a rename, a resync   *)
(* or a failed list cleared or kept the map: while the daemon serves and   *)
(* nothing more goes wrong, the map ends up with the server's names.       *)
SharesComeBack == <>[](phase = "serving") => <>[](map = title)

(* mount.go:167-169: over whatever a daemon left behind when it died, the  *)
(* next one mounts; and a daemon that is told to stop does: neither start  *)
(* nor stop hangs or fails for ever.                                       *)
ServesAgain == []<>(phase \in {"serving", "down"})

(* nodes.go:891: the mode is staged on an open descriptor, so that "it     *)
(* commits together with any pending truncate in a single revision". A     *)
(* writer whose draft is gone lost it to another open or a chmod without   *)
(* its descriptor, or the file was removed: never to its own fchmod.       *)
WritersKeepTheirDraft ==
  \A h \in Handle : handle[h].kind = "write" /\ ~handle[h].robbed => draft = h

------------------------------------------------------------------------------
(* What the repository says and the code does not do.                      *)

(* chmod.go:11-12 "by creating a new revision with the same content".      *)
ChmodKeepsContent ==
  [][ draft = "chmod" /\ file' # file => file'.content = file.content ]_vars

=============================================================================
