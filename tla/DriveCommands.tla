----------------------------- MODULE DriveCommands -----------------------------
(***************************************************************************)
(* The drive commands of proton-cli that change the tree: cp to Proton     *)
(* Drive, mkdir, rm, rmdir, empty-trash, mv, ln -s and chmod               *)
(* (internal/cli/drive), with what they call in api/drive. Several         *)
(* processes run one command each; a step of a command ends at each        *)
(* request it sends.                                                       *)
(*                                                                         *)
(* A command is a program that starts with empty caches: its Links (the    *)
(* link table) and the child IDs a listing left on a folder's Link. The    *)
(* server's tree is one function from link IDs to records. A file's bytes  *)
(* are the process that wrote them, or the ID of a file that was there.    *)
(***************************************************************************)
EXTENDS Naturals, Sequences, FiniteSets, SequencesExt

CONSTANTS
  Proc,       \* the processes
  None,       \* no revision, no draft, no link, no list
  Commands,   \* what they may run, see CommandAssumption
  Trees,      \* initial trees: sequences of [kind, parent, name, state]
  SrcName,    \* the base name of the local file cp copies
  MaxId,      \* bound: links
  MaxFaults   \* bound: requests that fail, processes that die

Id == 1..MaxId
Root == 0
Ops == {"cp", "mkdir", "rm", "rmdir", "empty", "mv", "ln", "chmod"}
Flags == {"recursive", "permanent", "parents", "force", "removeDest"}
ASSUME CommandAssumption ==
  \A c \in Commands : c.op \in Ops /\ c.flags \subseteq Flags /\ c.args # <<>>
ASSUME TreeAssumption ==
  \A t \in Trees : \A l \in DOMAIN t : t[l].state \in {"draft", "active", "trashed"}
ASSUME NoneAssumption == None \notin Proc \cup Id \cup {Root}
ASSUME BoundAssumption == {MaxId, MaxFaults} \subseteq Nat

VARIABLES
  link,     \* server: the links, see Links
  cmd,      \* per process: its command
  loc,      \* per process: where it is and what it holds, see Start
  seen,     \* per process: the link table, the server's record at the time
  listed,   \* per process: cachedChildIDs of the folders' Links
  result,   \* per process: its exit status
  faults,
  made,     \* history: contents that were committed
  moved     \* history: links that were created, trashed, deleted or moved

vars == <<link, cmd, loc, seen, listed, result, faults, made, moved>>

Content == Proc \cup Id
Links == [kind : {"file", "folder"}, parent : Id \cup {Root}, name : STRING,
          state : {"none", "draft", "active", "trashed", "deleted"},
          rev : Content \cup {None},   \* active revision
          kept : SUBSET Content,       \* older revisions
          draft : Proc \cup {None},    \* who opened the draft revision
          maker : Proc \cup {None}]    \* history: who created the link
NoLink == [kind |-> "file", parent |-> Root, name |-> "", state |-> "none", rev |-> None,
           kept |-> {}, draft |-> None, maker |-> None]

PC == {"start", "walk", "mkdirs", "mkdir", "again", "stat", "remove", "list", "unlink", "mvdst",
       "mvto", "mvparent", "move", "create", "upload", "commit", "read", "revise", "stale",
       "drop", "cpdst", "cpparent", "dstfile", "exists", "draftexist", "done"}
TypeOK ==
  /\ link \in [Id -> Links]
  /\ cmd \in [Proc -> Commands] /\ DOMAIN loc = Proc
  /\ \A p \in Proc :
       /\ loc[p].pc \in PC /\ loc[p].arg \in 1..Len(cmd[p].args)
       /\ {loc[p].at, loc[p].src, loc[p].file} \subseteq Id \cup {Root, None}
  /\ \A p \in Proc : seen[p] \in [Id -> Links \cup {None}]
  /\ listed \in [Proc -> [Id \cup {Root} -> (SUBSET Id) \cup {None}]]
  /\ result \in [Proc -> {"none", "ok", "err"}]
  /\ faults \in 0..MaxFaults /\ made \subseteq Content /\ moved \subseteq Id

Start == [pc |-> "start", arg |-> 1,
          at |-> Root, rest |-> <<>>, then |-> "done",  \* the walk along a path
          src |-> None, name |-> "",                    \* what is moved; the new name
          file |-> None, data |-> None,                 \* the draft written, its bytes
          opts |-> {}, back |-> "done",                 \* Remove: options, what follows
          via |-> "", last |-> FALSE, owner |-> None,   \* buildCopyJob: the branch it is in
          missed |-> FALSE]                             \* history, see LookupIsTruthful

FromTree(t, l) ==
  IF l \notin DOMAIN t THEN NoLink
  ELSE [NoLink EXCEPT !.kind = t[l].kind, !.parent = t[l].parent, !.name = t[l].name,
          !.state = t[l].state,
          !.rev = IF t[l].kind = "file" /\ t[l].state # "draft" THEN l ELSE None]
Init ==
  /\ \E t \in Trees : link = [l \in Id |-> FromTree(t, l)]
  /\ cmd \in [Proc -> Commands]
  /\ loc = [p \in Proc |-> Start]
  /\ seen = [p \in Proc |-> [l \in Id |-> None]]
  /\ listed = [p \in Proc |-> [f \in Id \cup {Root} |-> None]]
  /\ result = [p \in Proc |-> "none"]
  /\ faults = 0 /\ made = {link[l].rev : l \in Id} \ {None} /\ moved = {}

-----------------------------------------------------------------------------
(* A process.                                                              *)
Path(p) == cmd[p].args[loc[p].arg]
Has(p, flag) == flag \in cmd[p].flags
ForcedAlways(p) == TRUE
Forced(p) == Has(p, "force") \/ Has(p, "removeDest")

Set(p, r) == loc' = [loc EXCEPT ![p] = r]
Quiet == UNCHANGED <<cmd, link, faults, made, moved>>
Caches == UNCHANGED <<seen, listed>>
Exit(p, r, status) ==
  /\ Set(p, [r EXCEPT !.pc = "done"])
  /\ result' = [result EXCEPT ![p] = status]
Go(p, r) == Set(p, r) /\ UNCHANGED result
Fail(p) == Exit(p, loc[p], "err")

(* The next operand; of mv and of cp with a target the last is the dest.   *)
Operands(p) == Len(cmd[p].args) - (IF cmd[p].op = "mv" THEN 1 ELSE 0)
Finished(p, r) ==
  IF r.arg = Operands(p) THEN Exit(p, r, "ok")
  ELSE Go(p, [r EXCEPT !.pc = "start", !.arg = @ + 1])

(* A request that fails, and a process that is killed.                     *)
Fault == faults < MaxFaults /\ faults' = faults + 1
Asking == {"walk", "mkdirs", "mkdir", "again", "stat", "list", "move", "upload", "commit", "read",
           "create", "exists", "draftexist"}
RequestFails(p) ==
  /\ loc[p].pc \in Asking /\ Fault
  /\ Fail(p)
  /\ Caches /\ UNCHANGED <<cmd, link, made, moved>>
Die(p) ==
  /\ loc[p].pc # "done" /\ Fault
  /\ Exit(p, loc[p], "none")
  /\ Caches /\ UNCHANGED <<cmd, link, made, moved>>

-----------------------------------------------------------------------------
(* The server (external).                                                  *)
Usable(f) == f # Root => link[f].state = "active" /\ link[f].kind = "folder"
Children(f) == {l \in Id : link[l].parent = f /\ link[l].state \notin {"none", "deleted"}}
(* A trashed link keeps its name (cp.go:356).                              *)
Holder(f, n) == {l \in Children(f) : link[l].name = n}
Fresh == {l \in Id : link[l].state = "none"}
NewId(l) == l \in Fresh /\ \A k \in Fresh : l <= k
Below(l) == {k \in Id : link[k].parent = l} \cup {l}

Create(p, l, kind, f, n) ==
  link' = [link EXCEPT ![l] =
     [NoLink EXCEPT !.kind = kind, !.parent = f, !.name = n, !.maker = p,
        !.state = IF kind = "file" THEN "draft" ELSE "active",
        !.draft = IF kind = "file" THEN p ELSE None]]

-----------------------------------------------------------------------------
(* Link.Lookup. With cached child IDs it asks the table, and skips what    *)
(* the table does not have. Without, it lists the folder: the IDs are      *)
(* cached, Links are made for the children until the name is found; a Link *)
(* the table already has is kept as it was.                                *)
Matches(sn, S, n) == {l \in S : sn[l] # None /\ sn[l].name = n /\ sn[l].state # "trashed"}
Enter(sn, S) == [l \in Id |-> IF l \in S /\ sn[l] = None THEN link[l] ELSE sn[l]]
(* The outcomes of a Lookup: what it finds, the table, the cached IDs.     *)
Lookups(p, f, n) ==
  LET ids == listed[p][f]
      all == Enter(seen[p], Children(f))
      found == Matches(all, Children(f), n)
      Cached == LET M == Matches(seen[p], ids, n)
                IN {[found |-> l, seen |-> seen[p], ids |-> ids] :
                      l \in IF M = {} THEN {None} ELSE M}
      Stopped(l) == {[found |-> l, seen |-> Enter(seen[p], S \cup {l}), ids |-> Children(f)] :
                       S \in SUBSET Children(f)}
      Drained == {[found |-> None, seen |-> all,
                   ids |-> IF Children(f) = {} THEN None ELSE Children(f)]}
  IN IF ids # None THEN Cached
     ELSE IF found = {} THEN Drained ELSE UNION {Stopped(l) : l \in found}

(* It was there all the time.                                              *)
Overlooked(f, n, found) ==
  /\ found = None
  /\ \E l \in Id \ moved : link[l].parent = f /\ link[l].name = n /\ link[l].state = "active"
Remember(p, o, f) ==
  /\ seen' = [seen EXCEPT ![p] = o.seen]
  /\ listed' = [listed EXCEPT ![p][f] = o.ids]

(* deleteLink and InvalidateChildren of some links.                        *)
Forget(p, L) ==
  /\ seen' = [seen EXCEPT ![p] = [l \in Id |-> IF l \in L THEN None ELSE @[l]]]
  /\ listed' = [listed EXCEPT ![p] =
       [f \in Id \cup {Root} |-> IF f \in L THEN None ELSE @[f]]]
IsFolder(l) == l # None /\ (l # Root => link[l].kind = "folder")

(* Link.ResolvePath: component by component from the share's root.         *)
WalkTo(r, path, then) ==
  [r EXCEPT !.pc = IF path = <<>> THEN then ELSE "walk", !.at = Root, !.rest = path,
            !.then = then]
Walk(p) ==
  LET r == loc[p]
      f == r.at
      Arrived(found) == found = None \/ Len(r.rest) = 1
      Next(found, missed) ==
        [r EXCEPT !.at = found, !.rest = Tail(@), !.missed = @ \/ missed,
                  !.pc = IF Arrived(found) THEN r.then ELSE "walk"]
  IN /\ r.pc = "walk"
     /\ \/ ~IsFolder(f) /\ Go(p, [r EXCEPT !.at = None, !.pc = r.then]) /\ Caches
        \/ /\ IsFolder(f)
           /\ \E o \in Lookups(p, f, Head(r.rest)) :
                /\ Remember(p, o, f)
                /\ Go(p, Next(o.found, Overlooked(f, Head(r.rest), o.found)))
     /\ Quiet

-----------------------------------------------------------------------------
(* The commands resolve their operand.                                     *)
ParentOf(path) == Front(path)
Begin(p) ==
  LET r == [loc[p] EXCEPT !.name = Last(Path(p)), !.missed = FALSE]
      op == cmd[p].op
  IN /\ loc[p].pc = "start" /\ op # "empty"
     /\ Go(p, CASE op = "mkdir" /\ Has(p, "parents") ->
                     [r EXCEPT !.pc = "mkdirs", !.at = Root, !.rest = Path(p)]
                [] op = "mkdir" /\ ~Has(p, "parents") -> WalkTo(r, ParentOf(Path(p)), "mkdir")
                [] op = "ln" -> WalkTo([r EXCEPT !.data = p], ParentOf(Path(p)), "create")
                [] op \in {"rm", "rmdir"} ->
                     WalkTo([r EXCEPT !.opts = cmd[p].flags, !.back = "done"], Path(p), "remove")
                [] op = "mv" -> WalkTo(r, Path(p), "mvdst")
                [] op = "chmod" -> WalkTo(r, Path(p), "read")
                [] op = "cp" -> WalkTo([r EXCEPT !.data = p], Path(p), "cpdst"))
     /\ Caches /\ Quiet

(* empty-trash: all trashed links of the share are deleted.                *)
EmptyTrash(p) ==
  LET gone == UNION {Below(l) : l \in {k \in Id : link[k].state = "trashed"}}
  IN /\ loc[p].pc = "start" /\ cmd[p].op = "empty"
     /\ link' = [l \in Id |-> IF l \in gone THEN [link[l] EXCEPT !.state = "deleted"] ELSE link[l]]
     /\ moved' = moved \cup gone
     /\ Exit(p, loc[p], "ok")
     /\ Caches /\ UNCHANGED <<cmd, faults, made>>

-----------------------------------------------------------------------------
(* mkdir and mkdir -p.                                                     *)
Into(r, l) == [r EXCEPT !.pc = "mkdirs", !.at = l, !.rest = Tail(@)]
MkDirAll(p) ==
  LET r == loc[p]
  IN /\ r.pc = "mkdirs"
     /\ \/ r.rest = <<>> /\ Finished(p, r) /\ Caches
        \/ /\ r.rest # <<>>
           /\ \E o \in Lookups(p, r.at, Head(r.rest)) :
                /\ Remember(p, o, r.at)
                /\ \/ /\ o.found = None
                      /\ Go(p, [r EXCEPT !.pc = "mkdir", !.name = Head(r.rest),
                                  !.missed = @ \/ Overlooked(r.at, Head(r.rest), None)])
                   \/ o.found # None /\ o.seen[o.found].kind = "folder" /\ Go(p, Into(r, o.found))
                   \/ o.found # None /\ o.seen[o.found].kind # "folder" /\ Fail(p)
     /\ Quiet

MkDir(p) ==
  LET r == loc[p]
      f == r.at
      Refuse == Fail(p) /\ Caches /\ Quiet
  IN /\ r.pc = "mkdir"
     /\ \/ ~(IsFolder(f) /\ Usable(f)) /\ Refuse
        \/ /\ IsFolder(f) /\ Usable(f) /\ Holder(f, r.name) # {}
           /\ IF Has(p, "parents") THEN Go(p, [r EXCEPT !.pc = "again"]) ELSE Fail(p)
           /\ Caches /\ Quiet
        \/ /\ IsFolder(f) /\ Usable(f) /\ Holder(f, r.name) = {}
           /\ \E l \in Id :
                /\ NewId(l) /\ Create(p, l, "folder", f, r.name)
                /\ Go(p, [r EXCEPT !.pc = "stat", !.file = l])
                /\ moved' = moved \cup {l}
           /\ Forget(p, {f})
           /\ UNCHANGED <<cmd, faults, made>>

(* StatLink of what was created; mkdir -p goes on inside.                  *)
Stat(p) ==
  LET r == loc[p]
      l == r.file
  IN /\ r.pc = "stat"
     /\ \/ link[l].state = "deleted" /\ Fail(p) /\ Caches
        \/ /\ link[l].state # "deleted"
           /\ seen' = [seen EXCEPT ![p][l] = IF @ = None THEN link[l] ELSE @]
           /\ UNCHANGED listed
           /\ IF Has(p, "parents") THEN Go(p, Into(r, l)) ELSE Finished(p, r)
     /\ Quiet

(* The name existed: mkdir -p looks it up once more.                       *)
MkDirAgain(p) ==
  LET r == loc[p]
  IN /\ r.pc = "again"
     /\ \E o \in Lookups(p, r.at, r.name) :
          /\ Remember(p, o, r.at)
          /\ IF o.found = None
             THEN Exit(p, [r EXCEPT !.missed = @ \/ Overlooked(r.at, r.name, None)], "err")
             ELSE Go(p, Into(r, o.found))
     /\ Quiet

-----------------------------------------------------------------------------
(* rm and rmdir: a folder must be empty unless -r.                         *)
RemoveOperand(p) ==
  LET r == loc[p]
      l == r.at
      Fit == l \notin {None, Root} /\ (cmd[p].op = "rmdir" => seen[p][l].kind = "folder")
  IN /\ r.pc = "remove"
     /\ \/ ~Fit /\ Fail(p)
        \/ /\ Fit
           /\ Go(p, [r EXCEPT !.file = l,
                       !.pc = IF seen[p][l].kind = "folder" /\ ~Has(p, "recursive")
                              THEN "list" ELSE "unlink"])
     /\ Caches /\ Quiet
(* Readdir: the cached IDs if the table has them all, else the server's.   *)
ListChildren(p) ==
  LET r == loc[p]
      f == r.file
      ids == listed[p][f]
      Cached == ids # None /\ \A l \in ids : seen[p][l] # None
      all == Children(f)
  IN /\ r.pc = "list"
     /\ \/ (Cached \/ link[f].state = "deleted") /\ Fail(p) /\ Caches
        \/ /\ ~(Cached \/ link[f].state = "deleted")
           /\ Remember(p, [seen |-> Enter(seen[p], all), ids |-> IF all = {} THEN None ELSE all], f)
           /\ IF all = {} THEN Go(p, [r EXCEPT !.pc = "unlink"]) ELSE Fail(p)
     /\ Quiet

(* Client.Remove, for rm and for cp: the request it sends depends on the   *)
(* state the Link had when it was read. A failure is the command's, unless *)
(* cp only removes what is stale.                                          *)
Trashed(l) == [link EXCEPT ![l].state = "trashed"]
Deleted(l) == [k \in Id |-> IF k \in Below(l) THEN [link[k] EXCEPT !.state = "deleted"] ELSE link[k]]
RemovedAlways(l, was, permanent) == Deleted(l)
Removed(l, was, permanent) == IF permanent THEN Deleted(l) ELSE Trashed(l)
Accepts(l, was, permanent) ==
  /\ link[l].parent = was.parent
  /\ CASE permanent /\ was.state = "trashed" -> link[l].state = "trashed"
       [] permanent /\ was.state # "trashed" -> link[l].state \in {"draft", "active"}
       [] OTHER -> link[l].state = "active"
After(p, r) == IF r.back = "done" THEN Finished(p, r) ELSE Go(p, [r EXCEPT !.pc = r.back])
Unlink(p) ==
  LET r == loc[p]
      l == r.file
      was == seen[p][l]
      permanent == "permanent" \in r.opts
      Refused == IF "lenient" \in r.opts THEN After(p, r) ELSE Fail(p)
  IN /\ r.pc = "unlink"
     /\ \/ was.state = "trashed" /\ ~permanent /\ After(p, r)
           /\ Caches /\ Quiet
        \/ /\ was.state # "trashed" \/ permanent
           /\ Accepts(l, was, permanent)
           /\ link' = Removed(l, was, permanent)
           /\ moved' = moved \cup Below(l)
           /\ Forget(p, {l, was.parent})
           /\ After(p, r)
           /\ UNCHANGED <<cmd, faults, made>>
        \/ /\ was.state # "trashed" \/ permanent
           /\ \/ ~Accepts(l, was, permanent) /\ UNCHANGED faults
              \/ Fault
           /\ Refused
           /\ Caches /\ UNCHANGED <<cmd, link, made, moved>>

-----------------------------------------------------------------------------
(* mv: into the destination if it is a folder, else to its name.           *)
MvSource(p) ==
  LET r == loc[p]
  IN /\ r.pc = "mvdst"
     /\ \/ r.at = None /\ Fail(p)
        \/ r.at # None /\ Go(p, WalkTo([r EXCEPT !.src = r.at], Last(cmd[p].args), "mvto"))
     /\ Caches /\ Quiet
MvTarget(p) ==
  LET r == loc[p]
      dest == Last(cmd[p].args)
  IN /\ r.pc = "mvto"
     /\ \/ IsFolder(r.at)
           /\ Go(p, [r EXCEPT !.pc = "move", !.name = seen[p][r.src].name])
        \/ /\ ~IsFolder(r.at)
           /\ IF Operands(p) > 1 THEN Fail(p)
              ELSE Go(p, WalkTo([r EXCEPT !.name = Last(dest)], ParentOf(dest), "mvparent"))
     /\ Caches /\ Quiet
MvParent(p) ==
  LET r == loc[p]
  IN /\ r.pc = "mvparent"
     /\ IF ~IsFolder(r.at) THEN Fail(p) ELSE Go(p, [r EXCEPT !.pc = "move"])
     /\ Caches /\ Quiet
(* MoveLink carries the hash of the old name: the server refuses a link    *)
(* that was renamed or moved since, and a name that is taken.              *)
Movable(p, l, f, n) ==
  LET was == seen[p][l]
  IN /\ l # Root /\ Usable(f) /\ l \notin {f} /\ (f # Root => link[f].parent # l)
     /\ link[l].state = "active" /\ link[l].name = was.name /\ link[l].parent = was.parent
     /\ Holder(f, n) = {}
Move(p) ==
  LET r == loc[p]
      l == r.src
      f == r.at
  IN /\ r.pc = "move"
     /\ \/ ~Movable(p, l, f, r.name) /\ Fail(p) /\ Caches /\ Quiet
        \/ /\ Movable(p, l, f, r.name)
           /\ link' = [link EXCEPT ![l].parent = f, ![l].name = r.name]
           /\ moved' = moved \cup {l}
           /\ Forget(p, {l, f, seen[p][l].parent})
           /\ Finished(p, r)
           /\ UNCHANGED <<cmd, faults, made>>

-----------------------------------------------------------------------------
(* cp: resolveDest, handleConflict, buildCopyJob.                          *)
Purge(r, l, opts, back) ==
  [r EXCEPT !.pc = "unlink", !.file = l, !.opts = opts, !.back = back]
CpDest(p) ==
  LET r == loc[p]
      l == r.at
  IN /\ r.pc = "cpdst"
     /\ \/ l = None /\ Go(p, WalkTo(r, ParentOf(Path(p)), "cpparent"))
        \/ IsFolder(l) /\ Go(p, [r EXCEPT !.pc = "create", !.name = SrcName])
        \/ /\ l # None /\ ~IsFolder(l)
           /\ IF Has(p, "removeDest") THEN Go(p, Purge(r, l, {}, "dstfile"))
              ELSE IF Has(p, "force") THEN Go(p, [r EXCEPT !.pc = "dstfile", !.file = l])
              ELSE Fail(p)
     /\ Caches /\ Quiet
CpParent(p) ==
  LET r == loc[p]
  IN /\ r.pc = "cpparent"
     /\ IF ~IsFolder(r.at) THEN Fail(p) ELSE Go(p, [r EXCEPT !.pc = "create"])
     /\ Caches /\ Quiet

(* The destination is a file: it gets a new revision if the Link has an    *)
(* active one; if not, or when that fails, it is deleted and created.      *)
Recreate(p, r, l) ==
  Purge([r EXCEPT !.at = link[l].parent], l, {"permanent", "lenient"}, "create")
CpDestFile(p) ==
  LET r == [loc[p] EXCEPT !.at = link[loc[p].file].parent]
      l == r.file
      was == IF seen[p][l] = None THEN link[l] ELSE seen[p][l]
  IN /\ loc[p].pc = "dstfile"
     /\ IF was.rev # None THEN Go(p, [r EXCEPT !.pc = "revise", !.via = "file"])
        ELSE Go(p, Recreate(p, r, l))
     /\ seen' = [seen EXCEPT ![p][l] = was] /\ UNCHANGED listed
     /\ Quiet

(* CreateFile, for cp and ln -s.                                           *)
CreateFile(p) ==
  LET r == loc[p]
      f == r.at
      Ready == IsFolder(f) /\ Usable(f)
      taken == Holder(f, r.name)
      Again(l) == IF ~Forced(p) \/ r.last \/ cmd[p].op = "ln" THEN Fail(p)
                  ELSE Go(p, [r EXCEPT !.pc = IF link[l].state = "draft" THEN "draftexist"
                                              ELSE "exists"])
  IN /\ r.pc = "create"
     /\ \/ ~Ready /\ Fail(p) /\ Caches /\ Quiet
        \/ /\ Ready
           /\ \E l \in taken : Again(l)
           /\ Caches /\ Quiet
        \/ /\ Ready /\ taken = {}
           /\ \E l \in Id :
                /\ NewId(l) /\ Create(p, l, "file", f, r.name)
                /\ Go(p, [r EXCEPT !.pc = "upload", !.file = l])
                /\ moved' = moved \cup {l}
           /\ Caches /\ UNCHANGED <<cmd, faults, made>>

(* What failed once is tried once more.                                    *)
RetryAlways(r) == r
Retry(r) == [r EXCEPT !.last = TRUE]

(* With -f the link that holds the name is looked up: a draft, or a file   *)
(* without a revision, is deleted for good, a file gets a new revision.    *)
Blocker(p) ==
  LET r == loc[p]
      Found(o, l) ==
        LET b == o.seen[l]
        IN CASE b.kind = "folder" -> Fail(p)
             [] b.kind = "file" /\ (IF r.pc = "exists" THEN b.rev = None ELSE b.state = "draft") ->
                  Go(p, Purge(Retry(r), l, {"permanent"}, "create"))
             [] OTHER -> Go(p, [r EXCEPT !.pc = "revise", !.via = "blocker", !.file = l])
  IN /\ r.pc \in {"exists", "draftexist"}
     /\ \E o \in Lookups(p, r.at, r.name) :
          /\ Remember(p, o, r.at)
          /\ IF o.found # None THEN Found(o, o.found)
             ELSE IF r.pc = "exists"
             THEN Go(p, [Retry(r) EXCEPT !.pc = "create",
                           !.missed = @ \/ Overlooked(r.at, r.name, None)])
             ELSE Fail(p)
     /\ Quiet

-----------------------------------------------------------------------------
(* OverwriteFile, for cp and chmod: one draft revision at a time; one that *)
(* is there is taken for stale and deleted, once.                          *)
OverwriteFails(p) ==
  LET r == loc[p]
  IN IF r.via = "file" THEN Go(p, Recreate(p, [r EXCEPT !.last = FALSE], r.file)) ELSE Fail(p)
CreateRevision(p) ==
  LET r == loc[p]
      l == r.file
      free == link[l].draft = None
  IN /\ r.pc = "revise"
     /\ \/ /\ link[l].state = "active" /\ free
           /\ link' = [link EXCEPT ![l].draft = p]
           /\ Go(p, [r EXCEPT !.pc = "upload"]) /\ UNCHANGED faults
        \/ /\ link[l].state = "active" /\ ~free /\ ~r.last
           /\ Go(p, [r EXCEPT !.pc = "stale"]) /\ UNCHANGED <<link, faults>>
        \/ /\ link[l].state # "active" \/ (~free /\ r.last)
           /\ OverwriteFails(p) /\ UNCHANGED <<link, faults>>
        \/ Fault /\ OverwriteFails(p) /\ UNCHANGED link
     /\ Caches /\ UNCHANGED <<cmd, made, moved>>
ListRevisions(p) ==
  LET r == loc[p]
      l == r.file
      draft == link[l].draft
  IN /\ r.pc = "stale"
     /\ \/ link[l].state = "active" /\ draft # None /\ UNCHANGED faults
           /\ Go(p, [r EXCEPT !.pc = "drop", !.owner = draft])
        \/ (link[l].state # "active" \/ draft = None) /\ OverwriteFails(p) /\ UNCHANGED faults
        \/ Fault /\ OverwriteFails(p)
     /\ Caches /\ UNCHANGED <<cmd, link, made, moved>>
DeleteRevision(p) ==
  LET r == loc[p]
      l == r.file
      there == link[l].state = "active" /\ link[l].draft = r.owner
  IN /\ r.pc = "drop"
     /\ \/ /\ there /\ link' = [link EXCEPT ![l].draft = None]
           /\ Go(p, [Retry(r) EXCEPT !.pc = "revise"]) /\ UNCHANGED faults
        \/ ~there /\ OverwriteFails(p) /\ UNCHANGED <<link, faults>>
        \/ Fault /\ OverwriteFails(p) /\ UNCHANGED link
     /\ Caches /\ UNCHANGED <<cmd, made, moved>>

(* The blocks are uploaded to the draft, and the revision is committed.    *)
Mine(p) == link[loc[p].file].draft = p /\ link[loc[p].file].state \in {"draft", "active"}
Upload(p) ==
  /\ loc[p].pc = "upload"
  /\ IF Mine(p) THEN Go(p, [loc[p] EXCEPT !.pc = "commit"]) ELSE Fail(p)
  /\ Caches /\ Quiet
Commit(p) ==
  LET r == loc[p]
      l == r.file
      f == link[l].parent
  IN /\ r.pc = "commit"
     /\ \/ ~Mine(p) /\ Fail(p) /\ Caches /\ Quiet
        \/ /\ Mine(p)
           /\ link' = [link EXCEPT ![l].rev = r.data, ![l].kept = @ \cup ({link[l].rev} \ {None}),
                                   ![l].draft = None, ![l].state = "active"]
           /\ made' = made \cup {r.data}
           /\ IF cmd[p].op = "ln" THEN Go(p, [r EXCEPT !.pc = "stat"]) ELSE Finished(p, r)
           /\ IF cmd[p].op = "cp" THEN Caches
              ELSE Forget(p, (IF cmd[p].op = "chmod" THEN {l} ELSE {}) \cup {f})
           /\ UNCHANGED <<cmd, faults, moved>>

(* chmod reads the revision its Link names and writes it again.            *)
Read(p) ==
  LET r == loc[p]
      l == r.at
      Fit == l \notin {None, Root} /\ seen[p][l].kind = "file" /\ seen[p][l].rev # None
             /\ link[l].state # "deleted"
  IN /\ r.pc = "read"
     /\ \/ ~Fit /\ Fail(p)
        \/ /\ Fit
           /\ Go(p, [r EXCEPT !.pc = "revise", !.file = l, !.data = seen[p][l].rev])
     /\ Caches /\ Quiet

-----------------------------------------------------------------------------
Step(p) ==
  \/ Begin(p) \/ EmptyTrash(p) \/ Walk(p)
  \/ MkDirAll(p) \/ MkDir(p) \/ Stat(p) \/ MkDirAgain(p)
  \/ RemoveOperand(p) \/ ListChildren(p) \/ Unlink(p)
  \/ MvSource(p) \/ MvTarget(p) \/ MvParent(p) \/ Move(p)
  \/ CpDest(p) \/ CpParent(p) \/ CpDestFile(p) \/ CreateFile(p) \/ Blocker(p)
  \/ CreateRevision(p) \/ ListRevisions(p) \/ DeleteRevision(p)
  \/ Upload(p) \/ Commit(p) \/ Read(p)
  \/ RequestFails(p) \/ Die(p)
Over == (\A p \in Proc : loc[p].pc = "done") /\ UNCHANGED vars
Next == (\E p \in Proc : Step(p)) \/ Over

(* A program runs; the transport bounds the wait for an answer.            *)
Fairness == \A p \in Proc : WF_vars(Step(p))
Spec == Init /\ [][Next]_vars /\ Fairness

-----------------------------------------------------------------------------
(* Properties.                                                             *)

(* cp without -f or --remove-destination, mkdir and ln -s only add: a step *)
(* of theirs leaves every link another program made as it was.             *)
Additive(p) == cmd[p].op \in {"mkdir", "ln"} \/ (cmd[p].op = "cp" /\ cmd[p].flags = {})
OnlyAdds ==
  [][\A p \in Proc : Additive(p) /\ loc'[p] # loc[p] =>
       \A l \in Id : link[l].state # "none" /\ link[l].maker # p => link'[l] = link[l]]_vars

(* Bytes that were committed can be found again, in a file, one of its     *)
(* older revisions or the trash, unless somebody asked for a permanent     *)
(* removal, emptied the trash, or forced a copy.                           *)
Recoverable(c) == \E l \in Id : link[l].state # "deleted" /\ c \in {link[l].rev} \cup link[l].kept
Destructive(p) == cmd[p].op = "empty" \/ Has(p, "permanent") \/ (cmd[p].op = "cp" /\ Forced(p))
NothingLostUnasked == (\E p \in Proc : Destructive(p)) \/ \A c \in made : Recoverable(c)

(* The same of forced copies: "copying over an existing file creates a new *)
(* revision preserving the old content" (cp.go:38).                        *)
ForcedCopyKeepsVersions ==
  (\E p \in Proc : cmd[p].op = "empty" \/ Has(p, "permanent")) \/ \A c \in made : Recoverable(c)

(* Lookup answers that a name does not exist only if it was missing at     *)
(* some time since the program started.                                    *)
LookupIsTruthful == \A p \in Proc : ~loc[p].missed

(* Every command ends: a retry is a bounded one, and programs that take    *)
(* each other's drafts for stale do not keep each other from ending.       *)
CommandsReturn == \A p \in Proc : <>(loc[p].pc = "done")
=============================================================================
