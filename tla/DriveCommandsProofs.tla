-------------------------- MODULE DriveCommandsProofs --------------------------
(***************************************************************************)
(* Proofs about DriveCommands for any programs, commands, trees and        *)
(* faults: what a command may do to the links, by the steps it can reach.  *)
(***************************************************************************)
EXTENDS DriveCommands, TLAPS

(* A program's record and a link's have the fields of Start and NoLink.    *)
LocShape(r) ==
  DOMAIN r = {"pc", "arg", "at", "rest", "then", "src", "name", "file", "data", "opts", "back",
              "via", "last", "owner", "missed"}
LinkShape(x) ==
  DOMAIN x = {"kind", "parent", "name", "state", "rev", "kept", "draft", "maker"}
Shapes ==
  /\ DOMAIN loc = Proc /\ \A p \in Proc : LocShape(loc[p])
  /\ DOMAIN link = Id /\ \A l \in Id : LinkShape(link[l])
  /\ DOMAIN listed = Proc
  /\ cmd \in [Proc -> Commands]

(* Where a command that is no forced copy can be, and what it holds there. *)
Plain(p) == cmd[p].op # "cp" \/ ~Forced(p)
OnWay(p, r) ==
  LET op == cmd[p].op
      At(S, goals) ==
        r.pc \in {"start", "walk", "done"} \cup S /\ (r.pc = "walk" => r.then \in goals)
  IN /\ op = "mkdir" => At({"mkdirs", "mkdir", "again", "stat"}, {"mkdir"})
     /\ op = "ln" =>
          At({"create", "upload", "commit", "stat", "mkdirs", "mkdir", "again"}, {"create"})
     /\ op = "cp" => At({"cpdst", "cpparent", "create", "upload", "commit"}, {"cpdst", "cpparent"})
     /\ op = "chmod" => At({"read", "revise", "stale", "drop", "upload", "commit"}, {"read"})
     /\ op = "mv" => At({"mvdst", "mvto", "mvparent", "move"}, {"mvdst", "mvto", "mvparent"})
     /\ op \in {"rm", "rmdir"} => At({"remove", "list", "unlink"}, {"remove"})
     /\ op = "empty" => At({}, {})
     /\ op \in {"rm", "rmdir"} /\ r.pc \notin {"start", "done"} =>
          r.opts = cmd[p].flags /\ r.back = "done"
     /\ /\ op \in {"cp", "ln"}
        /\ r.pc \in {"walk", "cpdst", "cpparent", "create", "upload", "commit"}
        => r.data = p
     /\ op \in {"cp", "ln"} /\ r.pc \in {"upload", "commit"} => r.file \in Id
Track(p) == OnWay(p, loc[p])

(* chmod writes to a link it has found by its path.                        *)
ChmodTarget(p) ==
  LET r == loc[p]
  IN /\ listed[p] \in [Id \cup {Root} -> (SUBSET Id) \cup {None}]
     /\ r.at \in Id \cup {Root, None} /\ r.via = ""
     /\ r.pc \in {"revise", "stale", "drop", "upload", "commit"} => r.file \in Id /\ r.data # None
OnTrack ==
  \A p \in Proc : Plain(p) => Track(p) /\ (cmd[p].op = "chmod" => ChmodTarget(p))

(* What a program that only adds writes to, it has made.                   *)
OwnDraft ==
  \A p \in Proc : Additive(p) /\ loc[p].pc \in {"upload", "commit"} =>
    link[loc[p].file].maker = p /\ link[loc[p].file].state # "none"

(* A link that was never used holds nothing; and without a destructive     *)
(* command no link is deleted, and all that was committed is in a link.    *)
Unused == \A l \in Id : link[l].state = "none" => link[l].rev = None /\ link[l].kept = {}
Keeping ==
  \/ \E p \in Proc : Destructive(p)
  \/ /\ \A l \in Id : link[l].state # "deleted"
     /\ \A c \in made : c # None /\ Recoverable(c)

IInv == Shapes /\ OnTrack /\ OwnDraft /\ Unused /\ Keeping

-----------------------------------------------------------------------------
(* What the commands are.                                                  *)
LEMMA PlainCommands ==
  ASSUME NEW p \in Proc, cmd \in [Proc -> Commands]
  PROVE  /\ cmd[p].op \in Ops
         /\ Additive(p) => Plain(p) /\ cmd[p].op \in {"mkdir", "ln", "cp"}
         /\ ~Destructive(p) => Plain(p) /\ cmd[p].op # "empty" /\ ~Has(p, "permanent")
BY CommandAssumption DEF Additive, Plain, Destructive, Forced, Has

LEMMA Initial == Init => IInv
<1> SUFFICES ASSUME Init PROVE IInv
  OBVIOUS
<1>1. PICK t \in Trees : link = [l \in Id |-> FromTree(t, l)]
  BY DEF Init
<1>2. \A l \in Id : /\ LinkShape(link[l]) /\ link[l].state # "deleted"
                    /\ link[l].state = "none" => link[l].rev = None /\ link[l].kept = {}
  BY <1>1, TreeAssumption DEF FromTree, NoLink, LinkShape
<1>3. \A p \in Proc : loc[p] = Start
  BY DEF Init
<1>4. Shapes
  BY <1>1, <1>2, <1>3 DEF Init, Shapes, LocShape, Start
<1>5. OnTrack
  BY <1>3 DEF Init, OnTrack, Track, OnWay, ChmodTarget, Start
<1>6. OwnDraft /\ Unused
  <2>1. \A p \in Proc : loc[p].pc = "start"
    <3>1. Start.pc = "start"
      BY DEF Start
    <3> QED BY <1>3, <3>1
  <2> QED BY <1>2, <2>1 DEF OwnDraft, Unused
<1>7. Keeping
  BY <1>2 DEF Init, Keeping, Recoverable
<1> QED BY <1>4, <1>5, <1>6, <1>7 DEF IInv

-----------------------------------------------------------------------------
(* The program's own state. A step changes the record of the program whose *)
(* step it is, and its caches.                                             *)
Others(p) ==
  /\ cmd' = cmd /\ DOMAIN loc' = Proc /\ DOMAIN listed' = Proc
  /\ \A q \in Proc \ {p} : loc'[q] = loc[q] /\ listed'[q] = listed[q]

LEMMA SetLoc ==
  ASSUME Shapes, NEW p \in Proc, NEW r, Set(p, r)
  PROVE  DOMAIN loc' = Proc /\ loc'[p] = r /\ \A q \in Proc \ {p} : loc'[q] = loc[q]
BY DEF Shapes, Set

LEMMA ExitLoc ==
  ASSUME Shapes, NEW p \in Proc, NEW r, LocShape(r), NEW status, Exit(p, r, status)
  PROVE  /\ DOMAIN loc' = Proc /\ \A q \in Proc \ {p} : loc'[q] = loc[q]
         /\ loc'[p] = [r EXCEPT !.pc = "done"] /\ LocShape(loc'[p]) /\ loc'[p].pc = "done"
BY DEF Shapes, Exit, Set, LocShape

LEMMA FinishLoc ==
  ASSUME Shapes, NEW p \in Proc, NEW r, LocShape(r), Finished(p, r)
  PROVE  /\ DOMAIN loc' = Proc /\ \A q \in Proc \ {p} : loc'[q] = loc[q]
         /\ LocShape(loc'[p]) /\ loc'[p].pc \in {"done", "start"}
         /\ loc'[p].at = r.at /\ loc'[p].via = r.via
<1>1. CASE r.arg = Operands(p)
  <2>1. Exit(p, r, "ok")
    BY <1>1 DEF Finished
  <2>2. loc'[p] = [r EXCEPT !.pc = "done"] /\ LocShape(loc'[p]) /\ loc'[p].pc = "done"
    BY <2>1, ExitLoc
  <2> QED BY <2>1, <2>2, ExitLoc DEF LocShape
<1>2. CASE r.arg # Operands(p)
  <2>1. Set(p, [r EXCEPT !.pc = "start", !.arg = r.arg + 1])
    BY <1>2 DEF Finished, Go
  <2>2. loc'[p] = [r EXCEPT !.pc = "start", !.arg = r.arg + 1]
    BY <2>1, SetLoc
  <2> QED BY <2>1, <2>2, SetLoc DEF LocShape
<1> QED BY <1>1, <1>2

LEMMA CachesListed ==
  ASSUME Shapes, NEW p \in Proc, NEW o, NEW f, NEW L,
         Caches \/ Remember(p, o, f) \/ Forget(p, L)
  PROVE  DOMAIN listed' = Proc /\ \A q \in Proc \ {p} : listed'[q] = listed[q]
BY DEF Shapes, Caches, Remember, Forget

LEMMA Stops ==
  ASSUME NEW p \in Proc, cmd' = cmd, loc'[p].pc \in {"start", "done"}
  PROVE  Track(p)'
BY DEF Track, OnWay

(* The four ways a step ends.                                              *)
Way(p, r) == LocShape(r) /\ (Plain(p) => OnWay(p, r))
Moved(p) ==
  /\ DOMAIN loc' = Proc /\ \A q \in Proc \ {p} : loc'[q] = loc[q]
  /\ LocShape(loc'[p]) /\ (Plain(p) => Track(p)')

LEMMA GoMoves ==
  ASSUME Shapes, NEW p \in Proc, cmd' = cmd, NEW r, Way(p, r), Go(p, r)
  PROVE  Moved(p)
<1>1. DOMAIN loc' = Proc /\ loc'[p] = r /\ \A q \in Proc \ {p} : loc'[q] = loc[q]
  BY SetLoc DEF Go
<1> QED BY <1>1 DEF Moved, Way, Track, OnWay

LEMMA ExitMoves ==
  ASSUME Shapes, NEW p \in Proc, cmd' = cmd, NEW r, LocShape(r), NEW status, Exit(p, r, status)
  PROVE  Moved(p)
BY ExitLoc, Stops DEF Moved

LEMMA FailMoves ==
  ASSUME Shapes, NEW p \in Proc, cmd' = cmd, Fail(p)
  PROVE  Moved(p)
BY ExitMoves DEF Fail, Shapes

LEMMA FinishMoves ==
  ASSUME Shapes, NEW p \in Proc, cmd' = cmd, NEW r, LocShape(r), Finished(p, r)
  PROVE  Moved(p)
BY FinishLoc, Stops DEF Moved

(* The beginning of a walk.                                                *)
LEMMA Walks ==
  ASSUME NEW r, LocShape(r), NEW path, NEW then
  PROVE  LET w == WalkTo(r, path, then)
         IN /\ LocShape(w) /\ w.pc \in {"walk", then} /\ w.then = then
            /\ w.opts = r.opts /\ w.back = r.back /\ w.data = r.data /\ w.file = r.file
            /\ w.via = r.via /\ w.at = Root
BY DEF LocShape, WalkTo

(* A step leaves the commands and the caches of the others alone.          *)
LEMMA StepFrame ==
  ASSUME Shapes, NEW p \in Proc, Step(p)
  PROVE  cmd' = cmd /\ DOMAIN listed' = Proc /\ \A q \in Proc \ {p} : listed'[q] = listed[q]
<1>1. cmd' = cmd
  BY DEF Step, Quiet, Begin, EmptyTrash, Walk, MkDirAll, MkDir, Stat, MkDirAgain,
         RemoveOperand, ListChildren, Unlink, MvSource, MvTarget, MvParent, Move, CpDest,
         CpParent, CpDestFile, CreateFile, Blocker, CreateRevision, ListRevisions,
         DeleteRevision, Upload, Commit, Read, RequestFails, Die
<1>2. CASE \/ Begin(p) \/ EmptyTrash(p) \/ RemoveOperand(p) \/ MvSource(p) \/ MvTarget(p)
           \/ MvParent(p) \/ CpDest(p) \/ CpParent(p) \/ CreateFile(p) \/ CreateRevision(p)
           \/ ListRevisions(p) \/ DeleteRevision(p) \/ Upload(p) \/ Read(p) \/ RequestFails(p)
           \/ Die(p)
  BY <1>1, <1>2, CachesListed DEF Shapes, Caches, Begin, EmptyTrash, RemoveOperand, MvSource,
         MvTarget, MvParent, CpDest, CpParent,
         CreateFile, CreateRevision, ListRevisions,
         DeleteRevision, Upload, Read, RequestFails,
         Die
<1>3. CASE Walk(p)
  BY <1>1, <1>3, CachesListed DEF Walk, Shapes, Caches
<1>4. CASE MkDirAll(p)
  BY <1>1, <1>4, CachesListed DEF MkDirAll, Shapes, Caches
<1>5. CASE MkDir(p)
  BY <1>1, <1>5, CachesListed DEF MkDir, Shapes, Caches
<1>6. CASE Stat(p)
  BY <1>1, <1>6, CachesListed DEF Stat, Shapes, Caches
<1>7. CASE MkDirAgain(p)
  BY <1>1, <1>7, CachesListed DEF MkDirAgain, Shapes, Caches
<1>8. CASE ListChildren(p)
  BY <1>1, <1>8, CachesListed DEF ListChildren, Shapes, Caches
<1>9. CASE Unlink(p)
  BY <1>1, <1>9, CachesListed DEF Unlink, Shapes, Caches
<1>10. CASE Move(p)
  BY <1>1, <1>10, CachesListed DEF Move, Shapes, Caches
<1>11. CASE CpDestFile(p)
  BY <1>1, <1>11, CachesListed DEF CpDestFile, Shapes, Caches
<1>12. CASE Commit(p)
  BY <1>1, <1>12, CachesListed DEF Commit, Shapes, Caches
<1>13. CASE Blocker(p)
  BY <1>1, <1>13, CachesListed DEF Blocker, Shapes, Caches
<1> QED BY <1>1, <1>2, <1>3, <1>4, <1>5, <1>6, <1>7, <1>8, <1>9, <1>10, <1>11, <1>12, <1>13 DEF Step

(* A step takes its program along the way of its command.                  *)
LEMMA StepMoves ==
  ASSUME IInv, NEW p \in Proc, Step(p)
  PROVE  Moved(p)
<1> DEFINE r == loc[p]
           op == cmd[p].op
<1>s. Shapes /\ cmd' = cmd /\ op \in Ops
  BY PlainCommands, StepFrame DEF IInv, Shapes
<1>w. Way(p, r)
  BY DEF IInv, OnTrack, Shapes, Track, Way
<1>g. ASSUME NEW x, Way(p, x), Go(p, x) PROVE Moved(p)
  BY <1>s, <1>g, GoMoves
<1>e. ASSUME NEW x, LocShape(x), NEW status, Exit(p, x, status) PROVE Moved(p)
  BY <1>s, <1>e, ExitMoves
<1>f. Fail(p) => Moved(p)
  BY <1>s, FailMoves
<1>n. ASSUME NEW x, LocShape(x), Finished(p, x) PROVE Moved(p)
  BY <1>s, <1>n, FinishMoves
<1>1. CASE Begin(p)
  <2> DEFINE b == [r EXCEPT !.name = Last(Path(p)), !.missed = FALSE]
  <2>1. r.pc = "start" /\ op # "empty"
    BY <1>1 DEF Begin
  <2>2. op = "mkdir" => Way(p, [b EXCEPT !.pc = "mkdirs", !.at = Root, !.rest = Path(p)])
    BY <1>s, <1>w, <2>1 DEF Way, OnWay, LocShape
  <2>3. \A y : op = "mkdir" => Way(p, WalkTo(b, y, "mkdir"))
    BY <1>s, <1>w, <2>1 DEF Way, OnWay, LocShape, WalkTo
  <2>4. \A y : op = "mv" => Way(p, WalkTo(b, y, "mvdst"))
    BY <1>s, <1>w, <2>1 DEF Way, OnWay, LocShape, WalkTo
  <2>5. \A y : op = "chmod" => Way(p, WalkTo(b, y, "read"))
    BY <1>s, <1>w, <2>1 DEF Way, OnWay, LocShape, WalkTo
  <2>6. \A y : op = "ln" => Way(p, WalkTo([b EXCEPT !.data = p], y, "create"))
    BY <1>s, <1>w, <2>1 DEF Way, OnWay, LocShape, WalkTo
  <2>7. \A y : op = "cp" => Way(p, WalkTo([b EXCEPT !.data = p], y, "cpdst"))
    BY <1>s, <1>w, <2>1 DEF Way, OnWay, LocShape, WalkTo
  <2>8. \A y : op \in {"rm", "rmdir"} =>
          Way(p, WalkTo([b EXCEPT !.opts = cmd[p].flags, !.back = "done"], y, "remove"))
    <3> DEFINE c == [b EXCEPT !.opts = cmd[p].flags, !.back = "done"]
    <3>1. LocShape(c) /\ c.opts = cmd[p].flags /\ c.back = "done"
      BY <1>w DEF Way, LocShape
    <3> HIDE DEF c
    <3>2. ASSUME NEW y, op \in {"rm", "rmdir"} PROVE Way(p, WalkTo(c, y, "remove"))
      <4> DEFINE w == WalkTo(c, y, "remove")
      <4>1. /\ LocShape(w) /\ w.pc \in {"walk", "remove"} /\ w.then = "remove"
            /\ w.opts = cmd[p].flags /\ w.back = "done"
        BY <3>1, Walks
      <4> HIDE DEF w
      <4>2. Way(p, w)
        BY <3>2, <4>1 DEF Way, OnWay
      <4> QED BY <4>2 DEF w
    <3> QED BY <3>2 DEF c
  <2> QED BY <1>s, <1>w, <1>g, <1>e, <1>f, <1>n, <2>1, <2>2, <2>3, <2>4, <2>5, <2>6, <2>7,
             <2>8, <1>1 DEF Begin, Way, Ops
<1>2. CASE EmptyTrash(p)
  <2> QED BY <1>s, <1>w, <1>g, <1>e, <1>f, <1>n, <1>2 DEF EmptyTrash, Way
<1>3. CASE Walk(p)
  <2>1. r.pc = "walk"
    BY <1>3 DEF Walk
  <2>2. Way(p, [r EXCEPT !.at = None, !.pc = r.then])
    BY <1>s, <1>w, <2>1 DEF Way, OnWay, LocShape
  <2>3. \A x, b :
          Way(p, [r EXCEPT !.at = x, !.rest = Tail(r.rest), !.missed = r.missed \/ b,
                    !.pc = r.then])
    BY <1>s, <1>w, <2>1 DEF Way, OnWay, LocShape
  <2>4. \A x, b :
          Way(p, [r EXCEPT !.at = x, !.rest = Tail(r.rest), !.missed = r.missed \/ b,
                    !.pc = "walk"])
    BY <1>s, <1>w, <2>1 DEF Way, OnWay, LocShape
  <2> QED BY <1>s, <1>w, <1>g, <1>e, <1>f, <1>n, <2>1, <2>2, <2>3, <2>4, <1>3 DEF Walk, Way
<1>4. CASE MkDirAll(p)
  <2>1. r.pc = "mkdirs"
    BY <1>4 DEF MkDirAll
  <2>2. Way(p, [r EXCEPT !.pc = "mkdir", !.name = Head(r.rest),
          !.missed = r.missed \/ Overlooked(r.at, Head(r.rest), None)])
    BY <1>s, <1>w, <2>1 DEF Way, OnWay, LocShape
  <2>3. \A l : Way(p, Into(r, l))
    BY <1>s, <1>w, <2>1 DEF Way, OnWay, LocShape, Into
  <2> QED BY <1>s, <1>w, <1>g, <1>e, <1>f, <1>n, <2>1, <2>2, <2>3, <1>4 DEF MkDirAll, Way
<1>5. CASE MkDir(p)
  <2>1. r.pc = "mkdir"
    BY <1>5 DEF MkDir
  <2>2. Way(p, [r EXCEPT !.pc = "again"])
    BY <1>s, <1>w, <2>1 DEF Way, OnWay, LocShape
  <2>3. \A l : Way(p, [r EXCEPT !.pc = "stat", !.file = l])
    BY <1>s, <1>w, <2>1 DEF Way, OnWay, LocShape
  <2> QED BY <1>s, <1>w, <1>g, <1>e, <1>f, <1>n, <2>1, <2>2, <2>3, <1>5 DEF MkDir, Way
<1>6. CASE Stat(p)
  <2>1. r.pc = "stat"
    BY <1>6 DEF Stat
  <2>2. \A l : Has(p, "parents") => Way(p, Into(r, l))
    BY <1>s, <1>w, <2>1 DEF Way, OnWay, LocShape, Into
  <2> QED BY <1>s, <1>w, <1>g, <1>e, <1>f, <1>n, <2>1, <2>2, <1>6 DEF Stat, Way
<1>7. CASE MkDirAgain(p)
  <2>1. r.pc = "again"
    BY <1>7 DEF MkDirAgain
  <2>2. \A l : Way(p, Into(r, l))
    BY <1>s, <1>w, <2>1 DEF Way, OnWay, LocShape, Into
  <2>3. \A b : LocShape([r EXCEPT !.missed = b])
    BY <1>s, <1>w, <2>1 DEF Way, OnWay, LocShape
  <2> QED BY <1>s, <1>w, <1>g, <1>e, <1>f, <1>n, <2>1, <2>2, <2>3, <1>7 DEF MkDirAgain, Way
<1>8. CASE RemoveOperand(p)
  <2>1. r.pc = "remove"
    BY <1>8 DEF RemoveOperand
  <2>2. \A l, b : Way(p, [r EXCEPT !.file = l, !.pc = IF b THEN "list" ELSE "unlink"])
    BY <1>s, <1>w, <2>1 DEF Way, OnWay, LocShape
  <2> QED BY <1>s, <1>w, <1>g, <1>e, <1>f, <1>n, <2>1, <2>2, <1>8 DEF RemoveOperand, Way
<1>9. CASE ListChildren(p)
  <2>1. r.pc = "list"
    BY <1>9 DEF ListChildren
  <2>2. Way(p, [r EXCEPT !.pc = "unlink"])
    BY <1>s, <1>w, <2>1 DEF Way, OnWay, LocShape
  <2> QED BY <1>s, <1>w, <1>g, <1>e, <1>f, <1>n, <2>1, <2>2, <1>9 DEF ListChildren, Way
<1>10. CASE Unlink(p)
  <2>1. r.pc = "unlink"
    BY <1>10 DEF Unlink
  <2>2. ~Plain(p) => Way(p, [r EXCEPT !.pc = r.back])
    BY <1>s, <1>w, <2>1 DEF Way, OnWay, LocShape
  <2>3. Plain(p) => r.back = "done"
    BY <1>s, <1>w, <2>1 DEF Way, OnWay, LocShape, Ops
  <2> QED BY <1>s, <1>w, <1>g, <1>e, <1>f, <1>n, <2>1, <2>2, <2>3, <1>10 DEF Unlink, Way, After
<1>11. CASE MvSource(p)
  <2>1. r.pc = "mvdst"
    BY <1>11 DEF MvSource
  <2>2. \A x : Way(p, WalkTo([r EXCEPT !.src = x], Last(cmd[p].args), "mvto"))
    BY <1>s, <1>w, <2>1 DEF Way, OnWay, LocShape, WalkTo
  <2> QED BY <1>s, <1>w, <1>g, <1>e, <1>f, <1>n, <2>1, <2>2, <1>11 DEF MvSource, Way
<1>12. CASE MvTarget(p)
  <2>1. r.pc = "mvto"
    BY <1>12 DEF MvTarget
  <2>2. \A x : Way(p, [r EXCEPT !.pc = "move", !.name = x])
    BY <1>s, <1>w, <2>1 DEF Way, OnWay, LocShape
  <2>3. \A x, y : Way(p, WalkTo([r EXCEPT !.name = x], y, "mvparent"))
    BY <1>s, <1>w, <2>1 DEF Way, OnWay, LocShape, WalkTo
  <2> QED BY <1>s, <1>w, <1>g, <1>e, <1>f, <1>n, <2>1, <2>2, <2>3, <1>12 DEF MvTarget, Way
<1>13. CASE MvParent(p)
  <2>1. r.pc = "mvparent"
    BY <1>13 DEF MvParent
  <2>2. Way(p, [r EXCEPT !.pc = "move"])
    BY <1>s, <1>w, <2>1 DEF Way, OnWay, LocShape
  <2> QED BY <1>s, <1>w, <1>g, <1>e, <1>f, <1>n, <2>1, <2>2, <1>13 DEF MvParent, Way
<1>14. CASE Move(p)
  <2> QED BY <1>s, <1>w, <1>g, <1>e, <1>f, <1>n, <1>14 DEF Move, Way
<1>15. CASE CpDest(p)
  <2>1. r.pc = "cpdst"
    BY <1>15 DEF CpDest
  <2>2. \A y : Way(p, WalkTo(r, y, "cpparent"))
    BY <1>s, <1>w, <2>1 DEF Way, OnWay, LocShape, WalkTo
  <2>3. Way(p, [r EXCEPT !.pc = "create", !.name = SrcName])
    BY <1>s, <1>w, <2>1 DEF Way, OnWay, LocShape
  <2>4. \A l : ~Plain(p) => Way(p, Purge(r, l, {}, "dstfile"))
    BY <1>s, <1>w, <2>1 DEF Way, OnWay, LocShape, Purge
  <2>5. \A l : ~Plain(p) => Way(p, [r EXCEPT !.pc = "dstfile", !.file = l])
    BY <1>s, <1>w, <2>1 DEF Way, OnWay, LocShape
  <2>6. Plain(p) => op = "cp" /\ ~Has(p, "force") /\ ~Has(p, "removeDest")
    BY <1>s, <1>w, <2>1 DEF Way, OnWay, LocShape, Plain, Forced, Ops
  <2> QED BY <1>s, <1>w, <1>g, <1>e, <1>f, <1>n, <2>1, <2>2, <2>3, <2>4, <2>5, <2>6, <1>15
             DEF CpDest, Way
<1>16. CASE CpParent(p)
  <2>1. r.pc = "cpparent"
    BY <1>16 DEF CpParent
  <2>2. Way(p, [r EXCEPT !.pc = "create"])
    BY <1>s, <1>w, <2>1 DEF Way, OnWay, LocShape
  <2> QED BY <1>s, <1>w, <1>g, <1>e, <1>f, <1>n, <2>1, <2>2, <1>16 DEF CpParent, Way
<1>17. CASE CpDestFile(p)
  <2>1. r.pc = "dstfile"
    BY <1>17 DEF CpDestFile
  <2>2. ~Plain(p)
    BY <1>s, <1>w, <2>1 DEF Way, OnWay, LocShape, Ops
  <2>3. \A x : Way(p, [[r EXCEPT !.at = x] EXCEPT !.pc = "revise", !.via = "file"])
    BY <1>s, <1>w, <2>1 DEF Way, OnWay, LocShape
  <2>4. \A x, l : Way(p, Recreate(p, [r EXCEPT !.at = x], l))
    BY <1>s, <1>w, <2>1 DEF Way, OnWay, LocShape, Recreate, Purge
  <2> QED BY <1>s, <1>w, <1>g, <1>e, <1>f, <1>n, <2>1, <2>2, <2>3, <2>4, <1>17
             DEF CpDestFile, Way
<1>18. CASE CreateFile(p)
  <2>1. r.pc = "create"
    BY <1>18 DEF CreateFile
  <2>2. ~Plain(p) => \A b : Way(p, [r EXCEPT !.pc = IF b THEN "draftexist" ELSE "exists"])
    BY <1>s, <1>w, <2>1 DEF Way, OnWay, LocShape
  <2>3. \A l \in Id : Way(p, [r EXCEPT !.pc = "upload", !.file = l])
    BY <1>s, <1>w, <2>1 DEF Way, OnWay, LocShape
  <2>4. Plain(p) => op = "ln" \/ ~Forced(p)
    BY <1>s, <1>w, <2>1 DEF Way, OnWay, LocShape, Plain, Ops
  <2> QED BY <1>s, <1>w, <1>g, <1>e, <1>f, <1>n, <2>1, <2>2, <2>3, <2>4, <1>18
             DEF CreateFile, Way
<1>19. CASE Blocker(p)
  <2>1. r.pc \in {"exists", "draftexist"}
    BY <1>19 DEF Blocker
  <2>2. ~Plain(p)
    BY <1>s, <1>w, <2>1 DEF Way, OnWay, LocShape, Ops
  <2>3. \A l : Way(p, Purge(Retry(r), l, {"permanent"}, "create"))
    BY <1>s, <1>w, <2>1 DEF Way, OnWay, LocShape, Purge, Retry
  <2>4. \A l : Way(p, [r EXCEPT !.pc = "revise", !.via = "blocker", !.file = l])
    BY <1>s, <1>w, <2>1 DEF Way, OnWay, LocShape
  <2>5. \A b : Way(p, [Retry(r) EXCEPT !.pc = "create",
                     !.missed = Retry(r).missed \/ b])
    BY <1>s, <1>w, <2>1 DEF Way, OnWay, LocShape, Retry
  <2> QED BY <1>s, <1>w, <1>g, <1>e, <1>f, <1>n, <2>1, <2>2, <2>3, <2>4, <2>5, <1>19
             DEF Blocker, Way
<1>20. CASE CreateRevision(p)
  <2>1. r.pc = "revise"
    BY <1>20 DEF CreateRevision
  <2>2. ~Plain(p) => Way(p, Recreate(p, [r EXCEPT !.last = FALSE], r.file))
    BY <1>s, <1>w, <2>1 DEF Way, OnWay, LocShape, Recreate, Purge
  <2>3. Plain(p) => r.via = ""
    BY <1>s, <1>w, <2>1 DEF Way, OnWay, LocShape, Ops, IInv, OnTrack, ChmodTarget
  <2>4. Way(p, [r EXCEPT !.pc = "upload"])
    BY <1>s, <1>w, <2>1 DEF Way, OnWay, LocShape
  <2>5. Way(p, [r EXCEPT !.pc = "stale"])
    BY <1>s, <1>w, <2>1 DEF Way, OnWay, LocShape
  <2> QED BY <1>s, <1>w, <1>g, <1>e, <1>f, <1>n, <2>1, <2>2, <2>3, <2>4, <2>5, <1>20
             DEF CreateRevision, Way, OverwriteFails
<1>21. CASE ListRevisions(p)
  <2>1. r.pc = "stale"
    BY <1>21 DEF ListRevisions
  <2>2. ~Plain(p) => Way(p, Recreate(p, [r EXCEPT !.last = FALSE], r.file))
    BY <1>s, <1>w, <2>1 DEF Way, OnWay, LocShape, Recreate, Purge
  <2>3. Plain(p) => r.via = ""
    BY <1>s, <1>w, <2>1 DEF Way, OnWay, LocShape, Ops, IInv, OnTrack, ChmodTarget
  <2>4. \A x : Way(p, [r EXCEPT !.pc = "drop", !.owner = x])
    BY <1>s, <1>w, <2>1 DEF Way, OnWay, LocShape
  <2> QED BY <1>s, <1>w, <1>g, <1>e, <1>f, <1>n, <2>1, <2>2, <2>3, <2>4, <1>21
             DEF ListRevisions, Way, OverwriteFails
<1>22. CASE DeleteRevision(p)
  <2>1. r.pc = "drop"
    BY <1>22 DEF DeleteRevision
  <2>2. ~Plain(p) => Way(p, Recreate(p, [r EXCEPT !.last = FALSE], r.file))
    BY <1>s, <1>w, <2>1 DEF Way, OnWay, LocShape, Recreate, Purge
  <2>3. Plain(p) => r.via = ""
    BY <1>s, <1>w, <2>1 DEF Way, OnWay, LocShape, Ops, IInv, OnTrack, ChmodTarget
  <2>4. Way(p, [Retry(r) EXCEPT !.pc = "revise"])
    BY <1>s, <1>w, <2>1 DEF Way, OnWay, LocShape, Retry
  <2> QED BY <1>s, <1>w, <1>g, <1>e, <1>f, <1>n, <2>1, <2>2, <2>3, <2>4, <1>22
             DEF DeleteRevision, Way, OverwriteFails
<1>23. CASE Upload(p)
  <2>1. r.pc = "upload"
    BY <1>23 DEF Upload
  <2>2. Way(p, [r EXCEPT !.pc = "commit"])
    BY <1>s, <1>w, <2>1 DEF Way, OnWay, LocShape
  <2> QED BY <1>s, <1>w, <1>g, <1>e, <1>f, <1>n, <2>1, <2>2, <1>23 DEF Upload, Way
<1>24. CASE Commit(p)
  <2>1. r.pc = "commit"
    BY <1>24 DEF Commit
  <2>2. op = "ln" => Way(p, [r EXCEPT !.pc = "stat"])
    BY <1>s, <1>w, <2>1 DEF Way, OnWay, LocShape
  <2> QED BY <1>s, <1>w, <1>g, <1>e, <1>f, <1>n, <2>1, <2>2, <1>24 DEF Commit, Way
<1>25. CASE Read(p)
  <2>1. r.pc = "read"
    BY <1>25 DEF Read
  <2>2. \A x, y : Way(p, [r EXCEPT !.pc = "revise", !.file = x, !.data = y])
    BY <1>s, <1>w, <2>1 DEF Way, OnWay, LocShape
  <2> QED BY <1>s, <1>w, <1>g, <1>e, <1>f, <1>n, <2>1, <2>2, <1>25 DEF Read, Way
<1>26. CASE RequestFails(p)
  <2> QED BY <1>s, <1>w, <1>g, <1>e, <1>f, <1>n, <1>26 DEF RequestFails, Way
<1>27. CASE Die(p)
  <2> QED BY <1>s, <1>w, <1>g, <1>e, <1>f, <1>n, <1>27 DEF Die, Way
<1> QED BY <1>1, <1>2, <1>3, <1>4, <1>5, <1>6, <1>7, <1>8, <1>9, <1>10, <1>11, <1>12, <1>13,
           <1>14, <1>15, <1>16, <1>17, <1>18, <1>19, <1>20, <1>21, <1>22, <1>23, <1>24, <1>25,
           <1>26, <1>27 DEF Step

(* The step of a chmod keeps what its descriptor writes to.                *)
ChmodWay(p, r) ==
  /\ LocShape(r) /\ r.at \in Id \cup {Root, None} /\ r.via = ""
  /\ r.pc \in {"revise", "stale", "drop", "upload", "commit"} => r.file \in Id /\ r.data # None

(* A Lookup finds a link or nothing, and caches the IDs of links.          *)
LEMMA ListedType ==
  ASSUME NEW p \in Proc, DOMAIN listed = Proc, NEW f \in Id \cup {Root},
         listed[p] \in [Id \cup {Root} -> (SUBSET Id) \cup {None}], NEW n,
         NEW o \in Lookups(p, f, n)
  PROVE  o.found \in Id \cup {None} /\ o.ids \in (SUBSET Id) \cup {None}
<1>1. Children(f) \in SUBSET Id
  BY DEF Children
<1>2. listed[p][f] \in (SUBSET Id) \cup {None}
  OBVIOUS
<1>3. ASSUME NEW sn, NEW S \in SUBSET Id PROVE Matches(sn, S, n) \subseteq Id
  BY DEF Matches
<1> DEFINE ids == listed[p][f]
           all == Enter(seen[p], Children(f))
           found == Matches(all, Children(f), n)
           M == Matches(seen[p], ids, n)
           none == IF Children(f) = {} THEN None ELSE Children(f)
<1>4. CASE ids # None
  <2>1. \E l \in (IF M = {} THEN {None} ELSE M) : o = [found |-> l, seen |-> seen[p], ids |-> ids]
    BY <1>4 DEF Lookups
  <2>2. M \subseteq Id
    BY <1>2, <1>3, <1>4
  <2> QED BY <1>2, <2>1, <2>2
<1>5. CASE ids = None /\ found = {}
  <2>1. o = [found |-> None, seen |-> all, ids |-> none]
    BY <1>5 DEF Lookups
  <2> QED BY <1>1, <2>1
<1>6. CASE ids = None /\ found # {}
  <2>1. \E l \in found : \E S \in SUBSET Children(f) :
           o = [found |-> l, seen |-> Enter(seen[p], S \cup {l}), ids |-> Children(f)]
    BY <1>6 DEF Lookups
  <2>2. found \subseteq Id
    BY <1>1, <1>3
  <2> QED BY <1>1, <2>1, <2>2
<1> QED BY <1>4, <1>5, <1>6

LEMMA ChmodStep ==
  ASSUME IInv, NEW p \in Proc, Step(p), cmd[p].op = "chmod"
  PROVE  ChmodTarget(p)'
<1> DEFINE r == loc[p]
           T == [Id \cup {Root} -> (SUBSET Id) \cup {None}]
<1>s. Shapes /\ cmd' = cmd /\ Moved(p)
  BY StepFrame, StepMoves DEF IInv
<1>w. ChmodWay(p, r) /\ listed[p] \in T /\ Track(p)
  BY <1>s DEF IInv, OnTrack, Shapes, Plain, ChmodTarget, ChmodWay
<1>g. ASSUME NEW x, ChmodWay(p, x), Go(p, x), listed'[p] \in T PROVE ChmodTarget(p)'
  <2>1. loc'[p] = x
    BY <1>s, <1>g, SetLoc DEF Go
  <2> QED BY <1>g, <2>1 DEF ChmodTarget, ChmodWay
<1>f. ASSUME Fail(p) \/ Exit(p, r, "none"), listed' = listed PROVE ChmodTarget(p)'
  <2>1. loc'[p] = [r EXCEPT !.pc = "done"]
    BY <1>s, <1>w, <1>f, ExitLoc DEF Fail, ChmodWay
  <2> QED BY <1>f, <1>w, <2>1 DEF ChmodTarget, ChmodWay, LocShape
<1>1. CASE Begin(p)
  <2>1. \A x : ChmodWay(p, WalkTo([r EXCEPT !.name = Last(Path(p)), !.missed = FALSE], x, "read"))
    BY <1>w DEF ChmodWay, LocShape, WalkTo
  <2> QED BY <1>w, <1>g, <1>1, <2>1 DEF Begin, Caches
<1>2. CASE Walk(p)
  <2>1. r.pc = "walk" /\ r.then = "read"
    BY <1>w, <1>2 DEF Walk, Track, OnWay
  <2>2. \A x \in Id \cup {None}, y \in {"walk", "read"} :
          ChmodWay(p, [r EXCEPT !.at = x, !.pc = y])
    BY <1>w DEF ChmodWay, LocShape
  <2>3. ASSUME NEW x \in Id \cup {None}, NEW b, NEW y \in {"walk", "read"}
        PROVE  ChmodWay(p, [r EXCEPT !.at = x, !.rest = Tail(r.rest), !.missed = r.missed \/ b,
                              !.pc = y])
    BY <1>w DEF ChmodWay, LocShape
  <2>4. ASSUME NEW n, NEW o \in Lookups(p, r.at, n), IsFolder(r.at), Remember(p, o, r.at)
        PROVE  o.found \in Id \cup {None} /\ listed'[p] \in T
    <3>1. r.at \in Id \cup {Root}
      BY <1>w, <2>4 DEF ChmodWay, IsFolder
    <3>2. o.found \in Id \cup {None} /\ o.ids \in (SUBSET Id) \cup {None}
      BY <1>s, <1>w, <3>1, ListedType DEF Shapes
    <3> QED BY <1>s, <1>w, <2>4, <3>1, <3>2 DEF Remember, Shapes
  <2>5. CASE ~IsFolder(r.at)
    <3>1. Go(p, [r EXCEPT !.at = None, !.pc = r.then]) /\ Caches
      BY <1>2, <2>5 DEF Walk
    <3> QED BY <1>w, <1>g, <2>1, <2>2, <3>1 DEF Caches
  <2>6. CASE IsFolder(r.at)
    <3>1. PICK o \in Lookups(p, r.at, Head(r.rest)) :
            /\ Remember(p, o, r.at)
            /\ \E b, y : /\ y \in {"walk", "read"}
                         /\ Go(p, [r EXCEPT !.at = o.found, !.rest = Tail(r.rest),
                                     !.missed = r.missed \/ b, !.pc = y])
      BY <1>2, <2>1, <2>6 DEF Walk
    <3> QED BY <1>g, <2>3, <2>4, <2>6, <3>1
  <2> QED BY <2>5, <2>6
<1>3. CASE CreateRevision(p)
  <2>1. r.pc = "revise" => /\ ChmodWay(p, [r EXCEPT !.pc = "upload"])
                           /\ ChmodWay(p, [r EXCEPT !.pc = "stale"])
    BY <1>w DEF ChmodWay, LocShape
  <2>2. OverwriteFails(p) => Fail(p)
    BY <1>w DEF OverwriteFails, ChmodWay
  <2> QED BY <1>w, <1>g, <1>f, <1>3, <2>1, <2>2 DEF CreateRevision, Caches
<1>4. CASE ListRevisions(p)
  <2>1. r.pc = "stale" => \A x : ChmodWay(p, [r EXCEPT !.pc = "drop", !.owner = x])
    BY <1>w DEF ChmodWay, LocShape
  <2>2. OverwriteFails(p) => Fail(p)
    BY <1>w DEF OverwriteFails, ChmodWay
  <2> QED BY <1>w, <1>g, <1>f, <1>4, <2>1, <2>2 DEF ListRevisions, Caches
<1>5. CASE DeleteRevision(p)
  <2>1. r.pc = "drop" => ChmodWay(p, [Retry(r) EXCEPT !.pc = "revise"])
    BY <1>w DEF ChmodWay, LocShape, Retry
  <2>2. OverwriteFails(p) => Fail(p)
    BY <1>w DEF OverwriteFails, ChmodWay
  <2> QED BY <1>w, <1>g, <1>f, <1>5, <2>1, <2>2 DEF DeleteRevision, Caches
<1>6. CASE Upload(p)
  <2>1. r.pc = "upload" => ChmodWay(p, [r EXCEPT !.pc = "commit"])
    BY <1>w DEF ChmodWay, LocShape
  <2> QED BY <1>w, <1>g, <1>f, <1>6, <2>1 DEF Upload, Caches
<1>7. CASE Commit(p)
  <2>1. CASE ~Mine(p)
    BY <1>f, <1>7, <2>1 DEF Commit, Caches
  <2>2. CASE Mine(p)
    <3>1. Finished(p, r) /\ \E L : Forget(p, L)
      BY <1>7, <2>2 DEF Commit
    <3>2. loc'[p].pc \in {"done", "start"} /\ loc'[p].at = r.at /\ loc'[p].via = r.via
      BY <1>s, <1>w, <3>1, FinishLoc DEF ChmodWay
    <3>3. listed'[p] \in T
      BY <1>s, <1>w, <3>1 DEF Forget, Shapes
    <3> QED BY <1>w, <3>2, <3>3 DEF ChmodTarget, ChmodWay
  <2> QED BY <2>1, <2>2
<1>8. CASE Read(p)
  <2>1. \A x \in Id : \A y : y # None =>
          ChmodWay(p, [r EXCEPT !.pc = "revise", !.file = x, !.data = y])
    BY <1>w DEF ChmodWay, LocShape
  <2> QED BY <1>w, <1>g, <1>f, <1>8, <2>1 DEF Read, Caches, ChmodWay
<1>9. CASE RequestFails(p)
  BY <1>f, <1>9 DEF RequestFails, Caches
<1>10. CASE Die(p)
  BY <1>f, <1>10 DEF Die, Caches
<1>11. ~(\/ EmptyTrash(p) \/ MkDirAll(p) \/ MkDir(p) \/ Stat(p) \/ MkDirAgain(p)
         \/ RemoveOperand(p) \/ ListChildren(p) \/ Unlink(p) \/ MvSource(p) \/ MvTarget(p)
         \/ MvParent(p) \/ Move(p) \/ CpDest(p) \/ CpParent(p) \/ CpDestFile(p)
         \/ CreateFile(p) \/ Blocker(p))
  BY <1>w DEF Track, OnWay, EmptyTrash, MkDirAll, MkDir, Stat, MkDirAgain, RemoveOperand,
         ListChildren, Unlink, MvSource, MvTarget, MvParent, Move, CpDest, CpParent, CpDestFile,
         CreateFile, Blocker
<1> QED BY <1>1, <1>2, <1>3, <1>4, <1>5, <1>6, <1>7, <1>8, <1>9, <1>10, <1>11 DEF Step

-----------------------------------------------------------------------------
(* The links. Eight steps write to them.                                   *)
LEMMA Writers ==
  ASSUME NEW p \in Proc, Step(p)
  PROVE  \/ link' = link /\ made' = made
         \/ EmptyTrash(p) \/ MkDir(p) \/ Unlink(p) \/ Move(p) \/ CreateFile(p)
         \/ CreateRevision(p) \/ DeleteRevision(p) \/ Commit(p)
BY DEF Step, Quiet, Begin, Walk, MkDirAll, Stat, MkDirAgain, RemoveOperand, ListChildren,
         MvSource, MvTarget, MvParent, CpDest, CpParent, CpDestFile, Blocker, ListRevisions,
         Upload, Read, RequestFails, Die

(* What a step does to the links, in words: they keep their shape, one     *)
(* that was used is not unused again and has the maker it had, and one     *)
(* that is not used holds nothing.                                         *)
LinksGrow ==
  /\ DOMAIN link' = Id
  /\ \A l \in Id :
       /\ LinkShape(link'[l])
       /\ link[l].state # "none" => link'[l].state # "none" /\ link'[l].maker = link[l].maker
       /\ link'[l].state = "none" => link'[l].rev = None /\ link'[l].kept = {}

LEMMA StepLinks ==
  ASSUME IInv, NEW p \in Proc, Step(p)
  PROVE  LinksGrow
<1>s. Shapes /\ Unused
  BY DEF IInv
<1>0. link' = link => LinksGrow
  BY <1>s DEF Shapes, Unused, LinksGrow
<1>1. CASE EmptyTrash(p)
  BY <1>s, <1>1 DEF EmptyTrash, Shapes, Unused, LinksGrow, LinkShape
<1>c. ASSUME NEW l \in Fresh, NEW kind, NEW f, NEW n, Create(p, l, kind, f, n) PROVE LinksGrow
  BY <1>s, <1>c DEF Create, Fresh, Shapes, Unused, LinksGrow, LinkShape, NoLink
<1>2. CASE MkDir(p)
  BY <1>0, <1>c, <1>2 DEF MkDir, NewId, Quiet
<1>3. CASE Unlink(p)
  BY <1>0, <1>s, <1>3
     DEF Unlink, Quiet, Removed, Trashed, Deleted, Shapes, Unused, LinksGrow, LinkShape
<1>4. CASE Move(p)
  BY <1>0, <1>s, <1>4 DEF Move, Quiet, Shapes, Unused, LinksGrow, LinkShape
<1>5. CASE CreateFile(p)
  BY <1>0, <1>c, <1>5 DEF CreateFile, NewId, Quiet
<1>6. CASE CreateRevision(p)
  BY <1>0, <1>s, <1>6 DEF CreateRevision, Shapes, Unused, LinksGrow, LinkShape
<1>7. CASE DeleteRevision(p)
  BY <1>0, <1>s, <1>7 DEF DeleteRevision, Shapes, Unused, LinksGrow, LinkShape
<1>8. CASE Commit(p)
  BY <1>0, <1>s, <1>8 DEF Commit, Quiet, Shapes, Unused, LinksGrow, LinkShape
<1> QED BY <1>0, <1>1, <1>2, <1>3, <1>4, <1>5, <1>6, <1>7, <1>8, Writers

(* A program that only adds leaves what others made.                       *)
LEMMA AddsOnly ==
  ASSUME IInv, NEW p \in Proc, Step(p), Additive(p), NEW l \in Id,
         link[l].state # "none", link[l].maker # p
  PROVE  link'[l] = link[l]
<1>1. Shapes /\ Track(p) /\ cmd[p].op \in {"mkdir", "ln", "cp"}
  BY PlainCommands DEF IInv, OnTrack, Shapes
<1>2. ~(EmptyTrash(p) \/ Unlink(p) \/ Move(p) \/ CreateRevision(p) \/ DeleteRevision(p))
  BY <1>1 DEF Track, OnWay, EmptyTrash, Unlink, Move, CreateRevision, DeleteRevision
<1>c. ASSUME NEW k \in Fresh, NEW kind, NEW f, NEW n, Create(p, k, kind, f, n)
      PROVE  link'[l] = link[l]
  BY <1>1, <1>c DEF Create, Fresh, Shapes
<1>3. CASE MkDir(p)
  BY <1>c, <1>3 DEF MkDir, NewId, Quiet
<1>4. CASE CreateFile(p)
  BY <1>c, <1>4 DEF CreateFile, NewId, Quiet
<1>5. CASE Commit(p)
  <2>1. loc[p].pc = "commit"
    BY <1>5 DEF Commit
  <2>2. link[loc[p].file].maker = p
    BY <2>1 DEF IInv, OwnDraft
  <2> QED BY <1>1, <1>5, <2>2 DEF Commit, Quiet, Shapes
<1> QED BY <1>2, <1>3, <1>4, <1>5, Writers

(* The draft a program that only adds writes to is one it made.            *)
LEMMA OwnDraftStep ==
  ASSUME IInv, NEW p \in Proc, Step(p)
  PROVE  OwnDraft'
<1>s. Shapes /\ Moved(p) /\ LinksGrow /\ cmd' = cmd
  BY StepMoves, StepLinks, StepFrame DEF IInv
<1> SUFFICES ASSUME NEW q \in Proc, Additive(q), loc'[q].pc \in {"upload", "commit"}
             PROVE  link'[loc'[q].file].maker = q /\ link'[loc'[q].file].state # "none"
  BY <1>s DEF OwnDraft, Additive
<1>q. Plain(q) /\ cmd[q].op \in {"mkdir", "ln", "cp"} /\ Track(q)
  BY <1>s, PlainCommands DEF IInv, OnTrack, Shapes
<1>k. loc[q].pc \in {"upload", "commit"} =>
        /\ loc[q].file \in Id
        /\ link'[loc[q].file].maker = q /\ link'[loc[q].file].state # "none"
  BY <1>s, <1>q DEF IInv, OwnDraft, LinksGrow, Track, OnWay
<1>1. CASE q # p
  BY <1>s, <1>k, <1>1 DEF Moved
<1>2. CASE q = p
  <2>g. ASSUME NEW x, Go(p, x) PROVE loc'[p] = x
    BY <1>s, <2>g, SetLoc DEF Go
  <2>n. ASSUME NEW x, LocShape(x), Finished(p, x) PROVE loc'[p].pc \in {"done", "start"}
    BY <1>s, <2>n, FinishLoc
  <2>f. \A status : ~Exit(p, loc[p], status)
    BY <1>s, <1>2, ExitLoc DEF Shapes
  <2>1. CASE CreateFile(p)
    <3>1. PICK l \in Fresh : /\ \E f, n : Create(p, l, "file", f, n)
                             /\ Go(p, [loc[p] EXCEPT !.pc = "upload", !.file = l])
      <4>1. loc[p].pc = "create"
        BY <2>1 DEF CreateFile
      <4>2. ~Fail(p) /\ (cmd[p].op = "ln" \/ ~Forced(p))
        BY <1>q, <1>2, <2>f, <4>1 DEF Fail, Plain, Track, OnWay
      <4> QED BY <2>1, <4>2 DEF CreateFile, NewId
    <3>2. loc'[p].file = l
      BY <1>s, <2>g, <3>1 DEF Shapes, LocShape
    <3>3. link'[l].maker = p /\ link'[l].state = "draft"
      BY <1>s, <3>1 DEF Create, Fresh, Shapes, NoLink
    <3> QED BY <1>2, <3>2, <3>3
  <2>2. CASE Upload(p)
    <3>1. loc[p].pc = "upload" /\ loc'[p].file = loc[p].file
      BY <1>s, <2>g, <2>2, <2>f DEF Upload, Fail, Shapes, LocShape
    <3> QED BY <1>2, <1>k, <3>1
  <2> DEFINE r == loc[p]
             Off(x) == LocShape(x) => x.pc \notin {"upload", "commit"}
  <2>s. LocShape(r) /\ LocShape(loc'[p]) /\ OnWay(p, r)
    BY <1>s, <1>q, <1>2 DEF Shapes, Moved, Track
  <2>o. \A x : Go(p, x) => ~Off(x)
    BY <1>2, <2>g, <2>s
  <2>x. ~Fail(p) /\ \A x, status : LocShape(x) => ~Finished(p, x) /\ ~Exit(p, x, status)
    BY <1>s, <1>2, <2>f, <2>n, ExitLoc DEF Fail
  <2>3. ~Begin(p)
    <3> DEFINE b == [r EXCEPT !.name = Last(Path(p)), !.missed = FALSE]
    <3>1. \A x, y : /\ Off(WalkTo(b, x, "mkdir"))
                    /\ Off(WalkTo([b EXCEPT !.data = p], x, "create"))
                    /\ Off(WalkTo([b EXCEPT !.data = p], x, "cpdst"))
                    /\ Off([b EXCEPT !.pc = "mkdirs", !.at = Root, !.rest = x])
      BY <2>s DEF LocShape, WalkTo
    <3> QED BY <1>q, <1>2, <2>o, <3>1 DEF Begin
  <2>4. ~Walk(p)
    <3>1. r.pc = "walk" => r.then \in {"mkdir", "create", "cpdst", "cpparent"}
      BY <1>q, <1>2, <2>s DEF OnWay
    <3>2. \A x, y, z : r.pc = "walk" =>
            /\ Off([r EXCEPT !.at = None, !.pc = r.then])
            /\ Off([r EXCEPT !.at = x, !.rest = y, !.missed = z, !.pc = r.then])
            /\ Off([r EXCEPT !.at = x, !.rest = y, !.missed = z, !.pc = "walk"])
      BY <2>s, <3>1 DEF LocShape
    <3> QED BY <2>o, <3>2 DEF Walk
  <2>5. \A l : Off(Into(r, l))
    BY <2>s DEF LocShape, Into
  <2>6. ~MkDirAll(p)
    <3>1. \A x, y : Off([r EXCEPT !.pc = "mkdir", !.name = x, !.missed = y])
      BY <2>s DEF LocShape
    <3> QED BY <2>o, <2>x, <2>s, <2>5, <3>1 DEF MkDirAll
  <2>7. ~MkDir(p)
    <3>1. \A l : Off([r EXCEPT !.pc = "again"]) /\ Off([r EXCEPT !.pc = "stat", !.file = l])
      BY <2>s DEF LocShape
    <3> QED BY <2>o, <2>x, <3>1 DEF MkDir
  <2>8. ~Stat(p)
    BY <2>o, <2>x, <2>s, <2>5 DEF Stat
  <2>9. ~MkDirAgain(p)
    <3>1. \A x : LocShape([r EXCEPT !.missed = x])
      BY <2>s DEF LocShape
    <3> QED BY <2>o, <2>x, <2>5, <3>1 DEF MkDirAgain
  <2>10. ~CpDest(p)
    <3>1. \A x : Off(WalkTo(r, x, "cpparent")) /\ Off([r EXCEPT !.pc = "create", !.name = SrcName])
      BY <2>s DEF LocShape, WalkTo
    <3>2. CpDest(p) => cmd[p].op = "cp"
      BY <1>q, <1>2, <2>s DEF CpDest, OnWay
    <3>3. cmd[p].op = "cp" => ~Has(p, "removeDest") /\ ~Has(p, "force")
      BY <1>q, <1>2 DEF Plain, Forced
    <3> QED BY <2>o, <2>x, <3>1, <3>2, <3>3 DEF CpDest
  <2>11. ~CpParent(p)
    <3>1. Off([r EXCEPT !.pc = "create"])
      BY <2>s DEF LocShape
    <3> QED BY <2>o, <2>x, <3>1 DEF CpParent
  <2>12. ~Commit(p)
    <3>1. Off([r EXCEPT !.pc = "stat"])
      BY <2>s DEF LocShape
    <3> QED BY <2>o, <2>x, <2>s, <3>1 DEF Commit
  <2>13. ~(RequestFails(p) \/ Die(p))
    BY <2>x, <2>f DEF RequestFails, Die
  <2>14. ~(\/ EmptyTrash(p) \/ RemoveOperand(p) \/ ListChildren(p) \/ Unlink(p) \/ MvSource(p)
           \/ MvTarget(p) \/ MvParent(p) \/ Move(p) \/ CpDestFile(p) \/ Blocker(p)
           \/ CreateRevision(p) \/ ListRevisions(p) \/ DeleteRevision(p) \/ Read(p))
    BY <1>q, <1>2, <2>s
       DEF OnWay, EmptyTrash, RemoveOperand, ListChildren, Unlink, MvSource, MvTarget, MvParent,
           Move, CpDestFile, Blocker, CreateRevision, ListRevisions, DeleteRevision, Read
  <2> QED BY <2>1, <2>2, <2>3, <2>4, <2>6, <2>7, <2>8, <2>9, <2>10, <2>11, <2>12, <2>13, <2>14
          DEF Step
<1> QED BY <1>1, <1>2

(* Without a destructive command nothing a link holds goes.                *)
LinksHold ==
  \A l \in Id :
    /\ link[l].state # "deleted" => link'[l].state # "deleted"
    /\ \A c : c # None /\ c \in {link[l].rev} \cup link[l].kept =>
         c \in {link'[l].rev} \cup link'[l].kept

LEMMA KeepingStep ==
  ASSUME IInv, NEW p \in Proc, Step(p)
  PROVE  Keeping'
<1>s. Shapes /\ Unused /\ cmd' = cmd
  BY StepFrame DEF IInv
<1> SUFFICES ASSUME \A q \in Proc : ~Destructive(q) PROVE Keeping'
  BY <1>s DEF Keeping, Destructive, Forced, Has
<1>p. /\ cmd[p].op # "empty" /\ ~Has(p, "permanent") /\ Track(p)
      /\ cmd[p].op = "chmod" => ChmodTarget(p)
  BY PlainCommands, <1>s DEF IInv, OnTrack, Shapes
<1>k. /\ \A l \in Id : link[l].state # "deleted"
      /\ \A c \in made : c # None /\ Recoverable(c)
  BY DEF IInv, Keeping
<1>h. ASSUME LinksHold, NEW c \in made PROVE Recoverable(c)'
  BY <1>k, <1>h DEF LinksHold, Recoverable
<1>d. LinksHold => \A l \in Id : link'[l].state # "deleted"
  BY <1>k DEF LinksHold
<1>m. LinksHold /\ made' = made => Keeping'
  BY <1>h, <1>d, <1>k DEF Keeping
<1>0. CASE link' = link /\ made' = made
  BY <1>0, <1>m DEF LinksHold
<1>1. ~EmptyTrash(p)
  BY <1>p DEF EmptyTrash
<1>c. ASSUME NEW l \in Fresh, NEW kind, NEW f, NEW n, Create(p, l, kind, f, n) PROVE LinksHold
  BY <1>s, <1>c DEF Create, Fresh, Shapes, Unused, LinksHold, LinkShape, NoLink
<1>2. CASE MkDir(p)
  BY <1>0, <1>m, <1>c, <1>2 DEF MkDir, NewId, Quiet
<1>3. CASE Unlink(p)
  <2>1. "permanent" \notin loc[p].opts
    BY <1>3, <1>p, <1>s, PlainCommands DEF Unlink, Track, OnWay, Has, Ops, Shapes
  <2>2. made' = made /\ (link' = link \/ link' = Trashed(loc[p].file))
    BY <1>3, <2>1 DEF Unlink, Removed, Quiet
  <2>3. LinksHold
    BY <1>s, <2>2 DEF Trashed, LinksHold, Shapes, LinkShape
  <2> QED BY <1>m, <2>2, <2>3
<1>4. CASE Move(p)
  <2>1. made' = made /\ LinksHold
    BY <1>s, <1>4 DEF Move, Quiet, LinksHold, Shapes, LinkShape
  <2> QED BY <1>m, <2>1
<1>5. CASE CreateFile(p)
  BY <1>0, <1>m, <1>c, <1>5 DEF CreateFile, NewId, Quiet
<1>6. CASE CreateRevision(p)
  <2>1. made' = made /\ LinksHold
    BY <1>s, <1>6 DEF CreateRevision, LinksHold, Shapes, LinkShape
  <2> QED BY <1>m, <2>1
<1>7. CASE DeleteRevision(p)
  <2>1. made' = made /\ LinksHold
    BY <1>s, <1>7 DEF DeleteRevision, LinksHold, Shapes, LinkShape
  <2> QED BY <1>m, <2>1
<1>8. CASE Commit(p)
  <2>1. CASE ~Mine(p)
    BY <1>0, <1>8, <2>1 DEF Commit, Quiet
  <2>2. CASE Mine(p)
    <3>1. loc[p].file \in Id /\ loc[p].data # None
      BY <1>p, <1>8, <1>s, PlainCommands, NoneAssumption
         DEF Commit, Track, OnWay, ChmodTarget, Shapes, Ops
    <3>2. /\ link' = [link EXCEPT ![loc[p].file].rev = loc[p].data,
                        ![loc[p].file].kept =
                          link[loc[p].file].kept \cup ({link[loc[p].file].rev} \ {None}),
                        ![loc[p].file].draft = None, ![loc[p].file].state = "active"]
          /\ made' = made \cup {loc[p].data}
      BY <1>8, <2>2 DEF Commit
    <3>3. LinksHold
      <4> DEFINE t == loc[p].file
      <4>1. /\ link'[t].state = "active" /\ link'[t].rev = loc[p].data
            /\ link'[t].kept = link[t].kept \cup ({link[t].rev} \ {None})
        BY <1>s, <3>1, <3>2 DEF Shapes, LinkShape
      <4>2. \A l \in Id \ {t} : link'[l] = link[l]
        BY <1>s, <3>2 DEF Shapes
      <4> QED BY <4>1, <4>2 DEF LinksHold
    <3>4. ASSUME NEW c, c = loc[p].data PROVE Recoverable(c)'
      <4>1. link'[loc[p].file].rev = c /\ link'[loc[p].file].state = "active"
        BY <1>s, <3>1, <3>2, <3>4 DEF Shapes, LinkShape
      <4> QED BY <3>1, <4>1 DEF Recoverable
    <3>5. \A c \in made' : c # None /\ Recoverable(c)'
      BY <1>h, <1>k, <3>1, <3>2, <3>3, <3>4
    <3> QED BY <1>d, <3>3, <3>5 DEF Keeping
  <2> QED BY <2>1, <2>2
<1> QED BY <1>0, <1>1, <1>2, <1>3, <1>4, <1>5, <1>6, <1>7, <1>8, Writers

-----------------------------------------------------------------------------
(* All of it is kept by every step.                                        *)
LEMMA Inductive == IInv /\ [Next]_vars => IInv'
<1> SUFFICES ASSUME IInv, [Next]_vars PROVE IInv'
  OBVIOUS
<1>1. CASE UNCHANGED vars
  <2>1. Shapes' /\ OwnDraft' /\ Unused'
    BY <1>1 DEF IInv, vars, Shapes, OwnDraft, Additive, Unused
  <2>2. OnTrack'
    <3> SUFFICES ASSUME NEW q \in Proc, Plain(q)
                 PROVE  Track(q)' /\ (cmd[q].op = "chmod" => ChmodTarget(q)')
      BY <1>1 DEF vars, OnTrack, Plain, Forced, Has
    <3>1. Track(q) /\ (cmd[q].op = "chmod" => ChmodTarget(q))
      BY DEF IInv, OnTrack
    <3> QED BY <1>1, <3>1 DEF vars, Track, OnWay, ChmodTarget
  <2>3. Keeping'
    BY <1>1 DEF IInv, vars, Keeping, Destructive, Forced, Has, Recoverable
  <2> QED BY <2>1, <2>2, <2>3 DEF IInv
<1>2. ASSUME NEW p \in Proc, Step(p) PROVE IInv'
  <2>1. Others(p) /\ Moved(p) /\ LinksGrow /\ OwnDraft' /\ Keeping'
    BY <1>2, StepFrame, StepMoves, StepLinks, OwnDraftStep, KeepingStep DEF IInv, Others, Moved
  <2>2. Shapes' /\ Unused'
    BY <2>1 DEF IInv, Shapes, Unused, LinksGrow, Moved, Others
  <2>3. OnTrack'
    <3> SUFFICES ASSUME NEW q \in Proc, Plain(q)
                 PROVE  Track(q)' /\ (cmd[q].op = "chmod" => ChmodTarget(q)')
      BY <2>1 DEF OnTrack, Plain, Forced, Has, Others
    <3>1. CASE q = p
      BY <1>2, <2>1, <3>1, ChmodStep DEF Moved
    <3>2. CASE q # p
      <4>1. Track(q) /\ (cmd[q].op = "chmod" => ChmodTarget(q))
        BY DEF IInv, OnTrack
      <4> QED BY <2>1, <3>2, <4>1 DEF Others, Track, OnWay, ChmodTarget
    <3> QED BY <3>1, <3>2
  <2> QED BY <2>1, <2>2, <2>3 DEF IInv
<1> QED BY <1>1, <1>2 DEF Next, Over

LEMMA Always == Spec => []IInv
<1> QED BY Initial, Inductive, PTL DEF Spec

(* For any programs and commands, any trees and faults: a copy without -f  *)
(* or --remove-destination, a mkdir and an ln leave every link as it was   *)
(* that they have not made themselves.                                     *)
THEOREM AddsNeverTake == Spec => OnlyAdds
<1>1. IInv /\ [Next]_vars =>
        [\A p \in Proc : Additive(p) /\ loc'[p] # loc[p] =>
           \A l \in Id : link[l].state # "none" /\ link[l].maker # p => link'[l] = link[l]]_vars
  <2> SUFFICES ASSUME IInv, NEW q \in Proc, Step(q), NEW p \in Proc, Additive(p),
                      loc'[p] # loc[p], NEW l \in Id, link[l].state # "none", link[l].maker # p
               PROVE  link'[l] = link[l]
    BY DEF Next, Over, vars
  <2>1. p = q
    BY StepMoves DEF Moved
  <2> QED BY <2>1, AddsOnly
<1> QED BY <1>1, Always, PTL DEF Spec, OnlyAdds

(* For any programs and commands, any trees and faults: bytes that were    *)
(* committed are in a file, an older revision or the trash, unless a       *)
(* program removes for good, empties the trash or forces a copy.           *)
THEOREM ContentKept == Spec => []NothingLostUnasked
<1>1. IInv => NothingLostUnasked
  BY DEF IInv, Keeping, NothingLostUnasked
<1> QED BY <1>1, Always, PTL
=============================================================================
