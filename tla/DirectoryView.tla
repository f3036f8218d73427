----------------------------- MODULE DirectoryView -----------------------------
(***************************************************************************)
(* What the mount remembers of one directory, and how the events of the    *)
(* volume make it forget.                                                  *)
(*                                                                         *)
(* The kernel holds one node of the directory (LinkDirNode, ShareDirNode). *)
(* The node keeps a map of its children, its Link keeps cachedChildIDs,    *)
(* and the client keeps a table of Links by ID. Listings fill the three;   *)
(* the event loop of cmd/proton-fuse, local removals and resyncs clear     *)
(* them, each through its own way of finding the directory: the table      *)
(* entry of the directory's ID, which may be another Link than the node's, *)
(* and the registry of live nodes, which may hold another node.            *)
(*                                                                         *)
(* A child is known by its link ID; its name, size and the rest are one    *)
(* version number. The module follows one node from the Lookup that made   *)
(* it to its Forget.                                                       *)
(***************************************************************************)
EXTENDS Naturals, Sequences, FiniteSets

CONSTANTS
  File,        \* the children: link IDs
  Dir,         \* the link ID of the directory itself
  Op,          \* kernel requests in flight on the node
  None,        \* no entry, no map, no list
  Remote,      \* what other clients do, see RemoteAssumption
  Local,       \* what else happens in the mount, see LocalAssumption
  MaxChanges,  \* bound: changes at the server and resyncs
  MaxLists     \* bound: listings

ASSUME ElementAssumption == Dir \notin File /\ None \notin File \cup {Dir}
ASSUME FileAssumption == IsFiniteSet(File)
ASSUME BoundAssumption == {MaxChanges, MaxLists} \subseteq Nat
(* "create", "delete", "update": a child is made, trashed, changed; "in",  *)
(* "out": a child is moved to, from the directory; "self": the directory   *)
(* itself is changed; "refresh": the server asks for a refresh, or calls    *)
(* the cursor stale.                                                       *)
ASSUME RemoteAssumption ==
  Remote \subseteq {"create", "delete", "update", "in", "out", "self", "refresh"}
(* "unlink": a child is removed through the mount; "lookup": the kernel    *)
(* looks the directory up again; "relink": another listing or a refresh of *)
(* the shares makes a new Link for it.                                     *)
ASSUME LocalAssumption == Local \subseteq {"unlink", "lookup", "relink"}

VARIABLES
  place,     \* server: where each child is
  ver,       \* server: the version of each child
  feed,      \* server: the events of the volume
  ids,       \* cachedChildIDs of the node's Link
  entry,     \* the table's Link of Dir: "own" (the node's), "other", "none"
  table,     \* the table's Link of each child, or None
  children,  \* the node's children map, or None
  reg,       \* the registry's node of Dir: "live", "other"
  cursor,    \* events[1..cursor] are behind the loop
  loop,      \* the event loop: [pc, i, end]
  op,        \* per request: where it is and what it holds
  lists,     \* listings begun
  resyncs,
  raced,     \* history: children an invalidation passed while a request ran
  moved      \* history: children that were moved out

server == <<place, ver, feed>>
caches == <<ids, entry, table, children, reg>>
vars == <<server, caches, cursor, loop, op, lists, resyncs, raced, moved>>

Place == {"unborn", "here", "elsewhere", "trashed"}
Version == 0..MaxChanges
Link == [ver : Version, by : {"here", "elsewhere"}]
ASSUME NoneAssumption == None \notin Version \cup Link
Event == [kind : {"create", "delete", "update"}, link : File \cup {Dir}, here : BOOLEAN]
Here == {f \in File : place[f] = "here"}

NoOp == [pc |-> "idle", todo |-> {}, got |-> [f \in File |-> None], sent |-> 0,
         list |-> [f \in File |-> None], base |-> {}]
Active(o) == op[o].pc # "idle"

TypeOK ==
  /\ place \in [File -> Place] /\ ver \in [File -> Version]
  /\ feed \in Seq(Event) /\ Len(feed) <= MaxChanges
  /\ ids \in (SUBSET File) \cup {None}
  /\ entry \in {"own", "other", "none"} /\ reg \in {"live", "other"}
  /\ table \in [File -> Link \cup {None}]
  /\ children \in [File -> Link \cup {None}] \cup {None}
  /\ cursor \in 0..Len(feed)
  /\ loop \in [pc : {"idle", "drop", "clear", "hook", "clearLinks", "all", "anchor"},
               i : 0..Len(feed), end : 0..Len(feed)]
  /\ op \in [Op -> [pc : {"idle", "resolve", "ask", "store", "build", "trash", "child",
                          "parent", "ids", "node"},
                    todo : SUBSET File, got : [File -> Link \cup {None}],
                    sent : 0..2 * Cardinality(File),
                    list : [File -> Version \cup {None}], base : SUBSET File]]
  /\ lists \in 0..MaxLists /\ resyncs \in 0..MaxChanges
  /\ raced \subseteq File /\ moved \subseteq File

(* The node was made by a Lookup that found the directory's Link in the    *)
(* table; nothing is listed yet.                                           *)
Init ==
  /\ place \in [File -> {"unborn", "here", "elsewhere"}]
  /\ ver = [f \in File |-> 0] /\ feed = <<>>
  /\ ids = None /\ entry = "own" /\ table = [f \in File |-> None]
  /\ children = None /\ reg = "live"
  /\ cursor = 0 /\ loop = [pc |-> "idle", i |-> 0, end |-> 0]
  /\ op = [o \in Op |-> NoOp]
  /\ lists = 0 /\ resyncs = 0 /\ raced = {} /\ moved = {}

------------------------------------------------------------------------------
(* The server (external): another client changes a child, and the volume's *)
(* feed gets an event with the link's new parent.                          *)

Emit(kind, x, here) == feed' = Append(feed, [kind |-> kind, link |-> x, here |-> here])

Room == Len(feed) + resyncs < MaxChanges

Put(f, p) == place' = [place EXCEPT ![f] = p] /\ ver' = [ver EXCEPT ![f] = @ + 1]

Change(f) ==
  \/ /\ "create" \in Remote /\ place[f] = "unborn"
     /\ Put(f, "here") /\ Emit("create", f, TRUE) /\ UNCHANGED moved
  \/ /\ "delete" \in Remote /\ place[f] = "here"
     /\ Put(f, "trashed") /\ Emit("delete", f, TRUE) /\ UNCHANGED moved
  \/ /\ "update" \in Remote /\ place[f] = "here"
     /\ Put(f, "here") /\ Emit("update", f, TRUE) /\ UNCHANGED moved
  \/ /\ "in" \in Remote /\ place[f] = "elsewhere"
     /\ Put(f, "here") /\ Emit("update", f, TRUE) /\ UNCHANGED moved
  \/ /\ "out" \in Remote /\ place[f] = "here"
     /\ Put(f, "elsewhere") /\ Emit("update", f, FALSE) /\ moved' = moved \cup {f}

RemoteChange(f) ==
  /\ Room
  /\ Change(f)
  /\ UNCHANGED <<caches, cursor, loop, op, lists, resyncs, raced>>

RemoteSelf ==
  /\ Room
  /\ "self" \in Remote
  /\ Emit("update", Dir, FALSE)
  /\ UNCHANGED <<place, ver, caches, cursor, loop, op, lists, resyncs, raced, moved>>

------------------------------------------------------------------------------
(* Link.Readdir, run by the node's Readdir and by a Lookup that found      *)
(* neither a children map entry nor cachedChildIDs.                        *)

SetOp(o, r) == op' = [op EXCEPT ![o] = r]

(* The cached IDs are read under cacheMu; with none the API is asked. *)
Begin(o) ==
  /\ ~Active(o) /\ lists < MaxLists
  /\ lists' = lists + 1
  /\ SetOp(o, IF ids = None
                THEN [NoOp EXCEPT !.pc = "ask"]
                ELSE [NoOp EXCEPT !.pc = "resolve", !.todo = ids, !.base = ids])
  /\ UNCHANGED <<server, caches, cursor, loop, resyncs, raced, moved>>

(* One GetLink. A child that left the table makes the cached IDs stale:    *)
(* they are dropped, nothing resolved so far is used, the API is asked.    *)
ResolvedAndSent(o, f) ==          \* mutant: keeps what it sent before
  IF table[f] = None
    THEN SetOp(o, [op[o] EXCEPT !.pc = "ask", !.todo = {}]) /\ ids' = None
    ELSE /\ SetOp(o, [op[o] EXCEPT !.todo = @ \ {f}, !.got[f] = table[f], !.sent = @ + 1])
         /\ UNCHANGED ids
Resolved(o, f) ==
  IF table[f] = None
    THEN /\ SetOp(o, [NoOp EXCEPT !.pc = "ask"])
         /\ ids' = None
    ELSE /\ SetOp(o, [op[o] EXCEPT !.todo = @ \ {f}, !.got[f] = table[f], !.sent = @ + 1])
         /\ UNCHANGED ids

Resolve(o) ==
  /\ op[o].pc = "resolve"
  /\ \E f \in op[o].todo : Resolved(o, f)
  /\ UNCHANGED <<server, entry, table, children, reg, cursor, loop, lists, resyncs, raced, moved>>

(* ListLinkChildren: the server's list at one instant; an empty one, or an *)
(* error, ends the listing and leaves the IDs alone.                       *)
Listed(o) ==
  SetOp(o, [op[o] EXCEPT !.pc = IF Here = {} THEN "build" ELSE "store",
                         !.list = [f \in File |-> IF f \in Here THEN ver[f] ELSE None],
                         !.base = Here])

Ask(o) ==
  /\ op[o].pc = "ask"
  /\ Listed(o) \/ SetOp(o, NoOp)
  /\ UNCHANGED <<server, caches, cursor, loop, lists, resyncs, raced, moved>>

(* The IDs are cached before the Links are built. *)
Store(o) ==
  /\ op[o].pc = "store"
  /\ ids' = op[o].base
  /\ SetOp(o, [op[o] EXCEPT !.pc = "build", !.todo = op[o].base])
  /\ UNCHANGED <<server, entry, table, children, reg, cursor, loop, lists, resyncs, raced, moved>>

(* NewChildLink: the Link the table has wins over what was just listed. *)
ChildLink(o, f) ==
  IF table[f] # None THEN table[f] ELSE [ver |-> op[o].list[f], by |-> "here"]

Build(o) ==
  /\ op[o].pc = "build"
  /\ \E f \in op[o].todo :
       /\ table' = [table EXCEPT ![f] = ChildLink(o, f)]
       /\ SetOp(o, [op[o] EXCEPT !.todo = @ \ {f}, !.got[f] = ChildLink(o, f),
                                 !.sent = @ + 1])
  /\ UNCHANGED <<server, ids, entry, children, reg, cursor, loop, lists, resyncs, raced, moved>>

(* The node's Readdir drains the channel, then replaces its map. *)
Drained(o) == op[o].pc \in {"resolve", "build"} /\ op[o].todo = {}

FinishReaddir(o) ==
  /\ Drained(o)
  /\ children' = op[o].got
  /\ SetOp(o, NoOp)
  /\ UNCHANGED <<server, ids, entry, table, reg, cursor, loop, lists, resyncs, raced, moved>>

(* A Lookup keeps nothing and cancels the listing at the first match. *)
FinishLookup(o) ==
  /\ op[o].pc \in {"resolve", "build"}
  /\ SetOp(o, NoOp)
  /\ UNCHANGED <<server, caches, cursor, loop, lists, resyncs, raced, moved>>

------------------------------------------------------------------------------
(* Unlink through the mount, with Client.Remove: the child is found in the *)
(* map or the table, trashed, and then forgotten in four steps. The        *)
(* directory the child's Link points to is the one that is cleared.        *)

Child(f) ==
  IF children # None /\ children[f] # None THEN children[f]
  ELSE IF ids # None /\ f \in ids THEN table[f] ELSE None

BeginUnlink(o, f) ==
  /\ "unlink" \in Local
  /\ ~Active(o) /\ Child(f) # None
  /\ SetOp(o, [NoOp EXCEPT !.pc = "trash", !.todo = {f}, !.got[f] = Child(f)])
  /\ UNCHANGED <<server, caches, cursor, loop, lists, resyncs, raced, moved>>

(* The server refuses a child that is not there any more: EIO. *)
Trash(o) ==
  /\ op[o].pc = "trash"
  /\ \E f \in op[o].todo :
       \/ /\ place[f] = "here" /\ Room
          /\ Put(f, "trashed") /\ Emit("delete", f, TRUE)
          /\ SetOp(o, [op[o] EXCEPT !.pc = "child"])
       \/ /\ SetOp(o, NoOp) /\ UNCHANGED server
  /\ UNCHANGED <<caches, cursor, loop, lists, resyncs, raced, moved>>

OwnParent(o) == \E f \in op[o].todo : op[o].got[f].by = "here"

ForgetRemoved(o) ==
  LET Then(pc) == SetOp(o, [op[o] EXCEPT !.pc = pc])
  IN
  \/ /\ op[o].pc = "child" /\ Then("parent")
     /\ table' = [f \in File |-> IF f \in op[o].todo THEN None ELSE table[f]]
     /\ UNCHANGED <<ids, entry, children>>
  \/ /\ op[o].pc = "parent" /\ Then("ids")
     /\ entry' = IF OwnParent(o) THEN "none" ELSE entry
     /\ UNCHANGED <<ids, table, children>>
  \/ /\ op[o].pc = "ids" /\ Then("node")
     /\ ids' = IF OwnParent(o) THEN None ELSE ids
     /\ UNCHANGED <<entry, table, children>>
  \/ /\ op[o].pc = "node" /\ SetOp(o, NoOp)
     /\ children' = None
     /\ UNCHANGED <<ids, entry, table>>

UnlinkForgets(o) ==
  /\ ForgetRemoved(o)
  /\ UNCHANGED <<server, reg, cursor, loop, lists, resyncs, raced, moved>>

------------------------------------------------------------------------------
(* The rest of the mount. *)

(* A Lookup of the directory itself makes a node and registers it; go-fuse *)
(* keeps the inode it has for the same number, so the new node is dropped. *)
LookupDir ==
  /\ "lookup" \in Local /\ reg' = "other"
  /\ UNCHANGED <<server, ids, entry, table, children, cursor, loop, op, lists, resyncs, raced, moved>>

(* A listing of the parent directory (NewChildLink, when the table has no  *)
(* entry), or GetShare or StatLink (putLink, always).                      *)
Relink ==
  /\ "relink" \in Local /\ entry' = "other"
  /\ UNCHANGED <<server, ids, table, children, reg, cursor, loop, op, lists, resyncs, raced, moved>>

(* The listing of the directory a child is in makes its Link. *)
ListedElsewhere(f) ==
  /\ place[f] = "elsewhere" /\ table[f] = None
  /\ table' = [table EXCEPT ![f] = [ver |-> ver[f], by |-> "elsewhere"]]
  /\ UNCHANGED <<server, ids, entry, children, reg, cursor, loop, op, lists, resyncs, raced, moved>>

------------------------------------------------------------------------------
(* The event loop: pollVolumeAndInvalidate, applyLinkEvent, resyncVolume. *)

Running == \E o \in Op : Active(o)
Race(S) == raced' = IF Running THEN raced \cup (S \cap File) ELSE raced
LoopTo(pc) == loop' = [loop EXCEPT !.pc = pc]
Current == feed[loop.i]

(* PollVolumeOnce answers with the events after the cursor; when it fails  *)
(* nothing changes. InvalidateParent clears the directory's IDs before it  *)
(* drops the table entry, InvalidateLink drops the child first.            *)
FirstStep(e) == IF e.kind = "create" THEN "clear" ELSE "drop"

Poll ==
  /\ loop.pc = "idle" /\ cursor < Len(feed)
  /\ loop' = [pc |-> FirstStep(feed[cursor + 1]), i |-> cursor + 1, end |-> Len(feed)]
  /\ UNCHANGED <<server, caches, cursor, op, lists, resyncs, raced, moved>>

(* deleteLink: of the parent for a create, of the link itself otherwise. *)
DroppedParentOnly(e) == IF e.here THEN Dir ELSE None       \* mutant
Dropped(e) == IF e.kind # "create" THEN e.link ELSE IF e.here THEN Dir ELSE None

DropLink ==
  /\ loop.pc = "drop"
  /\ entry' = IF Dropped(Current) = Dir THEN "none" ELSE entry
  /\ table' = [f \in File |-> IF Dropped(Current) = f THEN None ELSE table[f]]
  /\ LoopTo(IF Current.kind = "create" THEN "hook" ELSE "clear")
  /\ Race({Current.link})
  /\ UNCHANGED <<server, ids, children, reg, cursor, op, lists, resyncs, moved>>

(* InvalidateChildren of the parent, as the table knows it. *)
ClearedOnCreate(e) ==             \* mutant: InvalidateLink leaves the parent alone
  IF e.kind = "create" /\ e.here /\ entry = "own" THEN None ELSE ids
Cleared(e) == IF e.here /\ entry = "own" THEN None ELSE ids
ClearIds ==
  /\ loop.pc = "clear"
  /\ ids' = Cleared(Current)
  /\ LoopTo(IF Current.kind = "create" THEN "drop" ELSE "hook")
  /\ Race({Current.link})
  /\ UNCHANGED <<server, entry, table, children, reg, cursor, op, lists, resyncs, moved>>

(* OnInvalidateParent: the children map of the parent, as the registry     *)
(* knows it. After the last event of the batch the cursor moves.           *)
HookedOnCreate(e) ==              \* mutant: InvalidateLink does not fire the hook
  IF e.kind = "create" /\ e.here /\ reg = "live" THEN None ELSE children
Hooked(e) == IF e.here /\ reg = "live" THEN None ELSE children
Hook ==
  /\ loop.pc = "hook"
  /\ children' = Hooked(Current)
  /\ IF loop.i < loop.end
       THEN /\ loop' = [loop EXCEPT !.pc = FirstStep(feed[loop.i + 1]), !.i = @ + 1]
            /\ UNCHANGED cursor
       ELSE /\ cursor' = loop.end
            /\ loop' = [pc |-> "idle", i |-> 0, end |-> 0]
  /\ Race({Current.link})
  /\ UNCHANGED <<server, ids, entry, table, reg, op, lists, resyncs, moved>>

(* The server asks for a refresh or calls the cursor stale. *)
Resync ==
  /\ "refresh" \in Remote /\ loop.pc = "idle" /\ Room
  /\ resyncs' = resyncs + 1 /\ LoopTo("clearLinks")
  /\ UNCHANGED <<server, caches, cursor, op, lists, raced, moved>>

ClearLinks ==
  /\ loop.pc = "clearLinks"
  /\ table' = [f \in File |-> None] /\ entry' = "none"
  /\ loop' = [pc |-> "all", i |-> Len(feed), end |-> 0]
  /\ Race(File)
  /\ UNCHANGED <<server, ids, children, reg, cursor, op, lists, resyncs, moved>>

InvalidateAll ==
  /\ loop.pc = "all"
  /\ children' = IF reg = "live" THEN None ELSE children
  /\ LoopTo("anchor")
  /\ Race(File)
  /\ UNCHANGED <<server, ids, entry, table, reg, cursor, op, lists, resyncs, moved>>

(* LatestVolumeCursor: the events since the caches were cleared are passed *)
(* over; when the request fails the cursor stays.                          *)
Skipped == {feed[i].link : i \in loop.i + 1..Len(feed)} \cap File

Anchor ==
  /\ loop.pc = "anchor"
  /\ \/ cursor' = Len(feed) /\ raced' = raced \cup Skipped
     \/ UNCHANGED <<cursor, raced>>
  /\ loop' = [pc |-> "idle", i |-> 0, end |-> 0]
  /\ UNCHANGED <<server, caches, op, lists, resyncs, moved>>

------------------------------------------------------------------------------
EventStep == Poll \/ DropLink \/ ClearIds \/ Hook \/ ClearLinks \/ InvalidateAll \/ Anchor

ListStep(o) ==
  \/ Begin(o) \/ Resolve(o) \/ Ask(o) \/ Store(o) \/ Build(o)
  \/ FinishReaddir(o) \/ FinishLookup(o)

UnlinkStep(o) == (\E f \in File : BeginUnlink(o, f)) \/ Trash(o) \/ UnlinkForgets(o)

Next ==
  \/ EventStep \/ Resync
  \/ \E o \in Op : ListStep(o) \/ UnlinkStep(o)
  \/ LookupDir \/ Relink \/ RemoteSelf
  \/ \E f \in File : RemoteChange(f) \/ ListedElsewhere(f)

Spec == Init /\ [][Next]_vars

------------------------------------------------------------------------------
(* Properties. *)

(* The events the loop has not begun to apply. *)
Applied == IF loop.pc \in {"drop", "clear", "hook"} THEN loop.i - 1 ELSE cursor
Pending(f) == \E i \in Applied + 1..Len(feed) : feed[i].link = f
Excused(f) == Pending(f) \/ f \in raced

(* A Link of the table that is older than the server's is one whose event  *)
(* the loop still has before it, or one a request put there while the      *)
(* event was applied or passed over (event_loop.go:38, "near-real-time     *)
(* consistent with other clients").                                        *)
TableExplained ==
  \A f \in File : table[f] # None /\ table[f].ver # ver[f] => Excused(f)

(* The same of the cached child IDs, for as long as the table still knows  *)
(* the node's Link: a child that is there and not listed, or listed and    *)
(* not there, has an event to come, was raced, or was moved out, which     *)
(* only the new parent is told of.                                         *)
IdsExplained ==
  entry = "own" /\ ids # None =>
    \A f \in (ids \ Here) \cup (Here \ ids) : Excused(f) \/ f \in moved

(* And of the node's children map, for as long as the registry still has   *)
(* the node too: what a Lookup answers from it.                            *)
Shown(f) == IF f \in Here THEN ver[f] ELSE None
Kept(f) == IF children[f] = None THEN None ELSE children[f].ver
ViewExplained ==
  entry = "own" /\ reg = "live" /\ children # None =>
    \A f \in File : Kept(f) # Shown(f) => Excused(f) \/ f \in moved

(* readdir.go:75: a listing that finds its cache stale half way starts     *)
(* again "WITHOUT having emitted a partial set". What a drained listing    *)
(* has sent is one set of IDs, the cached one or the server's, each once.  *)
ListingIsOneSet ==
  \A o \in Op : Drained(o) =>
    /\ {f \in File : op[o].got[f] # None} = op[o].base
    /\ op[o].sent = Cardinality(op[o].base)

(* handler.go:88: the hook is there "so a remote child create/delete       *)
(* refreshes the parent listing". When the loop is behind nothing and no   *)
(* request was overtaken, cached IDs that all resolve, so that a listing   *)
(* is answered from them, are what is there.                               *)
CaughtUp == loop.pc = "idle" /\ cursor = Len(feed) /\ raced = {}
AllResolve == ids # None /\ \A f \in ids : table[f] # None
ListingCatchesUp == CaughtUp /\ AllResolve => ids = Here

=============================================================================
