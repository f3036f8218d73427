------------------------------ MODULE DriveEvents ------------------------------
(***************************************************************************)
(* The consumers of the server's event log. In mode "daemon" proton-fuse   *)
(* (cmd/proton-fuse/event_loop.go): its loop invalidates what goroutines   *)
(* of the mount cache of links and blocks, in memory and in the object     *)
(* cache, which survives the process, as does the saved cursor. In the     *)
(* modes "drive" and "core" the command proton event watch                 *)
(* (api/drive/event.go, internal/cli/event), which prints the log.         *)
(*                                                                         *)
(* The log is the sequence of links that changed; a copy of a link's       *)
(* metadata or block is the position in the log of the change it shows.    *)
(***************************************************************************)
EXTENDS Naturals, Sequences, FiniteSetsExt

CONSTANTS
  Link,
  Reader,     \* goroutines that read the mount
  None,
  Modes,      \* a subset of {"daemon", "drive", "core"}
  Window,     \* events the server still has a delta for
  MaxChanges, MaxFaults, MaxCrashes   \* bounds

ASSUME EventAssumption ==
  /\ Modes \subseteq {"daemon", "drive", "core"}
  /\ {Window, MaxChanges, MaxFaults, MaxCrashes} \subseteq Nat
ASSUME NoneAssumption == None \notin Nat \cup Link

VARIABLES
  mode, bare, log,       \* bare: the links whose revisions have no extended attributes
  disk, blocks, file,    \* the object cache, its block files; the saved cursor
  table, staged,         \* linkTable, hydratedLinks
  reader,                \* per goroutine: where it is and what it holds
  loop, cur, todo, goal, \* the loop, its cursor, a batch's events left and its EventID
  printed, shown, synced,  \* watch: events printed, the cursor and refresh line printed last
  faults, crashes,
  excused, gap           \* history: see StaleIsExplained, WatchSkipsNothing

caches == <<disk, blocks, table, staged>>
watch == <<printed, shown, synced, gap>>
feed == <<loop, cur, todo, goal>>
still == <<mode, bare, log, watch, crashes>>
vars == <<mode, bare, log, caches, file, reader, feed, watch, faults, crashes, excused>>

Position == 0..MaxChanges
Maybe == Position \cup {None}
Idle == [pc |-> "idle", link |-> None, v |-> None, crossed |-> FALSE]
Up == loop # "down"
TypeOK ==
  /\ mode \in Modes /\ bare \subseteq Link /\ log \in Seq(Link) /\ Len(log) \in Position
  /\ {disk, blocks, table, staged} \subseteq [Link -> Maybe] /\ {cur, file} \subseteq Maybe
  /\ reader \in [Reader -> [pc : {"idle", "look", "take", "get", "xattr", "write", "wait",
                                "put", "save"},
                           link : Link \cup {None}, v : Maybe, crossed : BOOLEAN]]
  /\ loop \in {"down", "volumes", "cursor", "off", "poll", "disk", "blocks", "next", "clear",
               "erase", "anchor", "save"}
  /\ todo \in Seq(Link) /\ goal \in Position
  /\ printed \subseteq 1..MaxChanges /\ {shown, synced} \subseteq Maybe /\ gap \subseteq 1..MaxChanges
  /\ excused \subseteq Link /\ faults \in 0..MaxFaults /\ crashes \in 0..MaxCrashes

Nothing == [l \in Link |-> None]
Init ==
  /\ mode \in Modes /\ bare \in SUBSET Link /\ log = <<>>
  /\ disk = Nothing /\ blocks = Nothing /\ table = Nothing /\ staged = Nothing
  /\ reader = [r \in Reader |-> Idle]
  /\ loop = IF mode = "daemon" THEN "down" ELSE "cursor"
  /\ file \in IF mode = "daemon" THEN {None} ELSE {None, 0}   \* watch: --from
  /\ cur = None /\ todo = <<>> /\ goal = 0
  /\ printed = {} /\ shown = None /\ synced = 0 /\ gap = {}
  /\ faults = 0 /\ crashes = 0 /\ excused = {}

Latest == Len(log)
Version(l) == Max({0} \cup {i \in 1..Latest : log[i] = l})
Later(l, c) == \E i \in (c + 1)..Latest : log[i] = l
Fault == faults < MaxFaults /\ faults' = faults + 1

(* Another client changes a link (external).                               *)
Change(l) ==
  /\ Latest < MaxChanges /\ log' = Append(log, l)
  /\ UNCHANGED <<mode, bare, caches, file, reader, feed, watch, faults, crashes, excused>>

-----------------------------------------------------------------------------
(* A goroutine of the mount. StatLink: the link table, else GetCachedLink: *)
(* the staging map, the disk, the server.                                  *)
Holders(l) == {r \in Reader : reader[r].link = l /\ reader[r].v # None}
Put(r, rec) == reader' = [reader EXCEPT ![r] = rec]
Holding(r, v, pc) ==
  LET l == reader[r].link
  IN Put(r, [pc |-> pc, link |-> l, v |-> v,
             crossed |-> v < Version(l) /\ l \in excused])
To(r, pc) == Put(r, [reader[r] EXCEPT !.pc = pc])
Rest == UNCHANGED <<mode, bare, log, file, feed, watch, crashes>>

Stat(r, l) ==
  /\ Up /\ mode = "daemon" /\ reader[r] = Idle /\ table[l] = None
  /\ Put(r, [Idle EXCEPT !.pc = "look", !.link = l])
  /\ Rest /\ UNCHANGED <<caches, faults, excused>>

(* tryObjectCacheHit. An entry without attributes is no hit: it is left in *)
(* the staging map and erased on disk. One step: a miss in the staging map *)
(* remains one, for it only shrinks.                                       *)
FromCache(r) ==
  LET l == reader[r].link
      hit == staged[l] # None /\ l \notin bare
      found == IF hit THEN staged[l] ELSE disk[l]
  IN /\ reader[r].pc = "look"
     /\ IF found # None /\ l \notin bare THEN Holding(r, found, "put") ELSE To(r, "take")
     /\ staged' = IF hit THEN [staged EXCEPT ![l] = None] ELSE staged
     /\ disk' = IF l \in bare THEN [disk EXCEPT ![l] = None] ELSE disk
     /\ Rest /\ UNCHANGED <<blocks, table, faults, excused>>
(* takeStagedIncomplete: the fetch starts from the staged link. linkFlight: *)
(* who finds a fetch of the link under way waits for its result.           *)
Leads(r, l) == reader[r].link = l /\ reader[r].pc \in {"get", "xattr", "write"}
Fly(r) ==
  LET l == reader[r].link
      seed == staged[l] # None /\ l \in bare
  IN /\ reader[r].pc = "take"
     /\ IF \E q \in Reader : Leads(q, l) THEN To(r, "wait")
        ELSE IF seed THEN Holding(r, staged[l], "xattr") ELSE To(r, "get")
     /\ staged' = IF seed THEN [staged EXCEPT ![l] = None] ELSE staged
     /\ Rest /\ UNCHANGED <<disk, blocks, table, faults, excused>>
(* The leader has the result, and with it all who wait.                    *)
Landed(r, rec) ==
  reader' = [q \in Reader |->
     IF q = r \/ (reader[q].pc = "wait" /\ reader[q].link = reader[r].link) THEN rec ELSE reader[q]]
GetLink(r) ==
  /\ reader[r].pc = "get"
  /\ \/ Holding(r, Version(reader[r].link), "xattr") /\ UNCHANGED faults
     \/ Fault /\ Landed(r, Idle)
  /\ Rest /\ UNCHANGED <<caches, excused>>
(* Without the attributes the link is returned and not written to disk.    *)
GetRevision(r) ==
  /\ reader[r].pc = "xattr"
  /\ \/ To(r, "write") /\ UNCHANGED faults
     \/ Fault /\ Landed(r, [reader[r] EXCEPT !.pc = "put"])
  /\ Rest /\ UNCHANGED <<caches, excused>>

(* What a goroutine caches of a link that changed since it looked.         *)
Excuse(r) ==
  excused' = excused \cup {l \in {reader[r].link} : reader[r].crossed /\ reader[r].v < Version(l)}
WriteCacheEntry(r) ==
  /\ reader[r].pc = "write"
  /\ disk' = [disk EXCEPT ![reader[r].link] = reader[r].v]
  /\ Excuse(r) /\ Landed(r, [reader[r] EXCEPT !.pc = "put"])
  /\ Rest /\ UNCHANGED <<blocks, table, staged, faults>>
PutLink(r) ==
  /\ reader[r].pc = "put"
  /\ table' = [table EXCEPT ![reader[r].link] = reader[r].v]
  /\ Excuse(r) /\ Put(r, Idle)
  /\ Rest /\ UNCHANGED <<disk, blocks, staged, faults>>

(* triggerEviction erases the oldest entries of a full object cache.       *)
Evict(l) ==
  /\ Up /\ mode = "daemon" /\ disk[l] # None /\ disk' = [disk EXCEPT ![l] = None]
  /\ Rest /\ UNCHANGED <<blocks, table, staged, reader, faults, excused>>

(* A block of the revision the table shows: from disk, whatever revision   *)
(* it was fetched for, else by HTTP and then to disk.                      *)
Read(r, l) ==
  /\ Up /\ mode = "daemon" /\ reader[r] = Idle /\ table[l] # None /\ blocks[l] = None
  /\ Put(r, [pc |-> "save", link |-> l, v |-> table[l], crossed |-> l \in excused])
  /\ Rest /\ UNCHANGED <<caches, faults, excused>>
SaveBlock(r) ==
  /\ reader[r].pc = "save"
  /\ blocks' = [blocks EXCEPT ![reader[r].link] = reader[r].v]
  /\ Excuse(r) /\ Put(r, Idle)
  /\ Rest /\ UNCHANGED <<disk, table, staged, faults>>

-----------------------------------------------------------------------------
(* The daemon starts: hydrateFromCache. It stops: SIGTERM saves the        *)
(* cursor, a crash does not.                                               *)
Boot ==
  /\ mode = "daemon" /\ ~Up
  /\ staged' = disk /\ disk' = [l \in Link |-> IF l \in bare THEN None ELSE disk[l]]
  /\ loop' = "volumes"
  /\ UNCHANGED <<still, blocks, table, file, reader, cur, todo, goal, faults, excused>>
Stop ==
  /\ mode = "daemon" /\ Up /\ crashes < MaxCrashes /\ crashes' = crashes + 1
  /\ loop' = "down" /\ cur' = None /\ todo' = <<>> /\ goal' = 0
  /\ table' = Nothing /\ staged' = Nothing /\ reader' = [r \in Reader |-> Idle]
  /\ \/ UNCHANGED file
     \/ loop = "poll" /\ file' = cur
  /\ UNCHANGED <<mode, bare, log, disk, blocks, watch, faults, excused>>

Loop(next) == loop' = next
Quiet == UNCHANGED <<mode, bare, log, reader, crashes>>
ListVolumes ==
  /\ loop = "volumes"
  /\ \/ Loop("cursor") /\ UNCHANGED faults
     \/ Fault /\ Loop("off")
  /\ Quiet /\ UNCHANGED <<caches, file, cur, todo, goal, watch, excused>>

(* The latest event becomes the cursor: older copies stay as they are.     *)
Outdated(l) ==
  \/ \E c \in {disk[l], blocks[l], table[l], staged[l]} : c # None /\ c < Version(l)
  \/ \E r \in Holders(l) : reader[r].v < Version(l)
Anchor ==
  \/ cur' = Latest /\ excused' = excused \cup {l \in Link : Outdated(l)} /\ UNCHANGED faults
  \/ Fault /\ UNCHANGED <<cur, excused>>
InitCursor ==
  /\ mode = "daemon" /\ loop = "cursor"
  /\ IF file # None THEN cur' = file /\ UNCHANGED <<faults, excused>> ELSE Anchor
  /\ Loop("poll")
  /\ Quiet /\ UNCHANGED <<caches, file, todo, goal, watch>>

(* One poll. The server rejects a cursor that is too old (422), or answers *)
(* with a refresh; an error leaves the cursor. An empty cursor is an error.*)
StaleNever == FALSE
Stale == cur # None /\ cur + Window < Latest
Served == cur # None /\ cur + Window >= Latest
PollFails == IF cur = None THEN UNCHANGED faults ELSE Fault
Poll ==
  /\ mode = "daemon" /\ loop = "poll"
  /\ \/ /\ Served /\ todo' = SubSeq(log, cur + 1, Latest) /\ goal' = Latest
        /\ Loop("next") /\ UNCHANGED faults
     \/ Served /\ Fault /\ Loop("clear") /\ UNCHANGED <<todo, goal>>
     \/ Stale /\ Loop("clear") /\ UNCHANGED <<todo, goal, faults>>
     \/ PollFails /\ Loop("save") /\ UNCHANGED <<todo, goal>>
  /\ Quiet /\ UNCHANGED <<cur, caches, file, watch, excused>>

(* applyLinkEvent, InvalidateLink: the table, the object cache, the block  *)
(* files; the staging map keeps its copy. What a goroutine holds of the    *)
(* link it may cache after this.                                           *)
Without(f, l) == [f EXCEPT ![l] = None]
Cross(l) ==
  reader' = [r \in Reader |->
     IF r \in Holders(l) /\ reader[r].v < Version(l)
     THEN [reader[r] EXCEPT !.crossed = TRUE] ELSE reader[r]]
Slips(l, copies) == {k \in {l} : \E c \in copies : c # None /\ c < Version(l)}
EraseTable ==
  /\ loop = "next" /\ todo # <<>>
  /\ LET l == Head(todo)
     IN /\ table' = Without(table, l) /\ Cross(l)
        /\ excused' = (excused \ {l}) \cup Slips(l, {staged[l]})
  /\ Loop("disk")
  /\ UNCHANGED <<still, disk, blocks, staged, file, cur, todo, goal, faults>>
EraseDisk ==
  /\ loop = "disk" /\ disk' = Without(disk, Head(todo)) /\ Cross(Head(todo))
  /\ excused' = excused \cup Slips(Head(todo), {table[Head(todo)]})
  /\ Loop("blocks")
  /\ UNCHANGED <<still, blocks, table, staged, file, cur, todo, goal, faults>>
BlocksKept(l) == blocks
BlocksErased(l) == Without(blocks, l)
EraseBlocks ==
  /\ loop = "blocks" /\ blocks' = BlocksErased(Head(todo)) /\ Cross(Head(todo))
  /\ excused' = excused \cup Slips(Head(todo), {table[Head(todo)], disk[Head(todo)]})
  /\ todo' = Tail(todo) /\ Loop("next")
  /\ UNCHANGED <<still, disk, table, staged, file, cur, goal, faults>>
(* The batch is done: the cursor moves past it.                            *)
Batched ==
  /\ loop = "next" /\ todo = <<>> /\ cur' = goal /\ Loop("save")
  /\ Quiet /\ UNCHANGED <<caches, file, todo, goal, watch, faults, excused>>

(* resyncVolume: Clear empties the memory, then the directory of the cache *)
(* with the cursor's file in it; then the cursor becomes the latest event. *)
Clear ==
  /\ loop = "clear" /\ table' = Nothing /\ staged' = Nothing /\ Loop("erase")
  /\ UNCHANGED <<still, disk, blocks, file, reader, cur, todo, goal, faults, excused>>
EraseAll ==
  /\ loop = "erase" /\ disk' = Nothing /\ blocks' = Nothing /\ file' = None /\ Loop("anchor")
  /\ UNCHANGED <<still, table, staged, reader, cur, todo, goal, faults, excused>>
Resync ==
  /\ mode = "daemon" /\ loop = "anchor" /\ Anchor /\ Loop("save")
  /\ Quiet /\ UNCHANGED <<caches, file, todo, goal, watch>>
Save ==
  /\ loop = "save" /\ Loop("poll")
  /\ \/ file' = cur /\ UNCHANGED faults
     \/ Fault /\ UNCHANGED file
  /\ Quiet /\ UNCHANGED <<caches, cur, todo, goal, watch, excused>>

-----------------------------------------------------------------------------
(* proton event watch. The daemon's variables rest.                        *)
Watching ==
  /\ mode # "daemon"
  /\ UNCHANGED <<mode, bare, log, caches, file, reader, todo, goal, crashes, excused>>

(* --from, else the latest event: where core fails drive tries again.      *)
WatchInit ==
  /\ Watching /\ loop = "cursor" /\ UNCHANGED <<printed, gap>>
  /\ \/ cur' = (IF file # None THEN file ELSE Latest) /\ shown' = cur' /\ synced' = cur'
        /\ Loop("poll") /\ UNCHANGED faults
     \/ file = None /\ Fault /\ UNCHANGED <<cur, shown, synced>>
        /\ Loop(IF mode = "core" THEN "off" ELSE "cursor")

(* A batch is printed and its cursor with it; a failed poll leaves both.   *)
Skipping == Latest
Kept == cur
WatchPoll ==
  /\ Watching /\ loop = "poll"
  /\ \/ /\ Served /\ printed' = printed \cup (cur + 1)..Latest
        /\ cur' = Latest /\ shown' = Latest /\ UNCHANGED <<synced, faults>>
     \/ Fault /\ cur' = Kept /\ UNCHANGED <<printed, shown, synced>>
  /\ UNCHANGED <<gap, loop>>
(* A refresh line; then, in a call of its own, the cursor is set to the    *)
(* latest event. drive takes a rejected cursor for a refresh, in the other *)
(* order; core takes it for a failed poll.                                 *)
WatchRefresh ==
  /\ Watching /\ loop = "poll" /\ Served /\ Fault
  /\ cur' = Latest /\ shown' = Latest /\ synced' = Latest /\ Loop("anchor")
  /\ UNCHANGED <<printed, gap>>
WatchAnchor ==
  /\ Watching /\ loop = "anchor" /\ Loop("poll")
  /\ \/ cur' = Latest /\ gap' = gap \cup (cur + 1)..Latest /\ UNCHANGED faults
     \/ Fault /\ UNCHANGED <<cur, gap>>
  /\ shown' = (IF mode = "core" THEN cur' ELSE shown)
  /\ UNCHANGED <<printed, synced>>
WatchStale ==
  /\ Watching /\ loop = "poll" /\ Stale /\ mode = "drive"
  /\ \/ cur' = Latest /\ UNCHANGED faults
     \/ Fault /\ UNCHANGED cur
  /\ shown' = cur' /\ synced' = Latest
  /\ UNCHANGED <<printed, gap, loop>>

-----------------------------------------------------------------------------
Fetch(r) ==
  \/ FromCache(r) \/ Fly(r) \/ GetLink(r) \/ GetRevision(r)
  \/ WriteCacheEntry(r) \/ PutLink(r) \/ SaveBlock(r)
EventLoop ==
  \/ ListVolumes \/ InitCursor \/ Poll \/ EraseTable \/ EraseDisk \/ EraseBlocks \/ Batched
  \/ Clear \/ EraseAll \/ Resync \/ Save
  \/ WatchInit \/ WatchPoll \/ WatchRefresh \/ WatchAnchor \/ WatchStale
Next ==
  \/ \E l \in Link : Change(l) \/ Evict(l)
  \/ \E r \in Reader : Fetch(r) \/ \E l \in Link : Stat(r, l) \/ Read(r, l)
  \/ Boot \/ Stop \/ EventLoop

Fairness == WF_vars(EventLoop) /\ \A r \in Reader : WF_vars(Fetch(r))
Spec == Init /\ [][Next]_vars /\ Fairness

-----------------------------------------------------------------------------
(* A copy of a link in the table, the staging map, the object cache or the *)
(* block files that is older than the link has a reason: its event is      *)
(* still to come, after the cursor (or after the saved one, when the       *)
(* daemon has none); or the copy is one the invalidation cannot reach: the *)
(* staging map kept it, a fetch that began before the invalidation cached  *)
(* it after, a goroutine took it from a cache not yet erased into one that *)
(* was, or the cursor was set to the latest event while it was there.      *)
Followed == IF cur # None THEN cur ELSE file
StaleIsExplained ==
  \A l \in Link : \A c \in {disk[l], blocks[l], table[l], staged[l]} :
    c # None /\ c < Version(l) /\ Followed # None => Later(l, Followed) \/ l \in excused

(* What InvalidateLink promises: after it no cache has the link. Violated  *)
(* by the staging map, from which the next fetch takes the old link.       *)
InvalidatedIsGone ==
  [][\A l \in Link : loop = "blocks" /\ loop' = "next" /\ Head(todo) = l =>
       staged'[l] = None \/ staged'[l] = Version(l)]_vars

(* proton event watch prints every event up to the cursor it names on      *)
(* exit, unless a refresh line covers it or it fell between a refresh line *)
(* and the call that sets the cursor (recorded in gap).                    *)
WatchSkipsNothing ==
  mode # "daemon" /\ shown # None =>
    \A i \in 1..shown : i \in printed \cup gap \/ i <= synced

(* When the changes stop the loop catches up: from some time on a cursor   *)
(* is the latest event, but for core watch with a cursor that the server   *)
(* rejects, which polls it for ever.                                       *)
CatchesUp == <>[](cur # None => cur = Latest \/ (mode = "core" /\ Stale))
=============================================================================
