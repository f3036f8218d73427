# proton-utils: specifications and proofs

TLA+ models of the parts of proton-utils whose correctness depends on the order
in which several goroutines, processes, clients or machines act, or on what is
left behind when one of them fails: the block cache, the write side of a file
descriptor, the copy pipeline, the drive commands, the caches and the event loop
of the mount, the mount daemon, login and logout, the coordinated refresh of the
account's credential, the session store and the configuration file. TLC checks
each on small instances; TLAPS proves, for every value of the constants, the
theorems listed below.

Paths are relative to the repository. Line numbers of every definition are in
`PROJECT.json` under `map`.

## 1. The system

proton-utils is a Go client for Proton's services: a command line (`proton`), a
FUSE daemon (`proton-fuse`) that mounts Proton Drive, and a redirector. All
programs of a user share one login; the daemon shares the drive with other
clients through the server.

### 1.1 Inventory

| Part | State it keeps | Operations | Interacts with | What is hard | What makes it correct |
|---|---|---|---|---|---|
| Block buffer cache `api/drive/buffercache.go` | `slots` by (link, index), each fetching or clean with a `ready` channel; `lru` | `Get`, `Reserve`, `Put`, `PutError`, `Invalidate`, `evictLocked` | readers and prefetchers call it; `Invalidate` comes from an overwrite | readers block on a channel without deadline; `Put` and `PutError` find a slot by key, not by identity | nobody waits on a channel nobody closes; the LRU list holds the clean slots; one fetch per block; the bound |
| Block store `api/drive/blockstore.go` | the disk cache | `GetBlock`, `RequestUpload`, `UploadBlock`, `Invalidate` | buffer cache, object cache directory, HTTP | a cached block has no revision in its key | an old block has an event to come that drops it |
| File descriptor, writing `api/drive/fd.go` | accumulator, upload goroutines, tokens, first error, `committed`, revision | `Write`, `WriteAt`, `Truncate`, `Flush`, `Sync`, `Close` | FUSE handles, block store, server | three critical sections around a commit, uploads that end in any order, failing requests | a successful close leaves exactly what was written |
| File descriptor, reading `api/drive/fd.go` | offset, prefetch goroutine | `Read`, `ReadAt`, `Seek` | buffer cache | prefetch and reader reserve the same blocks | as the buffer cache |
| Revisions and drafts `api/drive/{fileio,chmod}.go` | the server's draft | `CreateFile`, `OverwriteFile`, `deleteStaleRevision`, `Chmod` | server, descriptor | a draft of another writer looks like a stale one | a writer knows when its draft is gone; what was committed is kept |
| Link table and listings `api/drive/{client,readdir,link,invalidate}.go` | `linkTable`, `cachedChildIDs` per Link | `Readdir`, `Lookup`, `NewChildLink`, `getLink`, `InvalidateLink`, `InvalidateParent` | FUSE nodes, event loop, server | a listing runs while an event is applied; the directory is found through the table | what is stale has an event to come |
| Directory nodes `internal/fusemount/drive/` | children map per node, `dirNodes` registry, map of the shares | `Readdir`, `Lookup`, `Create`, `Open`, `Setattr`, `Rename`, `Unlink`, `InvalidateAll` | link table, event loop, go-fuse | two ways to find a live node, both can miss it; two opens, a chmod and a removal of one file | a remote change reaches the node the kernel uses; the shares come back |
| FUSE dispatch and the mount daemon `internal/fusemount/{dispatch,mount}.go`, `cmd/proton-fuse/main.go` | the mountpoint, its loops | start, mount, serve, refresh, stop | systemd, the kernel | a dead daemon's mountpoint; who may ask what at the namespace's boundary | it serves again after every death |
| Event loop `cmd/proton-fuse/event_loop.go`, `api/drive/event.go`, `internal/cli/event` | cursors in memory and on disk | poll, apply, resync, save; watch | server, caches, nodes | an event is applied in three steps, a resync in three; a death before the cursor is saved | no change is passed over silently |
| Object cache `api/drive/objectcache.go` | entries on disk, staged entries | hydrate, read, write, erase, evict | link table, block store | what was staged or is in flight when an event is applied | no stale entry without a reason |
| Copy pipeline `api/drive/pipeline.go` | jobs, claims, errors | claim, read, write, close | worker pool, endpoints | one block of several fails; a cancelled pool stops the workers without an error, a clone that does not close and a source that shrank are none | a copy reported as done has written and published every block it read |
| Worker pool `api/semaphore.go`, `api/throttle.go` | slots, back-off | `Go`, `Signal`, `Reset`, `Wait` | every API call | throttled or cancelled tasks | tasks end |
| Drive commands `internal/cli/drive` | per program: table of links, listings | `cp`, `mkdir`, `rm`, `rmdir`, `mv`, `ln`, `chmod`, `empty-trash` | server | two programs on one tree, retries on conflicts, deaths between two requests | nothing is lost that nobody asked to lose |
| Account refresh `api/account/refresh_*.go`, `session_restore.go`, `cookie_session.go`, `cookie_transport.go`, `fork_retry.go` | stored credential, flock, latch | `RefreshAccountLocked`, restore, tick, 401 refresh and retry, fork retry | every program of the user, the server | the credential rotates on every use; several programs start at once; a cookie refresh is stored twice; processes die with the lock | the account is not lost without a fault or an undone save; nobody is logged out while it is alive |
| Login, logout and service sessions `api/account/{session_ops,session_restore,cookie_session,fork}.go`, `internal/cli/account` | slots of the session file, time stamps, sessions at the server | login (bearer, cookies), logout, restore, fork, save, rotate | session index, server | programs that run across a login or logout; deaths between two writes; two modes | later programs work for whoever logged in last; a logout is final |
| Session index `internal/keyring/session_index.go` | a JSON file of UUIDs, the system keyring | `Load`, `Save`, `Delete`, `DeleteAllSessions`, `List`, `Switch` | every program of the user | no lock; the file is read, changed and rewritten; two stores | a session gets its own tokens; a logout is final; alone, it is a map |
| Configuration `api/config`, `internal/cli/config` | `config.yaml` and its temporary file | `set`, `unset`, `get`, `list`, `show`, load, save, cleanup of stale shares | every program | what a field falls back to; a failed list of shares; deaths half way | the file is what was asked for, and programs obey it |
| Shares, account objects, server-sent events, Lumo client and commands, redirector, process helpers | little or none | requests, cryptography, parsing, output | | | left out in whole or in part, see section 7 |

`PROJECT.json` lists every part with its files and its status, and under
`hazards` the 40 places where the code is hard to test.

### 1.2 How the parts meet

* A FUSE handle owns a file descriptor; `flushBlock` starts an upload goroutine
  per block; the commit drops the link from the table and clears its parent's
  cached child IDs.
* A read goes descriptor -> block store -> buffer cache -> disk cache -> HTTP.
* The event loop polls the volume and applies each event to the link table, the
  object cache, the block files and, by the hook `OnInvalidateParent`, to the
  node registry of the mount.
* A drive command resolves paths through its own link table, changes the tree by
  requests and, for `cp`, hands jobs to the pipeline, which runs them on the
  session's pool and commits when it closes the destinations.
* Every program restores a session: it loads the account's credentials from the
  session index and refreshes them, if they are old, under a lock in
  `$XDG_RUNTIME_DIR`; the client library refreshes on a 401 on its own. It
  reuses the saved session of its service or forks a new one from the account's.
* Every program loads the configuration file once, when it starts.

## 2. Modules

| Module | Models | Proofs | TLC instances |
|---|---|---|---|
| `BufferCache` | `buffercache.go` with `GetBlock`, `getDecryptedBlock` and `prefetch` as its callers | `FileProofs` | `MCBufferCache` |
| `FileDescriptor` | the write side of `fd.go`, `upload_helpers.go`, the order of calls of `nodes.go` | `FileProofs` | `MCFileDescriptor` |
| `CopyPipeline` | `pipeline.go` with its endpoints, on the pool of `semaphore.go` and `throttle.go` | `CopyPipelineProofs` | `MCCopyPipeline` |
| `DriveCommands` | the commands that change the tree, with the requests of `api/drive` they make | `DriveCommandsProofs` | `MCDriveCommands` |
| `DriveEvents` | the daemon's event loop over table, object cache, block files and staging map; `event watch` | `DriveEventsProofs` | `MCDriveEvents` |
| `DirectoryView` | link table, cached child IDs and children map of one directory, event loop, local removal | `DirectoryViewProofs` | `MCDirectoryView` |
| `Mount` | life of the daemon, share map, gate of the namespace, open files of one name | `MountProofs` | `MCMount` |
| `AccountRefresh` | `refresh_account.go`, `refresh_lock.go`, the restore, the refresh loop, the fork retry, cookie restore and its 401 refresh (`cookie_transport.go`) | `AccountProofs` | `MCAccountRefresh` |
| `Login` | login, logout and the restores and saves of other programs over the session file | `AccountProofs` | `MCLogin` |
| `SessionIndex` | `session_index.go` over a file and a keyring | `SessionIndexProofs` | `MCSessionIndex` |
| `SessionMap` | what `SessionIndex` promises its callers (abstract) | - | as property `IsAMap` |
| `ConfigFile` | `config.go`, `mapping.go`, `config set/unset/get/list/show`, what commands and daemon take from it | `FileProofs` | `MCConfigFile` |

Several modules are compositions. `DirectoryView` joins the listing code of
`api/drive`, the nodes of `internal/fusemount/drive`, the event loop and the
server; `DriveEvents` follows the same loop further down, into the caches that
survive the daemon; `Mount` puts daemon, handlers and server together and takes
from the other two what a node and a descriptor promise. `DriveCommands` runs
whole commands over one server, and takes from `CopyPipeline` that a copy
commits once, at its end. `AccountRefresh` composes the daemon's loop with the
programs that start beside it; `Login` stands above it and takes rotation for
granted. `SessionIndex` INSTANCEs `SessionMap` with a refinement mapping.

Operators that stand beside the one they distort (`WaitNot`, `GapsAllowed`,
`ReleaseNot`, ...) are plausible mistakes: each is substituted for the operator
it stands beside to see that a property notices. They are no part of a
specification; `PROJECT.json` lists them under `mutants`.

### 2.1 BufferCache

`bc.mu` makes each method one step, except `Get`, which releases it to wait on
`slot.ready`. A slot object is a key and a generation, so that a reader can
wait on an object that has left the map. `lru` and `older` are the list: which
slots have an element and in which order. A goroutine goes through `get`,
`wait`, `woken`, `reserve`, `fetch`, then `reget` (the second `Get`, when
`Reserve` found the slot taken), as `getDecryptedBlock` does; a prefetch begins
at its `Reserve` and gives up when it is refused. `Get` after `<-ready` reads
the map again, as the code does, and may find no slot, another slot, or a slot
that is still being fetched.
Block contents are left out.

### 2.2 FileDescriptor

`fd.mu` is held during the whole of a Write, so a Write is one step; Flush, Sync
and Close are as many steps as they have critical sections: hand over the
partial block, wait for the uploads, read the error and the number of tokens,
copy the tokens, update the revision, mark committed and clear. Each upload
goroutine ends in a step of its own, in any order, and may fail if `MayFail`
says so. A byte is the number of the write that wrote it, so a property can
compare the committed blocks with `written`, what a local file would hold.
The loop of `Write` and `WriteAt` over the chunks is taken as a whole
(`Accumulated`): the new bytes are laid over the accumulated block, or over an
empty one when the write begins in another block, the result is cut into blocks,
the full ones are handed to upload goroutines and the rest stays.
A behaviour begins with one of `Workloads`: how the threads use the descriptor
(`Usage`, see section 4) and how much they write.

### 2.3 CopyPipeline

A task of the pool is one goroutine; it waits out the throttle, claims the next
block of the first job that has one, opens the job's ends if it has not, reads,
writes, counts and claims again. A task that leaves closes its clones and throws
their errors away. `stored` is what was written to a destination, `damaged` the
jobs of which a block was read short from a source that shrank, or a clone of a
local destination did not close, `errs` what the error list names, `active` the revision a Proton file has.
`main` is `RunPipeline` itself: it waits for the tasks and then closes one job
after the other, with errors or without: closing a Proton file commits the
blocks that arrived if they are a beginning of the file, and fails if one is
missing in between. The pool's context may end at any time.

### 2.4 DriveCommands

A process runs one command; each step ends at a request to the server. It has
the link table (`seen`) and the cached child IDs (`listed`) of one program and
walks paths through them as `ResolvePath` and `Lookup` do. The server keeps
links with kind, parent, name, state, active revision, draft and older
revisions, refuses a name that is taken and a draft beside a draft. Retries are
the code's: a conflict of `CreateFile` becomes an overwrite, a foreign draft is
deleted once. A request may fail and a process may die between any two.

### 2.5 DriveEvents

The server's log is a sequence of links that changed; a copy anywhere is the
position of the change it shows, so "stale" is a comparison. A reader takes a
link or block from the table, the staging map, the object cache or the server,
and caches it in a later step; the loop polls, and applies each event by
dropping the table entry, the object and the blocks in three steps; a refresh
clears and then asks for the latest cursor. The saved cursor, the object cache
and the block files survive a death. The modes `drive` and `core` are the watch
command, with what it printed.

### 2.6 DirectoryView

The kernel holds one node of a directory. Its children map, its Link's
`cachedChildIDs` and the client's table of Links are three caches of the same
thing. A listing goes through `resolve` (all cached IDs are in the table),
`ask` (the API), `store` (the IDs are cached) and `build` (`NewChildLink`, which
prefers the Link the table has). The loop applies an event in the order of
`InvalidateLink` or `InvalidateParent`: drop a table entry, clear the cached IDs
of the directory *as the table knows it* (`entry`), call the hook on the node
*the registry knows* (`reg`). A resync clears the table, clears the nodes and
only then asks for the latest cursor. A removal through the mount forgets in
four steps. Names, sizes and the rest of a Link are one version number.
`raced` collects the children whose event was applied, or was passed over by a
new cursor, while a request was in flight or the caches were already cleared;
`moved` those moved to another directory, of which only the new parent is told.

### 2.7 Mount

`phase` is where `run` is, `mnt` what the mountpoint is (nothing, live, or left
by a dead daemon). `map` is the handler's share map, filled and refreshed one
`GetShare` at a time (`ref`). `thing`, `file` and `draft` are one name in a
share at the server, `node` the mode the kernel's node knows, `handle` the open
descriptors, `chm` a chmod that goes by the path. A handle whose draft was
deleted by another open, a chmod by path or a removal is `robbed`; its close
fails. A behaviour has one of `Scenes`, so that shares, files and life of the
daemon are not multiplied where they do not touch.

### 2.8 AccountRefresh

Credentials are numbered in the order the server hands them out; it accepts the
last one (`live`) and rejects older ones, which is what rotation means. A
process loads (`started`), waits for the lock, loads again (`cur`), adopts a
credential a peer has stored or refreshes, stores, and releases. The ways
around the lock are actions too: the refresh of old cookies in the cookie
restore, the 401 path of the bearer client and that of `CookieTransport`
(`Unauthorized`, `DirectRefresh`, `DirectSave`, `Retry`), and a lock that cannot
be had. `CookieTransport` stores what it got twice: `RefreshCookies` saves
(`DirectSave`) and `persistCookieRefresh` saves the same jar again
(`SaveAgain`), whatever the store holds by then. A peer that read the first save
can have rotated and saved in between, under the lock or not; `undone` remembers
that its credential was overwritten by the older one. `env`, chosen in Init from
`Settings`, says whether the account is a cookie account, whether there is a
lock, and whether refreshes bypass it. A fault is a failed request, a lost
answer after a rotation, a refused save or a death. `RefreshStore(p)` is the
store a process passes: the daemon passes the account store whatever the style
of login.

### 2.9 Login

`slot` is the session file (the account, its cookies, one slot per service) and
`session` what the server knows of each session it made: whose it is, its
parent, and whether it is dead or takes bearer tokens or cookies. A login, a
logout and a restore are programs of as many steps as they have requests and
writes. `key` is whose keys a program's key password opens. Stamps come from a
clock that ticks with every save, because the code decides by age which slot is
stale. `acct` and `svc` are the copies of the account's and the service's slot a
restore works with (`acctConfig`, `svcConfig`): each is loaded once, and what
other programs write afterwards is not seen. `holder` and `epoch` are history:
the last login that was saved whole, and how many logins and logouts took
effect. A program is `Current` when it began in this epoch and is not `excused`;
`late` marks the slots that hold what another one wrote, or the cookies of one
session beside the UID of another, and a program that reads such a slot is
excused from then on.

### 2.10 SessionIndex and SessionMap

A call reads the whole file, works on its copy and on the keyring, truncates the
file and writes it: one step each, with the steps of other processes, a failure
or a death between any two. `Switch` is a process whose next call names another
account. `minted` remembers which slot a UUID was made for.
`SessionMap` says what a caller may rely on when calls come one at a time and
nothing fails: a map from (account, service) to credentials, where a load falls
back to the wildcard session, a save and a delete change one entry, a logout
all entries of the account.

### 2.11 ConfigFile

A document is the values of the selectors a file sets and the entries of its
shares. A command that writes loads, resolves the share it names, changes its
copy, lists the shares to drop stale entries, opens the temporary file, writes
and renames it; files are inodes, so two programs that write one temporary file
are seen to do so. Every field is read, set, unset and listed by the operator
that stands for its accessor in `mapping.go`; what the commands of a service and
the daemon do with a value is `SetupSession` and `DaemonConfig`. `wanted` is the
sum of the completed requests. A file is a record whose `kind` tells a text from no
file, a truncated one and one that does not parse; the last three say nothing.
`unset --all` is written as what it comes to; `MCConfigFile` has TLC evaluate that
this is `UnsetField` of one matching selector after the other
(`UnsetAllAssumption`).

## 3. Runs

Deadlock is checked in `copy_faults`, `drive_commands` and `mount_scenes`; in the
other runs bounds on calls, events or changes end every behaviour. Symmetry is
used only in runs without liveness (`dir_events`, `index_calls`,
`login_commands`, `config_commands`).

| Run | Instance | Shows |
|---|---|---|
| `buffer_cache_readers` | 3 goroutines, 2 files of one block, capacity 1, 1 overwrite; 128 thousand states | the invariants of section 2.1, and that waiting readers return |
| `fd_workloads` | 2 threads, blocks of 2 bytes; orderly: files of 5, 3 writes, 4 calls; shared: files of 2, every usage; every request may fail | `Durable`: what a successful call of an orderly writer leaves on the server is what was written; errors are real; in both, nothing is buffered or in flight after Close and calls return |
| `fd_fsync` | 1 descriptor, no failures | the finding of section 5 |
| `copy_faults` | 2 tasks, 2 jobs of up to 2 blocks, 2 faults of 6 kinds, a pool that ends; 1.05 million states | success means that every block was written and published, a published revision is a prefix, `RunPipeline` returns |
| `drive_commands` | every pair of 25 commands on 3 trees, 5 links, 1 fault; 531 thousand states | what only adds leaves the rest alone; nothing is lost unasked; commands end |
| `drive_events` | 1 link, 2 readers, 3 modes, a window of 1 event, 2 changes, 1 fault, 1 crash; 1.65 million states | a stale copy has a reason; watch skips nothing silently; the loop catches up |
| `dir_events` | 2 children, 1 request, 2 changes or resyncs, 2 listings; 1.9 million states | every stale cache entry is explained; a listing sends one set |
| `mount_scenes` | 2 shares, 2 users, 2 handles, 4 scenes, 1 fault, 1 crash; 537 thousand states | the shares come back, starts and stops end, a writer keeps its draft from its own chmod |
| `account_settings` | 1 daemon, 2 programs, 2 events, 2 starts, 1 fault, 2 settings; 260 thousand states | the store goes back, and the account is lost without a fault, only by the second save of a cookie refresh; with the lock it rotates once per event, no false de-auth, a daemon keeps it fresh |
| `login_commands` | 2 programs, 1 service, 2 people, 5 sessions, 3 commands, 1 rotation, 1 fault; 2.4 million states | later programs work for whoever logged in last; a login repairs; a logout is complete |
| `index_calls` | 2 processes, 2 accounts, 2 services, 3 calls, 1 fault; 534 thousand states | own credentials always; a logout stands and the store is a map under their conditions |
| `config_commands` | 2 programs, 2 shares, 3 commands, 1 fault; 5 sets of fields, with no file, one written by hand, or one that does not parse; 603 thousand states | the file is what was asked for, and programs obey it |

The configurations `MC*.cfg` that are in none of these runs show what the code
does against its own words: section 5.

### 3.1 The bounds, and why they are enough

* *BufferCache*: capacity 1 makes every second block evict; three goroutines
  allow a fetcher, a waiter and one who evicts. A name of a slot object is free
  again when nothing refers to it: one for the map and one per goroutine that
  may still wait suffice, so `Gen` bounds nothing.
* *FileDescriptor*: 5 bytes in blocks of 2 make a full block, a second one and a
  short tail; a write spans a block boundary; 4 calls allow Sync, Sync, Flush,
  Close. In the shared workload two threads may be in two commits at once.
* *CopyPipeline*: two tasks may hold two blocks of one job or of two; two faults
  fail both, or a block and the closing of another job; jobs of 0, 1 and 2
  blocks, each from either source to each kind of destination. The proofs lift
  every one of these bounds.
* *DriveCommands*: two processes are a race; the trees have a name that exists,
  one in a folder, one in the trash and one that is a draft, so that each command
  meets each. Five links are two more than a tree and its commands need.
* *DriveEvents*: two changes make an event that is applied while the other is
  not; a window of one makes the second lose the delta of the first; one crash
  falls between any two steps. Two readers take a link from different caches.
* *DirectoryView*: two children tell "the child of the event" from "another
  one"; one request in flight covers the race of a request with the loop. With
  two requests in flight and one change the same properties hold (422 thousand
  states); two of both is too much for a run of a few minutes.
* *Mount*: a share that can be renamed and one that cannot; two handles are two
  writers, or a writer and a reader, beside a chmod by path; one fault or death.
* *AccountRefresh*: two starts beside a daemon are three processes before the
  lock; two events (gets old, expires) let a process hold a credential that is
  two rotations old. One fault at a time; more faults only lose more. The two
  settings are the strongest (bearer, every refresh under the lock) and the
  weakest (cookies, no lock, refreshes that bypass it). Two programs are enough
  for one to rotate between the two saves of the other.
* *Login*: three commands are a program that begins before a login, the login,
  and a program after it. Five sessions and six stamps are what three commands
  can use.
* *SessionIndex*: three calls are a save, a logout and a load, by two processes
  in any overlap; the account `a` has a wildcard and a drive session before.
* *ConfigFile*: a private and a shared share; three commands are a set, an unset
  and another set of one field, or a set between two deaths. The fields come in
  pairs, each beside one it could be confused with; no field refers to a third.

### 3.2 Fairness

* *BufferCache*: weak fairness of each goroutine's step. A goroutine that can
  run is scheduled, and the HTTP client's timeout ends a fetch. No fairness for
  starting a read or an overwrite.
* *FileDescriptor*: weak fairness of uploads, which have a 60 s timeout
  (`fd.go:837`), and of a thread inside a call. No fairness for making a call.
* *CopyPipeline*: weak fairness of `RunPipeline` and of each task. The throttle
  is a timer, requests are bounded by the transport.
* *DriveCommands*: weak fairness of each process; it is a program that runs.
* *DriveEvents*: weak fairness of the loop, which a ticker drives, and of a fetch
  a reader has begun. None for changes, reads, starts or deaths.
* *Mount*: weak fairness of the refresh loop, mounting, the end of the loops and
  the unmount, and of the restart: `dist/protonfs.service` has
  `Restart=on-failure`. None for requests of users.
* *AccountRefresh*: weak fairness of a step inside a call and of the daemon's
  ticker; strong fairness of acquiring the lock, which is `flock(2)` without a
  deadline: a process that waits gets it if it is released again and again. No
  fairness for events, starts, faults or deaths.
* *SessionIndex, DirectoryView, Login, ConfigFile*: safety only, no fairness.

## 4. What the properties leave out, and why

Some properties hold under a condition that is part of the property or of the
instance. What happens outside of it was tried with TLC:

* `Durable` is checked for files that are written front to back and then
  flushed, with Sync on a file that existed. With `rewrite` (WriteAt into a
  block that was flushed), `gap` (beyond the end), `resume` (a write after
  Flush or Sync), `overlap` (two commits at once) or `truncate` in `Usage` it is
  violated: a block restarts from an empty accumulator (`fd.go:753-764`), a
  short block stays short, the tokens of earlier blocks are gone after a commit
  (`fd.go:568`), a second commit may name no block. For `truncate`:
  `nodes.go:962` says "Handle O_TRUNC: reset file size to 0.", but only the
  recorded size changes and a file that is opened with O_TRUNC and closed keeps
  its old content.
* `NoStrandedWaiter` and `WaitersReturn` hold until a failing fetch and an
  overwrite have both happened (`Calm`); `MCBufferCacheStranded.cfg` shows what
  happens then. `CapacityRespected` and `OneFetchPerBlock` hold until the first
  overwrite: `Put` after an `Invalidate` inserts without room, and the
  invalidated block can be reserved while the old fetch still runs.
* `SuccessIsWritten` leaves out a pool that was cancelled, whose tasks return
  without an error (`pipeline.go:129`), so that the command reports success; and
  empty files, for which `Close` commits nothing. It speaks of blocks that were
  written, not of what they hold: a clone of a local destination whose `Close`
  fails is no error (`pipeline.go:123`), and from a source that shrank what is
  left of a block is copied (`local.go:56`). `SuccessIsWhole` says that too, and
  `MCCopyPipelineWhole.cfg` shows that it does not hold. In the same way
  `PublishedIsPrefix` and `AnnouncedIsComplete` count blocks.
* `AccountNotLost` leaves out what a fault or an undone save has lost (`undone`);
  `StoreNeverGoesBack` says that the second save of an overtaken cookie refresh
  is the only step that undoes one. `MCAccountRefreshTwice.cfg` shows the loss
  with no fault and with a lock that works.
* `NothingLostUnasked` leaves out permanent removals, an emptied trash and forced
  copies; for the last see `MCDriveCommandsForced.cfg`. `CommandsReturn` says
  that commands end, not that they succeed.
* `StaleIsExplained` names (`excused`) the copies an invalidation cannot reach: a
  copy start-up staged, a fetch that began before the invalidation and cached
  after it, a copy taken from a cache not yet erased, and whatever was cached
  when a resync set a new cursor (`event_loop.go:187`: it clears before it
  anchors). `WatchSkipsNothing` leaves out the events between a refresh line and
  the call that sets the new cursor (`gap`). `CatchesUp` leaves out the core
  watch with a cursor the server rejects, which it polls forever.
* `IdsExplained` needs the table to know the node's Link (`entry = "own"`) and
  `ViewExplained` also the registry to know the node (`reg = "live"`). Both are
  lost in normal use (`MCDirectoryViewDeaf.cfg`; go-fuse keeps the inode it has
  when a Lookup makes another node for the same number, and the registry then
  holds the node that was dropped). What is left says: these two are the only
  ways a directory becomes deaf, besides a request that was overtaken and a move
  out.
* `SharesComeBack` and `ServesAgain` speak of a time when nothing more goes
  wrong. `WritersKeepTheirDraft` leaves out a writer that was robbed by another
  open, a chmod by path or a removal.
* `OneRotationPerEvent` and `DaemonKeepsFresh` are checked for bearer accounts.
  For a cookie account the first fails because `refreshCred` of a cookie fork
  reads the store again (`fork_retry.go:141`) and so never sees that a peer has
  rotated; the second because the daemon hands `RefreshAccountLocked` the
  account store, in which a cookie login keeps no rotating credential.
* `TheAccountInUse` and `LoginRepairs` leave out programs that read a slot
  which a program begun before the last login wrote after it, or in which
  `persistCookieRefresh` left the cookies of one fork beside the UID of another
  (`late`), and programs that were themselves hit by a fault.
* `LogoutStands` and `IsAMap` hold while calls do not overlap. With overlap,
  saves of two processes lose one mapping; with three processes a save that read
  the file before a logout writes the deleted mappings back. A death between
  the truncation and the write leaves a file no later call can read; nothing
  repairs it, so no property promises that calls succeed again.
* `FileIsWhatWasAsked` and `ProgramsObey` hold while the commands that write come
  one at a time (`Overlap = FALSE`), and take the entries that a cleanup dropped
  after a failed `GetShare` (`resolve.go:118`) out of what was asked.

## 5. What the code does against its own words

**Finding** (`fd_fsync`): create, write, fsync, close leaves an empty file:
`Sync` does not set `committed`, so the next Flush commits an empty revision
(`fd.go:556`).

**Further configurations.** Each checks one property that states what a comment
or a document says, or what a caller would expect, and TLC finds it violated
within seconds:

| Configuration | Property | What it shows |
|---|---|---|
| `MCBufferCacheStranded.cfg` | `FetchingNeverEvicted` | `PutError` leaves an LRU element behind (`buffercache.go:165-167`); a later eviction deletes a slot that is being fetched, against the comment at line 34; its readers wait forever |
| `MCSessionIndexCleanup.cfg` | `OnlyStaleCleaned` | `Load` takes any keyring error for a missing secret and deletes the mapping (`session_index.go:112`, against 89) |
| `MCAccountRefreshColdStart.cfg` | `ColdStartIsSafe` | two programs that start after the access token expired both refresh before the lock is taken, and one is logged out (`session_restore.go:93`, against `session_ops.go:287`) |
| `MCAccountRefreshTwice.cfg` | `OneSaveIsEnough` | a cookie refresh after a 401 is stored a second time (`cookie_transport.go:109`) over what a peer has rotated and stored since: the cookies the server accepts are in no store and in nobody's hands, against "Persist updated cookies." (107) |
| `MCCopyPipelineWhole.cfg` | `SuccessIsWhole` | a copy to a local file reports success although the clone that wrote it failed to close (`pipeline.go:123`), or although the source had shrunk (`local.go:56`) |
| `MCDirectoryViewDeaf.cfg` | `ListingCatchesUp` | `InvalidateParent` drops the directory's own Link from the table (`invalidate.go:54`); the next event finds no Link to clear, and the listing of the node the kernel holds never shows the new child |
| `MCDriveEventsGone.cfg` | `InvalidatedIsGone` | `InvalidateLink` leaves the copy that start-up staged (`invalidate.go:21`, against 11), and the next fetch returns it |
| `MCDriveCommandsLookup.cfg` | `LookupIsTruthful` | the walk to `a` caches the child IDs of the folder but only `a`'s Link: a `Lookup` of its neighbour answers that it does not exist (`readdir.go:214`); `rm a b`, `mkdir -p x y` and `mv a b dir` fail at the second name |
| `MCDriveCommandsForced.cfg` | `ForcedCopyKeepsVersions` | when `OverwriteFile` fails, because of one request or because two copies take each other's draft for stale, a forced copy removes the link for good, with every older revision (`cp.go:333-338`, against 38-39) |
| `MCMountChmod.cfg` | `ChmodKeepsContent` | a chmod that reads before and commits after another descriptor's commit puts the old content back (`chmod.go:48`, against 11) |
| `MCLoginSevered.cfg` | `DeadForkIsReplaced` | a service session ended elsewhere is not replaced, although the log says "will re-fork" (`session_restore.go:211`) |
| `MCConfigFileOverlap.cfg` | `NeverCorrupt` | two commands that write share one temporary file: the rename of the first moves the file the second has just truncated (`config.go:275`, against 264); an update is lost as well |

**Seen while modelling**, and true of the models, without a configuration of
their own:

* *Mount.* A second open for writing is never refused with EBUSY: it deletes the
  draft of the first (`nodes.go:892` says otherwise, 956 is never reached). A
  chmod of an empty file commits nothing and answers success; `chmod 000` stores
  nothing. An fchmod or an O_TRUNC without a write is never committed and leaves
  a draft. A Create whose `StatLink` fails leaves a draft that is not listed and
  keeps the name. A mountpoint in use by a live daemon is taken for a stale one
  (`mount.go:134`, 167). A share list with failures swaps in a smaller map. After
  a rename or a resync the map is empty until the next tick, up to five minutes
  (`handler.go:390` says otherwise).
* *Commands.* A recursive copy to Proton Drive flattens the tree. A copy of an
  empty file commits nothing. `mkdir -p` of two programs on one path can fail in
  one. After `cp --remove-destination` the trashed link keeps its place in the
  program's listing.
* *Events.* A failed `ListVolumes` at start disables the loop for good
  (`event_loop.go:48`). Resetting the object cache also deletes the saved cursor. A
  watch that failed to get its first cursor polls with an empty one.
* *Login.* A program begun before a login overwrites the new login's slot when
  its tokens rotate; a fork it saves looks newer than the login.
  `persistCookieRefresh` writes a program's new cookies into whatever its slot
  holds by then (`cookie_transport.go:127-140`, and `RefreshCookies` of
  `cookie_session.go`): when another program has saved its own fork there, the
  slot has the UID of one session and the cookies of another, and every later
  restore of the service fails until the account is newer. A new login
  does not revoke the sessions of the one before. `deriveAndSave` deletes the
  cookie store before it saves the account. A forced logout whose restore failed
  revokes nothing. `fork.go:245-247` says the account's session is never passed to
  `TransitionToCookies`; `loadOrCreateCookieSession` passes it (`fork.go:419`).
* *Configuration.* `get share[name=X]` does not resolve the name and answers the
  default. With `-j` beside it, `get drive.max_jobs` prints the subsystem's value
  while commands use the flag. The daemon ignores subsystem overrides of
  `max_jobs`, and its account is `core.account`
  (`docs/protonfs.md:132` names a selector that cannot be set). The selectors of
  `docs/config.md` with `shares.<id>` and `subsystems.` do not exist. `set
  share[id=...]` of an unknown share confirms and saves nothing. `unset --all
  share` matches nothing. What was written by hand is not validated.

## 6. Proofs

Every theorem is for all values of the constants that satisfy the named
assumptions of the module. Safety theorems are about `SafetySpec` or `Spec`, as
the module names its next-state specification.

**FileProofs.** Both sides of a file's content, and the configuration file. The
write side first, for any
number of threads, any block size and any workload. `FdInv` has four parts.
`Shape` and `Sizes` are the shapes of all data and the bounds on what is
accumulated and handed over; `FdTypeOK` follows (`DescriptorTypes`). `Drained`
says when a closed descriptor has let go of its partial block and of its
uploads, by the place of each thread (`CloseDrainsAlways`, in every usage).
`OrderlyInv` is about an orderly writer: one call at a time (`OneCall`); the
accumulator holds the bytes behind the last full block (`Accumulates`); what is
being uploaded or has a token is the part of the file its index says
(`AllRight`); unless an upload has failed, every block handed over is in one of
the two or all was committed (`Complete`); the server shows what was written once
something was committed (`Touching`); and at each place of Flush and Sync what
the steps before it have established (`PlaceOf`). `Durable` alone is not
inductive: that a commit names all blocks needs `Complete`, that it names the
right ones `AllRight`, and both need `Accumulates`, because a block is cut from
the accumulator and not from the file. The lemmas before it are the arithmetic
of blocks: `Cut` and `Appended` say that putting bytes behind the accumulator and
cutting it gives the same blocks as cutting the whole file. From it
`DurableAlways` and `ErrorsAreRealAlways`.

The read side, for any goroutines, files, blocks and capacity. `IInv` is the type invariant with `FiledUnderOwnKey` (a
slot is in the map under its own key, a waiter waits on a slot of the key it
wants, clean slots are slots of the map), `FetchingNotInLRU`,
`CleanSlotIsSettled` and `FetchHasOwner`; neither of the last two is inductive
without the first two, because eviction and `Put` find slots through the map.
From it `TypeCorrect`, `CleanSlotsSettled`, `FetchesOwned`, in every
environment. `CalmInv` adds, until a failing fetch meets an overwrite, `Core`:
the LRU list is the set of clean slots, waiters wait on slots of the map, and
before the first overwrite a fetcher holds the slot it reserved. From it
`NoReaderStranded`, `LRUExact`, `OneFetch`, `FetchingSlotsKept`, and
`NeverAboveCapacity`: only `Reserve` adds a slot, and what it evicts is an
element of a clean slot that is in the map, so the map does not grow.

The configuration file, for any programs, services, shares, typed values and
files to start from (`WorldAssumption`: a text of known selectors, or none),
with deaths, failed writes and vanishing shares anywhere, while the programs
that write come one at a time (`~Overlap`; `MCConfigFileOverlap.cfg` is what
happens when they do not). A text is known by what it sets: `SettingsOnly` says
that two texts of known selectors that set the same to the same have the same
settings. With it each operation is shown to do what the request asks, selector
by selector (`Carried`): `set` and `unset` of a field and of a share's field, of
which the last takes the entry along, `unset --all`, and the cleanup after a
`set` (`WithoutCarried`, which also has to see that a request whose own share is
dropped leaves nothing). `FileIsWhatWasAsked` is about the file and says nothing
of a program half way, so it is not inductive: `ConfigInv` adds `Doing`, which
follows the request into the program's memory (`cleanup`, `open`, `write`) and
then into the temporary file (`rename`); that the temporary file is not the
configuration file; and `Solo`. A temporary file left by a dead program needs no
care in the invariant: the next program truncates it. From it
`FileIsWhatWasAskedAlways` and, because every reader goes by the settings of what it
loads, `ProgramsObeyAlways`.

**CopyPipelineProofs.** For any finite set of tasks, any number of jobs, blocks
and faults. The invariant goes from the claims to the commit: a claimed block
is below `next`, has one owner and is not stored until its task writes it
(`Claims`, `Storing`); every claimed block is stored, held by a task or named by
an error (`Accounted`); a task leaves only when nothing is unclaimed or the pool
has ended (`Leaving`); `jobDoneCount` is the number of stored blocks whose task
has passed the counter (`Counting`), which is what makes an announcement true;
and a job's revision changes only in its own closing, to the number of its
stored blocks (`Closing`). A short read and a clone that does not close change
none of this, which is why the theorems speak of written blocks. `Counting` is the step that needs cardinalities: a
counter that equals the number of blocks says that all of them are there, which
no smaller invariant implies. From it `OneOwner`, `NothingSkipped`, `Announced`,
`SuccessWritten`, `PublishedPrefix` and the action property `ReplacedOnce`.

**DriveCommandsProofs.** For any programs, commands and trees that
`CommandAssumption` and `TreeAssumption` allow. `IInv` is `Shapes` (the fields
of a program's record and of a link), `OnTrack` (a command that is no forced
copy is at one of its own steps, and holds there what that step needs),
`OwnDraft` (what a program that only adds writes to, it has made), `Unused` (an
ID that was never given out holds nothing) and `Keeping` (without a destructive
command no link is deleted, and all that was committed is in a link). `OnTrack`
is what rules out that a `mkdir` reaches a step of `rm`: both properties are
about what a command can *not* get to. From it `AddsNeverTake` and
`ContentKept`, for any number of programs, deaths and failing requests.

**DriveEventsProofs.** `IInv` is `TypeOK`, `Ordered` (the saved cursor is not
beyond the cursor, nor that beyond the log; a batch lies between cursor and
goal), what every copy is explained by, kept apart by where it is
(`CopiesCovered` in the caches, `HandsCovered` in a goroutine between its read
and its store, `StagedCovered` for what start-up staged), and `Watch`. A copy
that is stale must be excused, or an event at or after the oldest position the
daemon may start again from must name it; `HandsCovered` is what makes that
survive a read that began before an event and is stored after it. From it
`OldCopiesExplained`, deaths and restarts included, and `NothingUntold`.

**DirectoryViewProofs.** The invariant `IInv` is about the table: `Bounds`,
`Listings` (what a listing sent is its set of IDs without what it still has to
send), `Unborn` (a child never made is nowhere), `Behind` (a resync cleared
later than the cursor) and `Explained`, which strengthens `TableExplained` twice:
it looks only at events that will still *drop* the Link, which a create does not
and which one past its "drop" no longer does, and it also covers the lists that
requests hold. From it `TypeCorrect`, `OneSet`, `NothingStaleForever`. `VInv`
adds the IDs and the map, as long as the table knows the node's Link: `Sets`
(the cached IDs, and the IDs each listing goes by, are what is there or news is
ahead), `Views` (the map, and the Links a listing has in hand), `Severed` (a
resync has dropped the node's Link) and `MovesOut`. The positions differ: the
IDs are cleared before the map, so `Sets` counts the events that are past
"clear" as applied and `Views` does not. From it `NoIdsWrongForever` and
`NoViewWrongForever`.

**MountProofs.** `IInv` is `TypeOK`, `WritersKeepTheirDraft` itself (a writer
not robbed holds the server's draft) and `NoWriterWithoutFile` (when no file has
the name, every writer was robbed), without which a Create of a removed name
would break it. For any users, handles, shares, modes and faults.

**AccountProofs, Login.** For any programs, services, people and bounds, with
deaths, refused requests and sessions ended elsewhere at every step. The three
properties are about a program's last step and say nothing of the states before
it, so none is inductive. `SessionsInv` is what the code relies on in between:
* `Local`: the types, `OnTrack` (a command is at one of its own steps and has
  there what the step needs) and `Alone` (one login or logout at a time).
* `Shared`: the login that was saved last is the server's, in its own style and
  without a parent (`Held`); the account's and the cookies' slot hold it unless
  another program wrote there since (`AccountSlot`, `CookieSlot`); and a
  service's slot that names the service and is at least as new as the account
  is a fork of it (`ServicesKept`). This is what `shouldFork` relies on: the code
  compares stamps, and never asks whose session a slot holds.
* `Actors`: a login in progress has a session of its own (`LoginOf`), a fork is
  turned to cookies below a parent that has cookies (`TurningOf`), a program
  begun after the login has at every step its account or a fork of it, and
  nothing newer in its service's slot than such a fork (`ProgramOf`), and a
  logout revokes the session of the login (`LogoutOf`).

A step is split in two: what its program has afterwards (`OwnOf`), one lemma per
action, and what it does to the others (`WorldOf`): sessions only get older
(`Ages`), a service's slot gets a fork of the login or becomes late (`Files`), a
stamp that is written is new but for the one `Tag` keeps (`Newer`). `Bystander`
shows once that such a step leaves every other program's part of the invariant
as it was, so no pair of actions needs a lemma. `Newer` carries the order of
stamps: a fork saved between the two writes of a cookie login is newer than the
account that login goes on to save, and never of the same age (`LoginOf`), so
all that looks current after the second write is known to be late.
From it `TheAccountInUse`, `LoginRepairs` and `LogoutIsComplete`. TLC checked
`SessionsInv` on a smaller instance before it was proved. The proof shows what
the properties leave to `excused`: without it `AccountSlot` and `ServicesKept`
fail at the writes section 5 lists.

**AccountProofs, AccountRefresh.** `IInv` says that nobody has a credential the server
has not handed out (`NoneAhead`), that a process about to store a rotated
credential for the first time has the only copy (`OnlyCopy`), and that the other
store has none (`KeptAtHome`). `OnlyCopy` says nothing of a process before its
second save, whose credential a peer may have replaced. From it `StoreMonotone`,
in every setting: that second save, when it was overtaken, is the only step that
replaces a stored credential by an older one; and `AccountKept`: only a fault or
such a save can lose the credential. `LockInv` (whoever is
between the reload and the save holds the lock, and a process about to refresh
has what is stored) gives `DeauthIsReal` in the settings in which every refresh
takes the lock (`Coordinated`); `MCAccountRefreshColdStart.cfg` is what happens
in the others. `EarnedInv` adds, for bearer accounts, that whoever is on its way
to a refresh with the credential the server accepts saw it due or expired, so
that there have been as many events as its number: `RotationsEarned`.

**SessionIndexProofs.** `IInv` is `TypeOK`, `Located` (a call that reached the
keyring has its entry in its copy of the index) and `Owned` (in the file, in
every copy and in the keyring, a UUID is used only for the slot it was made
for). From it `NoMixUp`: whatever overlaps, fails or dies, a load returns
credentials of its account and of its service or the wildcard. `LInv` adds,
while calls do not overlap, `OneByOne`: one call at most, and whatever the index
maps to a secret was saved after the account's last logout. From it
`LogoutFinal`. `MInv` adds, while nothing fails either,
`Faithful`: the file is truncated only while a call is about to write, every
entry of the index has its secret unless the call in progress is taking it out,
and what that call is about to write gives every slot what the index gives it,
save for the slots the call is about. From it `StoreIsAMap`, that `SessionIndex`
implements `SessionMap`: a Save counts when the secret is set if the slot had an
entry, else when the file is truncated for the new index; a Delete when the
secret goes; a logout a slot at a time; every other step stutters. Credentials
differ from `None` because `NoCreds` is no record of credentials, so no
assumption on the names of accounts and services is needed. The invariants were
first checked by TLC on the instances above.

**Only model-checked.** Liveness, and the properties of section 5, which do not
hold. Every safety property of a passing run is proved, `FileIsWhatWasAsked` and
`ProgramsObey` under the condition their run has too. That the closed form of
`unset --all` is the loop of the code is evaluated on small texts only: the loop
is a recursion over data.

**Out of the prover's reach.** Liveness under fairness (`WaitersReturn`,
`CallsReturn`, `Returns`, `CommandsReturn`, `CatchesUp`, `SharesComeBack`,
`ServesAgain`, `DaemonKeepsFresh`) and anything with ENABLED; induction over
data; RECURSIVE operators (none is used).

## 7. Not modelled

* Cryptography, encoding, names, output, request formats, the syntax of
  selectors and of YAML.
* The server, except for what the code relies on: one rotating credential,
  sessions and their parents, one draft per file, names unique in a folder, a
  feed of events with cursors. go-fuse, the kernel, systemd and the keyring are
  external in the same way.
* Symbolic links along a path and their depth limit: `DriveCommands` walks paths
  of folders. The Lookup of a name whose Link left the table is in
  `DriveCommands` (section 5) and not in `DirectoryView`, whose node lists first.
* The counter that starts an eviction of the object cache, the growth of the
  back-off in `throttle.go` and after failed polls, several volumes at once.
* What only reads or prints: `list`, `find`, `df`, `cat`, `status`, `address`.
* Requests and cryptography without state of their own: account objects, share
  members and URLs, server-sent events, the Lumo client and its commands. The
  one race there, two programs that both make a default space, is decided by the
  server's data alone.
* The redirector (one symbolic link) and the process helpers (system calls).

## 8. Plan

1. The counter and the victims of the object cache's eviction, with readers.
2. Symbolic links in `DriveCommands`, as a function checked against a
   definition of resolution.
3. `DirectoryView` with two directories, so that a Move is one action of both.
