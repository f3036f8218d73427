------------------------------ MODULE BufferCache ------------------------------
(***************************************************************************)
(* The in-memory block cache of api/drive/buffercache.go together with the *)
(* two callers that drive it: httpBlockStore.GetBlock (encrypted mode) and *)
(* FileDescriptor.getDecryptedBlock / prefetch (decrypted mode), which     *)
(* follow the same protocol Get, Reserve, fetch, Put or PutError.          *)
(*                                                                         *)
(* bc.mu makes each cache method one atomic step, except that Get releases *)
(* the mutex to block on the slot's ready channel. What a block contains   *)
(* is left out; a slot is fetching or clean.                               *)
(***************************************************************************)
EXTENDS Naturals, FiniteSets

CONSTANTS
  Goroutine,        \* readers and prefetchers
  Link,             \* files whose blocks are cached
  Index,            \* block indices
  Gen,              \* names for the successive slot objects of one key
  Cap,              \* bufferCache.cap
  MaxInvalidations  \* bound: calls of Invalidate in a behaviour

Key == Link \X Index
Slot == Key \X Gen        \* a *cacheSlot; two slots of a key differ in Gen
NoSlot == <<>>
NoKey == <<>>

ASSUME CapAssumption == Cap \in Nat \ {0}
ASSUME GenAssumption == Gen \subseteq Nat
ASSUME BoundAssumption == MaxInvalidations \in Nat

VARIABLES
  slots,          \* bc.slots: Key -> *cacheSlot, NoSlot when absent
  clean,          \* slots of the map in state slotClean (the others: fetching)
  lru,            \* slots that have an element in bc.lru
  older,          \* <<s, t>>: s is nearer to the back of bc.lru than t
  pc, want, on,   \* per goroutine: where it is, for which key, waiting on what
  invalidations,  \* how many Invalidate calls happened
  failed          \* a fetch or a decryption has failed

cache == <<slots, clean, lru, older>>
happened == <<invalidations, failed>>
vars == <<slots, clean, lru, older, pc, want, on, invalidations, failed>>

KeyOf(s) == s[1]
Present == {k \in Key : slots[k] # NoSlot}
IsClean(k) == slots[k] # NoSlot /\ slots[k] \in clean
IsFetching(k) == slots[k] # NoSlot /\ slots[k] \notin clean

(* "wait" and "woken": at <-ready, before and after close(slot.ready), in  *)
(* the first Get of a read; "rewait" and "rewoken" in the second.          *)
Waiting == {"wait", "rewait"}
Woken == {"woken", "rewoken"}
PC == {"idle", "get", "reget", "reserve", "prefetch", "fetch"} \cup Waiting \cup Woken

TypeOK ==
  /\ slots \in [Key -> Slot \cup {NoSlot}]
  /\ clean \subseteq Slot /\ lru \subseteq Slot
  /\ older \subseteq lru \X lru
  /\ pc \in [Goroutine -> PC]
  /\ want \in [Goroutine -> Key \cup {NoKey}]
  /\ on \in [Goroutine -> Slot \cup {NoSlot}]
  /\ invalidations \in 0..MaxInvalidations /\ failed \in BOOLEAN
  /\ \A g \in Goroutine : /\ want[g] = NoKey <=> pc[g] = "idle"
                          /\ on[g] = NoSlot <=> pc[g] \notin Waiting

Init ==
  /\ slots = [k \in Key |-> NoSlot]
  /\ clean = {} /\ lru = {} /\ older = {}
  /\ pc = [g \in Goroutine |-> "idle"]
  /\ want = [g \in Goroutine |-> NoKey]
  /\ on = [g \in Goroutine |-> NoSlot]
  /\ invalidations = 0 /\ failed = FALSE

-----------------------------------------------------------------------------
(* The LRU list and the slot heap.                                         *)

(* bc.lru.Back(): the element every other element is newer than.           *)
IsBack(s) == s \in lru /\ \A t \in lru \ {s} : <<s, t>> \in older

(* The list keeps the elements of L, in their order.                       *)
KeepInLRU(L) ==
  /\ lru' = L
  /\ older' = {p \in older : p[1] \in L /\ p[2] \in L}

(* PushFront or MoveToFront of s, in a list that keeps the elements of L.  *)
ToFront(L, s) ==
  /\ lru' = L \cup {s}
  /\ older' = {p \in older : p[1] \in L \ {s} /\ p[2] \in L \ {s}}
                \cup {<<t, s>> : t \in L \ {s}}

(* A new(cacheSlot) for k: the first name nothing refers to any more.      *)
Unreferenced(s) ==
  slots[KeyOf(s)] # s /\ s \notin lru /\ \A g \in Goroutine : on[g] # s
NewSlot(k, s) ==
  /\ s \in Slot /\ KeyOf(s) = k /\ Unreferenced(s)
  /\ \A n \in Gen : Unreferenced(<<k, n>>) => s[2] <= n

FullTooLate == Cardinality(Present) > Cap       \* mutant: off by one
Full == Cardinality(Present) >= Cap

(* evictLocked when the cache is full: the sets of elements it may remove, *)
(* the back of the list, or nothing when there is room or the list is      *)
(* empty.                                                                  *)
Victims ==
  IF Full /\ lru # {} THEN {{s} : s \in {t \in lru : IsBack(t)}} ELSE {{}}

(* The slots of the map under the keys of the evicted elements V.          *)
Dropped(V) == {slots[KeyOf(v)] : v \in V}

(* The map after delete(bc.slots, key) for those keys, then k -> s.        *)
DropThenAdd(V, k, s) ==
  slots' = [j \in Key |-> IF j = k THEN s
                          ELSE IF \E v \in V : KeyOf(v) = j THEN NoSlot
                          ELSE slots[j]]

-----------------------------------------------------------------------------
(* The goroutines.                                                         *)

Goto(g, l) == pc' = [pc EXCEPT ![g] = l]
Done(g) == Goto(g, "idle") /\ want' = [want EXCEPT ![g] = NoKey]
Released(h) == IF pc[h] = "wait" THEN "woken" ELSE "rewoken"
WaitsFor(h, S) == pc[h] \in Waiting /\ on[h] \in S

(* g returns; the channels of the slots S are closed, which releases every *)
(* goroutine that waits on one. What a slot that left the map holds is     *)
(* never read again: Get looks the key up again after <-ready.             *)
DoneAndClose(g, S) ==
  /\ pc' = [h \in Goroutine |->
              IF h = g THEN "idle"
              ELSE IF WaitsFor(h, S) THEN Released(h) ELSE pc[h]]
  /\ want' = [want EXCEPT ![g] = NoKey]
  /\ on' = [h \in Goroutine |-> IF WaitsFor(h, S) THEN NoSlot ELSE on[h]]

(* A read of block k begins: GetBlock or getDecryptedBlock.                *)
StartRead(g, k) ==
  /\ pc[g] = "idle"
  /\ Goto(g, "get") /\ want' = [want EXCEPT ![g] = k]
  /\ UNCHANGED <<cache, on, happened>>

(* decryptedReadStrategy's prefetch reserves without a Get.                *)
StartPrefetch(g, k) ==
  /\ pc[g] = "idle"
  /\ Goto(g, "prefetch") /\ want' = [want EXCEPT ![g] = k]
  /\ UNCHANGED <<cache, on, happened>>

(* Where Get's answer (data or nil, nil) leads its caller. After a second  *)
(* miss the caller fetches the block for itself, past the cache.           *)
Hit(g) == Done(g)
MissFetches(g, second) == Goto(g, "fetch") /\ UNCHANGED want     \* mutant: no Reserve
Miss(g, second) ==
  IF second
  THEN Done(g)
  ELSE Goto(g, "reserve") /\ UNCHANGED want

(* Get, up to its return or to <-ready.                                    *)
Get(g) ==
  LET k == want[g] IN
  /\ pc[g] \in {"get", "reget"}
  /\ \/ /\ IsClean(k)
        /\ ToFront(lru, slots[k])
        /\ Hit(g) /\ UNCHANGED on
     \/ /\ IsFetching(k)
        /\ Goto(g, IF pc[g] = "get" THEN "wait" ELSE "rewait")
        /\ on' = [on EXCEPT ![g] = slots[k]]
        /\ UNCHANGED <<lru, older, want>>
     \/ /\ slots[k] = NoSlot
        /\ Miss(g, pc[g] = "reget")
        /\ UNCHANGED <<lru, older, on>>
  /\ UNCHANGED <<slots, clean, happened>>

(* Get, from <-ready to its return. The key is looked up again: it may be  *)
(* gone, or hold a newer slot that is fetching, whose data is nil.         *)
Wake(g) ==
  LET k == want[g] IN
  /\ pc[g] \in Woken
  /\ \/ /\ IsClean(k)
        /\ ToFront(lru, slots[k])
        /\ Hit(g)
     \/ /\ ~IsClean(k)
        /\ Miss(g, pc[g] = "rewoken")
        /\ UNCHANGED <<lru, older>>
  /\ UNCHANGED <<slots, clean, on, happened>>

(* Reserve. A prefetcher that is refused gives up, a reader calls Get      *)
(* again to wait for the goroutine that holds the slot.                    *)
Refused(g) ==
  /\ \/ slots[want[g]] # NoSlot
     \/ Full /\ lru = {}
  /\ IF pc[g] = "prefetch" THEN Done(g) ELSE Goto(g, "reget") /\ UNCHANGED want
  /\ UNCHANGED cache

Reserved(g) ==
  LET k == want[g] IN
  /\ slots[k] = NoSlot /\ ~(Full /\ lru = {})
  /\ \E V \in Victims, s \in Slot :
       /\ NewSlot(k, s)
       /\ DropThenAdd(V, k, s)
       /\ KeepInLRU(lru \ V)
       /\ clean' = clean \ Dropped(V)
  /\ Goto(g, "fetch") /\ UNCHANGED want

Reserve(g) ==
  /\ pc[g] \in {"reserve", "prefetch"}
  /\ Refused(g) \/ Reserved(g)
  /\ UNCHANGED <<on, happened>>

(* Mutants: Put forgets slot.state, Put forgets slot.elem.                 *)
PutWithoutState(k) == slots[k] # NoSlot /\ ToFront(lru, slots[k]) /\ UNCHANGED <<slots, clean>>
PutWithoutElem(k) ==
  slots[k] # NoSlot /\ clean' = clean \cup {slots[k]} /\ UNCHANGED <<slots, lru, older>>

(* Put: the fetch succeeded. The slot may be gone, or be another           *)
(* goroutine's, when the file was invalidated during the fetch.            *)
PutExisting(k) ==
  /\ slots[k] # NoSlot
  /\ clean' = clean \cup {slots[k]}
  /\ ToFront(lru, slots[k])
  /\ UNCHANGED slots

PutNew(k) ==
  /\ slots[k] = NoSlot
  /\ \E V \in Victims, s \in Slot :
       /\ NewSlot(k, s)
       /\ DropThenAdd(V, k, s)
       /\ ToFront(lru \ V, s)
       /\ clean' = (clean \ Dropped(V)) \cup {s}

Put(g) ==
  /\ pc[g] = "fetch"
  /\ PutExisting(want[g]) \/ PutNew(want[g])
  /\ DoneAndClose(g, {slots[want[g]]})
  /\ UNCHANGED happened

(* Mutant: the error is dropped and the slot left as it is.                *)
PutErrorIgnored(g) ==
  pc[g] = "fetch" /\ failed' = TRUE /\ Done(g) /\ UNCHANGED <<cache, on, invalidations>>

(* PutError: the fetch or the decryption failed. The slot leaves the map,  *)
(* whatever its state; bc.lru is not touched.                              *)
PutError(g) ==
  LET k == want[g] IN
  /\ pc[g] = "fetch" /\ failed' = TRUE
  /\ IF slots[k] = NoSlot
     THEN UNCHANGED cache
     ELSE /\ slots' = [slots EXCEPT ![k] = NoSlot]
          /\ clean' = clean \ {slots[k]}
          /\ UNCHANGED <<lru, older>>
  /\ DoneAndClose(g, {slots[k]})
  /\ UNCHANGED invalidations

(* Mutant: the removed slots' channels stay open.                          *)
InvalidateSilently(l) ==
  LET gone == {slots[k] : k \in {j \in Present : j[1] = l}} IN
  /\ invalidations < MaxInvalidations
  /\ invalidations' = invalidations + 1
  /\ slots' = [k \in Key |-> IF k[1] = l THEN NoSlot ELSE slots[k]]
  /\ clean' = clean \ gone
  /\ KeepInLRU(lru \ gone)
  /\ UNCHANGED <<pc, want, on, failed>>

(* Invalidate: OverwriteFD drops the blocks of the file it replaces.       *)
Invalidate(l) ==
  LET gone == {slots[k] : k \in {j \in Present : j[1] = l}} IN
  /\ invalidations < MaxInvalidations
  /\ invalidations' = invalidations + 1
  /\ slots' = [k \in Key |-> IF k[1] = l THEN NoSlot ELSE slots[k]]
  /\ clean' = clean \ gone
  /\ KeepInLRU(lru \ gone)
  /\ pc' = [h \in Goroutine |-> IF WaitsFor(h, gone) THEN Released(h) ELSE pc[h]]
  /\ on' = [h \in Goroutine |-> IF WaitsFor(h, gone) THEN NoSlot ELSE on[h]]
  /\ UNCHANGED <<want, failed>>

-----------------------------------------------------------------------------
Step(g) == Get(g) \/ Wake(g) \/ Reserve(g) \/ Put(g) \/ PutError(g)

Next ==
  \/ \E g \in Goroutine : Step(g)
  \/ \E g \in Goroutine, k \in Key : StartRead(g, k) \/ StartPrefetch(g, k)
  \/ \E l \in Link : Invalidate(l)

(* A goroutine that can run is scheduled, and a block fetch ends: the HTTP *)
(* client has a timeout. Nothing forces a read or an overwrite to begin.   *)
Fairness == \A g \in Goroutine : WF_vars(Step(g))
SafetySpec == Init /\ [][Next]_vars
Spec == SafetySpec /\ Fairness

-----------------------------------------------------------------------------
(* Properties.                                                             *)

(* Nobody is parked on a slot whose data is there, and a clean slot of the *)
(* map has an LRU element (Get hands slot.elem to MoveToFront, which       *)
(* panics on nil).                                                         *)
CleanSlotIsSettled ==
  \A k \in Key : IsClean(k) =>
    /\ slots[k] \in lru
    /\ \A g \in Goroutine : ~WaitsFor(g, {slots[k]})

(* Whatever was invalidated in between, a fetching slot of the map has a   *)
(* goroutine that will still call Put or PutError for its key: no block    *)
(* stays unreadable because its fetcher answered to somebody else's slot.  *)
FetchHasOwner ==
  \A k \in Key : IsFetching(k) =>
    \E g \in Goroutine : pc[g] = "fetch" /\ want[g] = k

(* A failing fetch and an overwrite have not met yet: when they do, a slot *)
(* that left the map keeps its LRU element.                                *)
Calm == ~failed \/ invalidations = 0

(* Nobody waits on a channel that nobody can close any more: a channel is  *)
(* closed through the map only, so its slot must still be there.           *)
NoStrandedWaiter ==
  Calm => \A g \in Goroutine : pc[g] \in Waiting => slots[want[g]] = on[g]

(* "Only clean slots are in the LRU list": exactly the clean slots of the  *)
(* map, so that evicting the back always frees a slot.                     *)
LRUHoldsCleanSlots == Calm => lru = {slots[k] : k \in {j \in Key : IsClean(j)}}

(* "LRU eviction targets clean slots only - fetching slots are never       *)
(* evicted": a fetching slot leaves the map only with its waiters woken.   *)
WokenWhenGone(k, g) ==
  IsFetching(k) /\ slots'[k] # slots[k] /\ WaitsFor(g, {slots[k]}) => pc'[g] \in Woken
FetchingNeverEvicted == [][\A k \in Key, g \in Goroutine : WokenWhenGone(k, g)]_vars

(* The same, as long as a failing fetch and an overwrite have not met.     *)
FetchingKept == [][Calm' => \A k \in Key, g \in Goroutine : WokenWhenGone(k, g)]_vars

(* "fixed-size in-memory cache", "cap: max slots", until a file is         *)
(* overwritten.                                                            *)
CapacityRespected == invalidations = 0 => Cardinality(Present) <= Cap

(* "Only one goroutine fetches/decrypts a given block" through the cache,  *)
(* until a file is overwritten.                                            *)
OneFetchPerBlock ==
  invalidations = 0 => \A g, h \in Goroutine :
    pc[g] = "fetch" /\ pc[h] = "fetch" /\ want[g] = want[h] => g = h

(* A Get that blocks on a ready channel returns.                           *)
WaitersReturn ==
  \A g \in Goroutine : pc[g] \in Waiting /\ Calm ~> pc[g] \notin Waiting \/ ~Calm
=============================================================================
