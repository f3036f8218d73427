-------------------------- MODULE DirectoryViewProofs --------------------------
(***************************************************************************)
(* Proofs about DirectoryView for any children, requests, changes by other *)
(* clients and bounds: what a listing sends, and what the table, the       *)
(* cached IDs and the node's map remember. IInv is about the table; VInv   *)
(* adds the IDs and the map, and rests on it.                              *)
(***************************************************************************)
EXTENDS DirectoryView, FiniteSetTheorems, TLAPS

(* The bounds, and where the loop is in its batch.                         *)
Bounds ==
  /\ Len(feed) + resyncs <= MaxChanges
  /\ \A f \in File : ver[f] <= Len(feed)
  /\ loop.pc \in {"drop", "clear", "hook"} => loop.i \in 1..loop.end

(* What a listing has sent is what it no longer has to send.               *)
Sent(r) == {f \in File : r.got[f] # None}
ListingOf(r) ==
  /\ r.pc = "ask" => r.todo = {}
  /\ r.pc \in {"ask", "store"} => Sent(r) = {} /\ r.sent = 0
  /\ r.pc \in {"store", "build"} => r.base = {f \in File : r.list[f] # None}
  /\ r.pc \in {"resolve", "build"} =>
       /\ r.todo \subseteq r.base /\ Sent(r) = r.base \ r.todo
       /\ r.sent = Cardinality(Sent(r))
Listings == \A o \in Op : ListingOf(op[o])

(* A child that was never made is in no list and not in the table.         *)
Unborn ==
  \A f \in File : place[f] = "unborn" => table[f] = None /\ \A o \in Op : op[o].list[f] = None

(* An event that will still drop the Link of the child, or a race. A       *)
(* create does not drop the child's Link, and an event has done so when    *)
(* the loop is past "drop"; a resync has dropped all that came before it.  *)
Past ==
  IF loop.pc \in {"all", "anchor"} \/ (loop.pc \in {"clear", "hook"} /\ Current.kind # "create")
  THEN loop.i ELSE Applied
Coming(f) ==
  f \in raced \/ \E i \in Past + 1..Len(feed) : feed[i].link = f /\ feed[i].kind # "create"
Explained ==
  \A f \in File :
    /\ table[f] # None /\ table[f].ver # ver[f] => Coming(f)
    /\ \A o \in Op : op[o].pc \in {"store", "build"} =>
         (op[o].list[f] # None /\ op[o].list[f] # ver[f] => Coming(f))

(* A resync has cleared the caches later than the cursor.                  *)
Behind == loop.pc \in {"all", "anchor"} => cursor <= loop.i

IInv == TypeOK /\ Bounds /\ Listings /\ Unborn /\ Behind /\ Explained

(* While the table knows the node's Link, the cached IDs, and the IDs each *)
(* listing goes by, are what is there, or an event has still to clear      *)
(* them, or there was a race, or a move out that no event tells of. The    *)
(* IDs are cleared when the loop is past "clear".                          *)
PastIds ==
  IF loop.pc = "hook" \/ (loop.pc = "drop" /\ Current.kind = "create") THEN loop.i ELSE Applied
NewsIds(f) == f \in raced \cup moved \/ \E i \in PastIds + 1..Len(feed) : feed[i].link = f
Known(S, f) == (f \in S <=> f \in Here) \/ NewsIds(f)
Sets ==
  entry = "own" =>
    \A f \in File :
      /\ ids # None => Known(ids, f)
      /\ \A o \in Op : op[o].pc \in {"resolve", "store", "build"} => Known(op[o].base, f)

(* The same of the node's map, and of the Links a listing has in hand.     *)
News(f) == f \in raced \cup moved \/ Pending(f)
Views ==
  entry = "own" =>
    \A f \in File :
      /\ reg = "live" /\ children # None => (Kept(f) = Shown(f) \/ News(f))
      /\ \A o \in Op : op[o].pc \in {"resolve", "build"} /\ op[o].got[f] # None =>
                         (op[o].got[f].ver = ver[f] \/ News(f))

(* A resync has dropped the node's Link; an event that tells another       *)
(* directory than this one is of a move out.                               *)
Severed == loop.pc \in {"all", "anchor"} => entry # "own"
MovesOut == \A i \in 1..Len(feed) : feed[i].link \in File /\ ~feed[i].here => feed[i].link \in moved

VInv == IInv /\ Sets /\ Views /\ Severed /\ MovesOut

-----------------------------------------------------------------------------
OpRec ==
  [pc : {"idle", "resolve", "ask", "store", "build", "trash", "child", "parent", "ids", "node"},
   todo : SUBSET File, got : [File -> Link \cup {None}], sent : 0..2 * Cardinality(File),
   list : [File -> Version \cup {None}], base : SUBSET File]

LEMMA Finite ==
  /\ Cardinality(File) \in Nat
  /\ \A S \in SUBSET File :
       IsFiniteSet(S) /\ Cardinality(S) \in Nat /\ Cardinality(S) <= Cardinality(File)
BY FileAssumption, FS_Subset, FS_CardinalityType

LEMMA Numbers == MaxChanges \in Nat /\ MaxLists \in Nat /\ 0 \in Version
BY BoundAssumption DEF Version

LEMMA NoOpType == NoOp \in OpRec
BY Finite, Numbers DEF NoOp, OpRec, Version

LEMMA Initial == Init => IInv
<1> SUFFICES ASSUME Init PROVE IInv
  OBVIOUS
<1> USE DEF Init
<1>1. TypeOK
  <2>1. op \in [Op -> OpRec]
    BY NoOpType
  <2> QED BY <2>1, Numbers DEF TypeOK, OpRec, Version, Place, Event
<1>2. Bounds
  BY Numbers DEF Bounds
<1>3. Listings
  BY DEF Listings, ListingOf, NoOp
<1>4. Unborn /\ Behind /\ Explained
  BY DEF Unborn, Behind, Explained, NoOp
<1> QED BY <1>1, <1>2, <1>3, <1>4 DEF IInv

-----------------------------------------------------------------------------
(* Types and bounds.                                                       *)
LEMMA EmitType ==
  ASSUME TypeOK, Bounds, Room, NEW kind \in {"create", "delete", "update"},
         NEW x \in File \cup {Dir}, NEW here \in BOOLEAN, Emit(kind, x, here),
         UNCHANGED <<loop, cursor, resyncs>>
  PROVE  /\ feed' \in Seq(Event) /\ Len(feed') = Len(feed) + 1
         /\ Len(feed') + resyncs <= MaxChanges
         /\ \A i \in 1..Len(feed) : feed'[i] = feed[i]
         /\ feed'[Len(feed) + 1] = [kind |-> kind, link |-> x, here |-> here]
         /\ cursor' \in 0..Len(feed')
         /\ loop' \in [pc : {"idle", "drop", "clear", "hook", "clearLinks", "all", "anchor"},
                       i : 0..Len(feed'), end : 0..Len(feed')]
<1>1. [kind |-> kind, link |-> x, here |-> here] \in Event
  BY DEF Event
<1> QED BY <1>1, Numbers DEF TypeOK, Bounds, Room, Emit

LEMMA PutType ==
  ASSUME TypeOK, Bounds, Room, NEW f \in File, NEW p \in Place, Put(f, p)
  PROVE  /\ place' \in [File -> Place] /\ ver' \in [File -> Version]
         /\ \A g \in File : ver'[g] <= Len(feed) + 1
BY Numbers DEF TypeOK, Bounds, Room, Put, Version

LEMMA SetOpType ==
  ASSUME TypeOK, NEW o \in Op, NEW r \in OpRec, SetOp(o, r)
  PROVE  op' \in [Op -> OpRec]
BY DEF TypeOK, SetOp, OpRec

LEMMA ServerType ==
  ASSUME IInv, NEW f \in File, Change(f), Room, UNCHANGED <<loop, cursor, resyncs>>
  PROVE  /\ place' \in [File -> Place] /\ ver' \in [File -> Version]
         /\ feed' \in Seq(Event) /\ Len(feed') = Len(feed) + 1
         /\ Len(feed') + resyncs <= MaxChanges /\ \A g \in File : ver'[g] <= Len(feed')
         /\ cursor' \in 0..Len(feed')
         /\ loop' \in [pc : {"idle", "drop", "clear", "hook", "clearLinks", "all", "anchor"},
                       i : 0..Len(feed'), end : 0..Len(feed')]
         /\ moved' \subseteq File
<1>1. PICK p \in Place, kind \in {"create", "delete", "update"}, here \in BOOLEAN :
        Put(f, p) /\ Emit(kind, f, here) /\ moved' \in {moved, moved \cup {f}}
  BY DEF Change, Place
<1>2. TypeOK /\ Bounds
  BY DEF IInv
<1>3. /\ feed' \in Seq(Event) /\ Len(feed') = Len(feed) + 1
      /\ Len(feed') + resyncs <= MaxChanges /\ cursor' \in 0..Len(feed')
      /\ loop' \in [pc : {"idle", "drop", "clear", "hook", "clearLinks", "all", "anchor"},
                    i : 0..Len(feed'), end : 0..Len(feed')]
  BY <1>1, <1>2, EmitType
<1>4. place' \in [File -> Place] /\ ver' \in [File -> Version] /\ \A g \in File : ver'[g] <= Len(feed')
  BY <1>1, <1>2, <1>3, PutType
<1>5. moved' \subseteq File
  BY <1>1, <1>2 DEF TypeOK
<1> QED BY <1>3, <1>4, <1>5

LEMMA ListType ==
  ASSUME IInv, NEW o \in Op, ListStep(o)
  PROVE  TypeOK' /\ Bounds'
<1>t. /\ TypeOK /\ Bounds /\ Listings /\ op[o] \in OpRec
      /\ \A r \in OpRec : SetOp(o, r) => op' \in [Op -> OpRec]
  BY SetOpType DEF IInv, TypeOK, OpRec
<1>n. \A x : x \in {"ask", "resolve"} => [NoOp EXCEPT !.pc = x] \in OpRec
  BY NoOpType DEF OpRec
<1>s. op[o].pc \in {"resolve", "build"} /\ op[o].todo # {} =>
        op[o].sent + 1 \in 0..2 * Cardinality(File)
  <2> SUFFICES ASSUME op[o].pc \in {"resolve", "build"}, op[o].todo # {}
               PROVE  op[o].sent + 1 \in 0..2 * Cardinality(File)
    OBVIOUS
  <2>1. op[o].sent = Cardinality(Sent(op[o])) /\ Sent(op[o]) \in SUBSET File
    BY <1>t DEF Listings, ListingOf, Sent
  <2>2. Cardinality(Sent(op[o])) <= Cardinality(File) /\ Cardinality(Sent(op[o])) \in Nat
    BY <2>1, Finite
  <2>3. Cardinality(File) > 0
    <3>1. File # {}
      BY <1>t DEF OpRec
    <3> QED BY <3>1, Finite, FileAssumption, FS_EmptySet
  <2> QED BY <2>1, <2>2, <2>3, Finite
<1>1. CASE Begin(o)
  <2>1. ids # None => [NoOp EXCEPT !.pc = "resolve", !.todo = ids, !.base = ids] \in OpRec
    BY <1>t, NoOpType DEF TypeOK, OpRec
  <2>2. op' \in [Op -> OpRec]
    BY <1>1, <1>t, <1>n, <2>1 DEF Begin
  <2>3. lists' \in 0..MaxLists
    BY <1>1, <1>t, Numbers DEF Begin, TypeOK
  <2>4. UNCHANGED <<server, caches, cursor, loop, resyncs, raced, moved>>
    BY <1>1 DEF Begin
  <2>5. TypeOK'
    BY <1>t, <2>2, <2>3, <2>4 DEF TypeOK, OpRec, server, caches
  <2> QED BY <1>t, <2>4, <2>5 DEF Bounds, server, caches
<1>2. CASE Resolve(o)
  <2>1. PICK f \in op[o].todo : Resolved(o, f)
    BY <1>2 DEF Resolve
  <2>2. op[o].pc = "resolve" /\ f \in File
    BY <1>2, <1>t DEF Resolve, OpRec
  <2>3. table[f] # None =>
          [op[o] EXCEPT !.todo = @ \ {f}, !.got[f] = table[f], !.sent = @ + 1] \in OpRec
    BY <1>t, <1>s, <2>1, <2>2 DEF OpRec, TypeOK
  <2>4. op' \in [Op -> OpRec] /\ ids' \in {ids, None}
    BY <1>t, <1>n, <2>1, <2>3 DEF Resolved
  <2> QED BY <1>2, <1>t, <2>4 DEF Resolve, TypeOK, Bounds, OpRec, server
<1>3. CASE Ask(o)
  <2>1. [op[o] EXCEPT !.pc = IF Here = {} THEN "build" ELSE "store",
                      !.list = [f \in File |-> IF f \in Here THEN ver[f] ELSE None],
                      !.base = Here] \in OpRec
    BY <1>t DEF OpRec, TypeOK, Here
  <2>2. op' \in [Op -> OpRec]
    BY <1>3, <1>t, <2>1, NoOpType DEF Ask, Listed
  <2> QED BY <1>3, <1>t, <2>2 DEF Ask, TypeOK, Bounds, OpRec, server, caches
<1>4. CASE Store(o)
  <2>1. [op[o] EXCEPT !.pc = "build", !.todo = op[o].base] \in OpRec
    BY <1>t DEF OpRec
  <2>2. op' \in [Op -> OpRec] /\ ids' \in SUBSET File
    BY <1>4, <1>t, <2>1 DEF Store, OpRec
  <2> QED BY <1>4, <1>t, <2>2 DEF Store, TypeOK, Bounds, OpRec, server
<1>5. CASE Build(o)
  <2>1. PICK f \in op[o].todo :
          /\ table' = [table EXCEPT ![f] = ChildLink(o, f)]
          /\ SetOp(o, [op[o] EXCEPT !.todo = @ \ {f}, !.got[f] = ChildLink(o, f),
                                    !.sent = @ + 1])
    BY <1>5 DEF Build
  <2>2. op[o].pc = "build" /\ f \in File /\ op[o].list[f] \in Version
    BY <1>5, <1>t DEF Build, OpRec, Listings, ListingOf
  <2>3. ChildLink(o, f) \in Link
    BY <1>t, <2>2 DEF ChildLink, Link, TypeOK
  <2>4. [op[o] EXCEPT !.todo = @ \ {f}, !.got[f] = ChildLink(o, f), !.sent = @ + 1] \in OpRec
    BY <1>t, <1>s, <2>1, <2>2, <2>3 DEF OpRec
  <2>5. op' \in [Op -> OpRec] /\ table' \in [File -> Link \cup {None}]
    BY <1>t, <2>1, <2>3, <2>4 DEF TypeOK
  <2> QED BY <1>5, <1>t, <2>5 DEF Build, TypeOK, Bounds, OpRec, server
<1>6. CASE FinishReaddir(o)
  <2>1. op' \in [Op -> OpRec] /\ children' \in [File -> Link \cup {None}]
    BY <1>6, <1>t, NoOpType DEF FinishReaddir, OpRec
  <2> QED BY <1>6, <1>t, <2>1 DEF FinishReaddir, TypeOK, Bounds, OpRec, server
<1>7. CASE FinishLookup(o)
  <2>1. op' \in [Op -> OpRec]
    BY <1>7, <1>t, NoOpType DEF FinishLookup
  <2> QED BY <1>7, <1>t, <2>1 DEF FinishLookup, TypeOK, Bounds, OpRec, server, caches
<1> QED BY <1>1, <1>2, <1>3, <1>4, <1>5, <1>6, <1>7 DEF ListStep

LEMMA UnlinkType ==
  ASSUME IInv, NEW o \in Op, UnlinkStep(o)
  PROVE  TypeOK' /\ Bounds'
<1>t. /\ TypeOK /\ Bounds /\ op[o] \in OpRec
      /\ \A r \in OpRec : SetOp(o, r) => op' \in [Op -> OpRec]
  BY SetOpType DEF IInv, TypeOK, OpRec
<1>p. \A x \in {"child", "parent", "ids", "node"} : [op[o] EXCEPT !.pc = x] \in OpRec
  BY <1>t DEF OpRec
<1>1. ASSUME NEW f \in File, BeginUnlink(o, f) PROVE TypeOK' /\ Bounds'
  <2>1. Child(f) \in Link \cup {None}
    BY <1>t DEF Child, TypeOK
  <2>2. [NoOp EXCEPT !.pc = "trash", !.todo = {f}, !.got[f] = Child(f)] \in OpRec
    BY <2>1, NoOpType DEF OpRec
  <2>3. op' \in [Op -> OpRec]
    BY <1>1, <1>t, <2>2 DEF BeginUnlink
  <2> QED BY <1>1, <1>t, <2>3 DEF BeginUnlink, TypeOK, Bounds, OpRec, server, caches
<1>2. CASE Trash(o)
  <2>1. op' \in [Op -> OpRec]
    BY <1>2, <1>t, <1>p, NoOpType DEF Trash
  <2>2. PICK f \in op[o].todo :
          \/ Room /\ Put(f, "trashed") /\ Emit("delete", f, TRUE)
          \/ UNCHANGED server
    BY <1>2 DEF Trash
  <2>3. CASE Room /\ Put(f, "trashed") /\ Emit("delete", f, TRUE)
    <3>1. f \in File /\ "trashed" \in Place
      BY <1>t, <2>2 DEF OpRec, Place
    <3>2. UNCHANGED <<caches, cursor, loop, lists, resyncs, raced, moved>>
      BY <1>2 DEF Trash
    <3>3. /\ feed' \in Seq(Event) /\ Len(feed') = Len(feed) + 1
          /\ Len(feed') + resyncs <= MaxChanges /\ cursor' \in 0..Len(feed')
          /\ loop' \in [pc : {"idle", "drop", "clear", "hook", "clearLinks", "all", "anchor"},
                        i : 0..Len(feed'), end : 0..Len(feed')]
      BY <1>t, <2>3, <3>1, <3>2, EmitType
    <3>4. /\ place' \in [File -> Place] /\ ver' \in [File -> Version]
          /\ \A g \in File : ver'[g] <= Len(feed) + 1
      BY <1>t, <2>3, <3>1, PutType
    <3>5. loop'.pc = loop.pc /\ loop'.i = loop.i /\ loop'.end = loop.end
      BY <3>2
    <3>6. Len(feed') <= MaxChanges
      BY <1>t, <3>3, Numbers DEF TypeOK
    <3>7. Bounds'
      BY <1>t, <3>2, <3>3, <3>4, <3>5 DEF Bounds
    <3> QED BY <1>t, <2>1, <3>2, <3>3, <3>4, <3>6, <3>7 DEF TypeOK, OpRec, caches
  <2>4. CASE UNCHANGED server
    BY <1>2, <1>t, <2>1, <2>4 DEF Trash, TypeOK, Bounds, OpRec, server, caches
  <2> QED BY <2>2, <2>3, <2>4
<1>3. CASE UnlinkForgets(o)
  <2>1. op' \in [Op -> OpRec]
    BY <1>3, <1>t, <1>p, NoOpType DEF UnlinkForgets, ForgetRemoved
  <2>2. /\ table' \in [File -> Link \cup {None}] /\ ids' \in {ids, None}
        /\ entry' \in {entry, "none"} /\ children' \in {children, None}
    BY <1>3, <1>t DEF UnlinkForgets, ForgetRemoved, TypeOK
  <2> QED BY <1>3, <1>t, <2>1, <2>2 DEF UnlinkForgets, TypeOK, Bounds, OpRec, server
<1> QED BY <1>1, <1>2, <1>3 DEF UnlinkStep

LEMMA RestType ==
  ASSUME IInv,
         \/ EventStep \/ Resync \/ LookupDir \/ Relink \/ RemoteSelf
         \/ \E f \in File : RemoteChange(f) \/ ListedElsewhere(f)
  PROVE  TypeOK' /\ Bounds'
<1>t. TypeOK /\ Bounds
  BY DEF IInv
<1> USE <1>t, Numbers
<1>r. \A S \in SUBSET File : Race(S) => raced' \subseteq File
  BY DEF Race, TypeOK
<1>e. \A i \in 1..Len(feed) : feed[i] \in Event /\ FirstStep(feed[i]) \in {"clear", "drop"}
  BY DEF TypeOK, FirstStep
<1>1. CASE Poll
  BY <1>1, <1>e DEF Poll, TypeOK, Bounds, server, caches
<1>2. CASE DropLink
  BY <1>2, <1>r DEF DropLink, Race, LoopTo, TypeOK, Bounds, server
<1>3. CASE ClearIds
  BY <1>3, <1>r DEF ClearIds, Cleared, Race, LoopTo, TypeOK, Bounds, server
<1>4. CASE Hook
  <2>1. children' \in {children, None} /\ raced' \subseteq File /\ loop.i \in 1..loop.end
    BY <1>4 DEF Hook, Hooked, Race, TypeOK, Bounds
  <2>2. CASE loop.i < loop.end
    <3>1. /\ loop' = [loop EXCEPT !.pc = FirstStep(feed[loop.i + 1]), !.i = @ + 1]
          /\ cursor' = cursor
      BY <1>4, <2>2 DEF Hook
    <3>2. loop.i + 1 \in 1..Len(feed)
      BY <2>1, <2>2 DEF TypeOK
    <3>3. loop' \in [pc : {"clear", "drop"}, i : 1..loop.end, end : {loop.end}]
      <4>1. loop' = [pc |-> FirstStep(feed[loop.i + 1]), i |-> loop.i + 1, end |-> loop.end]
        BY <3>1 DEF TypeOK
      <4>2. loop.i + 1 \in 1..loop.end
        BY <2>1, <2>2 DEF TypeOK
      <4> QED BY <1>e, <3>2, <4>1, <4>2
    <3>4. /\ UNCHANGED <<server, ids, entry, table, reg, op, lists, resyncs, moved>>
          /\ cursor' = cursor
      BY <1>4, <3>1 DEF Hook
    <3>5. TypeOK'
      BY <2>1, <3>3, <3>4 DEF TypeOK, server
    <3> QED BY <3>3, <3>4, <3>5 DEF Bounds, server
  <2>3. CASE ~(loop.i < loop.end)
    BY <1>4, <2>1, <2>3 DEF Hook, TypeOK, Bounds, server
  <2> QED BY <2>2, <2>3
<1>5. CASE Resync
  <2>1. /\ UNCHANGED <<server, caches, cursor, op, lists, raced, moved>>
        /\ resyncs' = resyncs + 1 /\ Len(feed) + resyncs < MaxChanges
        /\ loop' = [loop EXCEPT !.pc = "clearLinks"]
    BY <1>5 DEF Resync, Room, LoopTo
  <2>2. resyncs' \in 0..MaxChanges /\ Len(feed) + resyncs' <= MaxChanges
    BY <2>1, Numbers DEF TypeOK
  <2>3. loop' \in [pc : {"idle", "drop", "clear", "hook", "clearLinks", "all", "anchor"},
                   i : 0..Len(feed), end : 0..Len(feed)]
    BY <2>1 DEF TypeOK
  <2>4. TypeOK'
    BY <2>1, <2>2, <2>3 DEF TypeOK, server, caches
  <2> QED BY <2>1, <2>2, <2>4 DEF Bounds, server, caches
<1>6. CASE ClearLinks
  BY <1>6 DEF ClearLinks, Race, TypeOK, Bounds, server
<1>7. CASE InvalidateAll
  BY <1>7 DEF InvalidateAll, Race, LoopTo, TypeOK, Bounds, server
<1>8. CASE Anchor
  BY <1>8 DEF Anchor, Skipped, TypeOK, Bounds, server, caches
<1>9. CASE LookupDir \/ Relink
  BY <1>9 DEF LookupDir, Relink, TypeOK, Bounds, server
<1>10. CASE RemoteSelf
  <2>1. /\ feed' \in Seq(Event) /\ Len(feed') = Len(feed) + 1
        /\ Len(feed') + resyncs <= MaxChanges /\ cursor' \in 0..Len(feed')
        /\ loop' \in [pc : {"idle", "drop", "clear", "hook", "clearLinks", "all", "anchor"},
                      i : 0..Len(feed'), end : 0..Len(feed')]
    BY <1>10, EmitType DEF RemoteSelf
  <2>2. UNCHANGED <<place, ver, caches, cursor, loop, op, lists, resyncs, raced, moved>>
    BY <1>10 DEF RemoteSelf
  <2>3. Len(feed') <= MaxChanges
    BY <2>1 DEF TypeOK
  <2>4. TypeOK'
    BY <2>1, <2>2, <2>3 DEF TypeOK, caches
  <2>5. \A g \in File : ver'[g] <= Len(feed')
    BY <2>1, <2>2 DEF TypeOK, Bounds, Version
  <2>6. loop' = loop /\ resyncs' = resyncs
    BY <2>2
  <2> QED BY <2>1, <2>4, <2>5, <2>6 DEF Bounds
<1>11. ASSUME NEW f \in File, RemoteChange(f) PROVE TypeOK' /\ Bounds'
  <2>1. /\ place' \in [File -> Place] /\ ver' \in [File -> Version]
        /\ feed' \in Seq(Event) /\ Len(feed') = Len(feed) + 1
        /\ Len(feed') + resyncs <= MaxChanges /\ \A g \in File : ver'[g] <= Len(feed')
        /\ cursor' \in 0..Len(feed') /\ moved' \subseteq File
        /\ loop' \in [pc : {"idle", "drop", "clear", "hook", "clearLinks", "all", "anchor"},
                      i : 0..Len(feed'), end : 0..Len(feed')]
    BY <1>11, ServerType DEF RemoteChange
  <2> QED BY <1>11, <2>1 DEF RemoteChange, TypeOK, Bounds, caches
<1>12. ASSUME NEW f \in File, ListedElsewhere(f) PROVE TypeOK' /\ Bounds'
  <2>1. [ver |-> ver[f], by |-> "elsewhere"] \in Link
    BY DEF TypeOK, Link
  <2> QED BY <1>12, <2>1 DEF ListedElsewhere, TypeOK, Bounds, server
<1> QED BY <1>1, <1>2, <1>3, <1>4, <1>5, <1>6, <1>7, <1>8, <1>9, <1>10, <1>11, <1>12 DEF EventStep

LEMMA TypeStep == IInv /\ [Next]_vars => TypeOK' /\ Bounds'
<1>1. ASSUME IInv, UNCHANGED vars PROVE TypeOK' /\ Bounds'
  BY <1>1 DEF IInv, vars, server, caches, TypeOK, Bounds
<1> QED BY <1>1, ListType, UnlinkType, RestType DEF Next
-----------------------------------------------------------------------------
(* The listings.                                                           *)
LEMMA OneMore ==
  ASSUME NEW S \in SUBSET File, NEW f \in File \ S
  PROVE  Cardinality(S \cup {f}) = Cardinality(S) + 1
BY Finite, FS_AddElement

LEMMA ListingSet ==
  ASSUME IInv, NEW o \in Op, NEW r, ListingOf(r), SetOp(o, r)
  PROVE  Listings'
BY DEF IInv, TypeOK, Listings, SetOp

LEMMA NoListing == ListingOf(NoOp) /\ ListingOf([NoOp EXCEPT !.pc = "ask"])
BY DEF ListingOf, Sent, NoOp

LEMMA SendOne ==
  ASSUME IInv, NEW o \in Op, op[o].pc \in {"resolve", "build"}, NEW f \in op[o].todo,
         NEW x, x # None
  PROVE  ListingOf([op[o] EXCEPT !.todo = @ \ {f}, !.got[f] = x, !.sent = @ + 1])
<1> DEFINE r == [op[o] EXCEPT !.todo = @ \ {f}, !.got[f] = x, !.sent = @ + 1]
<1>1. op[o] \in OpRec /\ ListingOf(op[o]) /\ f \in File
  BY DEF IInv, TypeOK, Listings, OpRec
<1>2. /\ r.pc = op[o].pc /\ r.todo = op[o].todo \ {f} /\ r.got = [op[o].got EXCEPT ![f] = x]
      /\ r.sent = op[o].sent + 1 /\ r.base = op[o].base /\ r.list = op[o].list
  BY <1>1 DEF OpRec
<1>3. Sent(r) = Sent(op[o]) \cup {f}
  BY <1>1, <1>2 DEF Sent, OpRec
<1>4. Sent(op[o]) \in SUBSET File /\ f \notin Sent(op[o]) /\ f \in op[o].base
  BY <1>1 DEF ListingOf, Sent
<1>5. Cardinality(Sent(r)) = Cardinality(Sent(op[o])) + 1
  BY <1>1, <1>3, <1>4, OneMore
<1>6. Sent(r) = r.base \ r.todo
  BY <1>1, <1>2, <1>3, <1>4 DEF ListingOf
<1> HIDE DEF r
<1>7. ListingOf(r)
  BY <1>1, <1>2, <1>5, <1>6 DEF ListingOf
<1> QED BY <1>7 DEF r

LEMMA ListingStep == IInv /\ [Next]_vars => Listings'
<1> SUFFICES ASSUME IInv, [Next]_vars PROVE Listings'
  OBVIOUS
<1>t. TypeOK /\ Listings /\ \A o \in Op : op[o] \in OpRec
  BY DEF IInv, TypeOK, OpRec
<1>u. op' = op => Listings'
  BY <1>t DEF Listings
<1>1. ASSUME NEW o \in Op, ListStep(o) PROVE Listings'
  <2> DEFINE r == op[o]
  <2>r. r \in OpRec /\ ListingOf(r)
    BY <1>t DEF Listings
  <2>1. CASE Begin(o)
    <3>1. ids # None => ListingOf([NoOp EXCEPT !.pc = "resolve", !.todo = ids, !.base = ids])
      <4> SUFFICES ASSUME ids # None
                   PROVE  ListingOf([NoOp EXCEPT !.pc = "resolve", !.todo = ids, !.base = ids])
        OBVIOUS
      <4>1. Cardinality({}) = 0
        BY FS_EmptySet
      <4>2. Sent([NoOp EXCEPT !.pc = "resolve", !.todo = ids, !.base = ids]) = {}
        BY DEF Sent, NoOp
      <4> QED BY <4>1, <4>2 DEF ListingOf, NoOp
    <3> QED BY <2>1, <3>1, NoListing, ListingSet DEF Begin
  <2>2. CASE Resolve(o)
    <3>1. PICK f \in r.todo : Resolved(o, f)
      BY <2>2 DEF Resolve
    <3>2. table[f] # None =>
            ListingOf([r EXCEPT !.todo = @ \ {f}, !.got[f] = table[f], !.sent = @ + 1])
      BY <2>2, <3>1, SendOne DEF Resolve
    <3> QED BY <3>1, <3>2, NoListing, ListingSet DEF Resolved
  <2>3. CASE Ask(o)
    <3> DEFINE list == [f \in File |-> IF f \in Here THEN ver[f] ELSE None]
               n(x) == [r EXCEPT !.pc = x, !.list = list, !.base = Here]
    <3>1. r.todo = {} /\ Sent(r) = {} /\ r.sent = 0
      BY <2>r, <2>3 DEF Ask, ListingOf
    <3>2. Here = {f \in File : list[f] # None}
      BY <1>t, NoneAssumption DEF Here, TypeOK
    <3>3. \A x : /\ n(x).pc = x /\ n(x).todo = {} /\ Sent(n(x)) = {} /\ n(x).sent = 0
                 /\ n(x).base = Here /\ n(x).list = list
      BY <2>r, <3>1 DEF OpRec, Sent
    <3>4. Cardinality({}) = 0
      BY FS_EmptySet
    <3> HIDE DEF n, list
    <3>5. ListingOf(n("store"))
      <4> DEFINE m == n("store")
      <4>1. m.pc = "store" /\ Sent(m) = {} /\ m.sent = 0 /\ m.base = {f \in File : (m.list)[f] # None}
        BY <3>2, <3>3
      <4> HIDE DEF m
      <4>2. ListingOf(m)
        BY <4>1 DEF ListingOf
      <4> QED BY <4>2 DEF m
    <3>6. ASSUME Here = {} PROVE ListingOf(n("build"))
      <4> DEFINE m == n("build")
      <4>1. m.pc = "build" /\ m.todo = {} /\ Sent(m) = {} /\ m.sent = 0 /\ m.base = {}
        BY <3>3, <3>6
      <4>2. {f \in File : (m.list)[f] # None} = {}
        BY <3>2, <3>3, <3>6
      <4> HIDE DEF m
      <4>3. ListingOf(m)
        BY <4>1, <4>2, <3>4 DEF ListingOf
      <4> QED BY <4>3 DEF m
    <3> QED BY <2>3, <3>5, <3>6, NoListing, ListingSet DEF Ask, Listed, n, list
  <2>4. CASE Store(o)
    <3> DEFINE n == [r EXCEPT !.pc = "build", !.todo = r.base]
    <3>1. /\ n.pc = "build" /\ n.todo = r.base /\ n.base = r.base /\ n.list = r.list
          /\ n.sent = r.sent /\ Sent(n) = Sent(r)
      BY <2>r DEF OpRec, Sent
    <3>2. Cardinality({}) = 0
      BY FS_EmptySet
    <3>3. ListingOf(n)
      BY <2>r, <2>4, <3>1, <3>2 DEF ListingOf, Store
    <3> QED BY <2>4, <3>3, ListingSet DEF Store
  <2>5. CASE Build(o)
    <3>1. PICK f \in r.todo :
            SetOp(o, [r EXCEPT !.todo = @ \ {f}, !.got[f] = ChildLink(o, f), !.sent = @ + 1])
      BY <2>5 DEF Build
    <3>2. ChildLink(o, f) # None
      <4>1. r.list[f] \in Version /\ f \in File
        BY <2>r, <2>5 DEF Build, OpRec, ListingOf
      <4> QED BY <4>1, NoneAssumption DEF ChildLink, Link
    <3> QED BY <2>5, <3>1, <3>2, SendOne, ListingSet DEF Build
  <2>6. CASE FinishReaddir(o) \/ FinishLookup(o)
    BY <2>6, NoListing, ListingSet DEF FinishReaddir, FinishLookup
  <2> QED BY <1>1, <2>1, <2>2, <2>3, <2>4, <2>5, <2>6 DEF ListStep
<1>2. ASSUME NEW o \in Op, UnlinkStep(o) PROVE Listings'
  <2>1. ASSUME NEW x \in {"child", "parent", "ids", "node"}
        PROVE  ListingOf([op[o] EXCEPT !.pc = x])
    BY <1>t DEF ListingOf, OpRec
  <2>2. ASSUME NEW f \in File
        PROVE  ListingOf([NoOp EXCEPT !.pc = "trash", !.todo = {f}, !.got[f] = Child(f)])
    BY DEF ListingOf, NoOp
  <2>3. ASSUME NEW f \in File, BeginUnlink(o, f) PROVE Listings'
    BY <2>2, <2>3, ListingSet DEF BeginUnlink
  <2>4. CASE Trash(o)
    BY <2>1, <2>4, NoListing, ListingSet DEF Trash
  <2>5. CASE UnlinkForgets(o)
    BY <2>1, <2>5, NoListing, ListingSet DEF UnlinkForgets, ForgetRemoved
  <2> QED BY <1>2, <2>3, <2>4, <2>5 DEF UnlinkStep
<1>3. CASE EventStep \/ Resync
  BY <1>u, <1>3 DEF EventStep, Resync, Poll, DropLink, ClearIds, Hook, ClearLinks, InvalidateAll,
                     Anchor
<1>4. CASE LookupDir \/ Relink \/ RemoteSelf
  BY <1>u, <1>4 DEF LookupDir, Relink, RemoteSelf
<1>5. ASSUME NEW f \in File, RemoteChange(f) \/ ListedElsewhere(f) PROVE Listings'
  BY <1>u, <1>5 DEF RemoteChange, ListedElsewhere
<1>6. CASE UNCHANGED vars
  BY <1>u, <1>6 DEF vars
<1> QED BY <1>1, <1>2, <1>3, <1>4, <1>5, <1>6 DEF Next
-----------------------------------------------------------------------------
(* The table. A step of the mount that is not the event loop's leaves what *)
(* is coming alone, and a change at the server adds to it.                 *)
LEMMA ComingKept ==
  ASSUME IInv, UNCHANGED <<loop, cursor, raced>>, Len(feed') >= Len(feed),
         \A i \in 1..Len(feed) : feed'[i] = feed[i], feed' \in Seq(Event)
  PROVE  /\ Past' = Past /\ Past \in 0..Len(feed)
         /\ \A f : Coming(f) => Coming(f)'
<1>1. loop.pc \in {"clear", "hook"} => loop.i \in 1..Len(feed)
  BY DEF IInv, TypeOK, Bounds
<1>2. Past \in 0..Len(feed)
  BY DEF IInv, TypeOK, Bounds, Past, Applied
<1>3. Past' = Past
  BY <1>1 DEF Past, Applied, Current
<1>4. ASSUME NEW f, Coming(f) PROVE Coming(f)'
  <2>1. CASE f \in raced
    BY <2>1 DEF Coming
  <2>2. CASE f \notin raced
    <3>1. PICK i \in Past + 1..Len(feed) : feed[i].link = f /\ feed[i].kind # "create"
      BY <1>4, <2>2 DEF Coming
    <3>2. i \in 1..Len(feed) /\ i \in Past' + 1..Len(feed')
      BY <1>2, <1>3, <3>1 DEF IInv, TypeOK
    <3> QED BY <3>1, <3>2 DEF Coming
  <2> QED BY <2>1, <2>2
<1> QED BY <1>2, <1>3, <1>4

(* A request's list is the one it had, or what the server has.             *)
SameList(q) ==
  /\ op'[q].list = op[q].list
  /\ op'[q].pc \in {"store", "build"} => op[q].pc \in {"store", "build"}
KnownList(q) ==
  \A f \in File : \/ op'[q].list[f] = None
                  \/ op'[q].list[f] = ver[f] /\ place[f] = "here"
                  \/ SameList(q)

LEMMA RequestLists ==
  ASSUME IInv, NEW o \in Op, ListStep(o) \/ UnlinkStep(o)
  PROVE  \A q \in Op : KnownList(q)
<1>t. TypeOK /\ Listings /\ op[o] \in OpRec /\ \A q \in Op : op[q] \in OpRec
  BY DEF IInv, TypeOK, OpRec
<1>s. ASSUME NEW r, SetOp(o, r),
             \/ \A f \in File : r.list[f] \in {None} \cup {ver[g] : g \in {f} \cap Here}
             \/ /\ r.list = op[o].list
                /\ (r.pc \in {"store", "build"} => op[o].pc \in {"store", "build"})
      PROVE  \A q \in Op : KnownList(q)
  <2>1. op'[o] = r /\ \A q \in Op \ {o} : op'[q] = op[q]
    BY <1>s, <1>t DEF SetOp, TypeOK
  <2> QED BY <1>s, <2>1 DEF KnownList, SameList, Here
<1>n. \A f \in File : NoOp.list[f] = None
  BY DEF NoOp
<1>0. SetOp(o, NoOp) => \A q \in Op : KnownList(q)
  BY <1>s, <1>n
<1>a. SetOp(o, [NoOp EXCEPT !.pc = "ask"]) => \A q \in Op : KnownList(q)
  <2>1. [NoOp EXCEPT !.pc = "ask"].list = NoOp.list
    BY DEF NoOp
  <2> QED BY <1>s, <1>n, <2>1
<1>1. CASE Begin(o)
  <2>1. [NoOp EXCEPT !.pc = "resolve", !.todo = ids, !.base = ids].list = NoOp.list
    BY DEF NoOp
  <2> QED BY <1>1, <1>a, <1>s, <1>n, <2>1 DEF Begin
<1>2. CASE Resolve(o)
  <2>1. \A f, x : LET r == [op[o] EXCEPT !.todo = @ \ {f}, !.got[f] = x, !.sent = @ + 1]
                  IN r.list = op[o].list /\ r.pc = op[o].pc
    BY <1>t DEF OpRec
  <2> QED BY <1>2, <1>a, <1>s, <2>1 DEF Resolve, Resolved
<1>3. CASE Ask(o)
  <2> DEFINE list == [f \in File |-> IF f \in Here THEN ver[f] ELSE None]
             r == [op[o] EXCEPT !.pc = IF Here = {} THEN "build" ELSE "store",
                                !.list = list, !.base = Here]
  <2>1. r.list = list
    BY <1>t DEF OpRec
  <2>2. \A f \in File : list[f] \in {None} \cup {ver[g] : g \in {f} \cap Here}
    OBVIOUS
  <2>3. SetOp(o, r) \/ SetOp(o, NoOp)
    BY <1>3 DEF Ask, Listed
  <2> HIDE DEF r, list
  <2> QED BY <1>0, <1>s, <2>1, <2>2, <2>3
<1>4. CASE Store(o)
  <2>1. [op[o] EXCEPT !.pc = "build", !.todo = op[o].base].list = op[o].list
    BY <1>t DEF OpRec
  <2> QED BY <1>4, <1>s, <2>1 DEF Store
<1>5. CASE Build(o)
  <2>1. \A f, x : LET r == [op[o] EXCEPT !.todo = @ \ {f}, !.got[f] = x, !.sent = @ + 1]
                  IN r.list = op[o].list /\ r.pc = op[o].pc
    BY <1>t DEF OpRec
  <2> QED BY <1>5, <1>s, <2>1 DEF Build
<1>6. CASE FinishReaddir(o) \/ FinishLookup(o)
  BY <1>0, <1>6 DEF FinishReaddir, FinishLookup
<1>7. CASE UnlinkStep(o)
  <2>1. ASSUME NEW f \in File, BeginUnlink(o, f) PROVE \A q \in Op : KnownList(q)
    <3>1. [NoOp EXCEPT !.pc = "trash", !.todo = {f}, !.got[f] = Child(f)].list = NoOp.list
      BY DEF NoOp
    <3> QED BY <1>s, <1>n, <2>1, <3>1 DEF BeginUnlink
  <2>2. \A x \in {"child", "parent", "ids", "node"} :
          [op[o] EXCEPT !.pc = x].list = op[o].list /\ [op[o] EXCEPT !.pc = x].pc = x
    BY <1>t DEF OpRec
  <2>3. CASE Trash(o)
    BY <1>0, <1>s, <2>2, <2>3 DEF Trash
  <2>4. CASE UnlinkForgets(o)
    BY <1>0, <1>s, <2>2, <2>4 DEF UnlinkForgets, ForgetRemoved
  <2> QED BY <1>7, <2>1, <2>3, <2>4 DEF UnlinkStep
<1> QED BY <1>1, <1>2, <1>3, <1>4, <1>5, <1>6, <1>7 DEF ListStep

(* Nothing changes at the server or in the loop: what may be in the table  *)
(* is what was there, or what a list of the server says.                   *)
LEMMA Quietly ==
  ASSUME IInv, UNCHANGED <<server, loop, cursor, raced>>, \A q \in Op : KnownList(q),
         \A f \in File : \/ table'[f] \in {table[f], None}
                         \/ table'[f].ver = ver[f] /\ place[f] # "unborn"
                         \/ \E q \in Op : /\ op[q].pc = "build" /\ op[q].list[f] # None
                                          /\ table'[f].ver = op[q].list[f]
  PROVE  Unborn' /\ Explained'
<1>1. \A f : Coming(f) => Coming(f)'
  BY ComingKept DEF IInv, TypeOK, server
<1>2. place' = place /\ ver' = ver
  BY DEF server
<1>3. Unborn'
  BY <1>2 DEF IInv, Unborn, KnownList, SameList
<1>4. Explained'
  <2> SUFFICES ASSUME NEW f \in File
               PROVE  /\ table'[f] # None /\ table'[f].ver # ver[f] => Coming(f)'
                      /\ \A o \in Op : op'[o].pc \in {"store", "build"} =>
                           (op'[o].list[f] # None /\ op'[o].list[f] # ver[f] => Coming(f)')
    BY <1>2 DEF Explained
  <2>1. /\ table[f] # None /\ table[f].ver # ver[f] => Coming(f)
        /\ \A o \in Op : op[o].pc \in {"store", "build"} =>
             (op[o].list[f] # None /\ op[o].list[f] # ver[f] => Coming(f))
    BY DEF IInv, Explained
  <2> QED BY <1>1, <2>1 DEF KnownList, SameList
<1> QED BY <1>3, <1>4

(* A change of one child at the server.                                    *)
LEMMA Changed ==
  ASSUME IInv, Room, UNCHANGED <<loop, cursor, raced, table, resyncs>>,
         \A q \in Op : SameList(q) \/ \A f \in File : op'[q].list[f] = None,
         NEW f \in File, NEW p \in Place \ {"unborn"}, Put(f, p),
         NEW kind \in {"create", "delete", "update"}, NEW here \in BOOLEAN, Emit(kind, f, here),
         kind = "create" => place[f] = "unborn"
  PROVE  Unborn' /\ Explained'
<1>1. /\ feed' \in Seq(Event) /\ Len(feed') = Len(feed) + 1
      /\ \A i \in 1..Len(feed) : feed'[i] = feed[i]
      /\ feed'[Len(feed) + 1] = [kind |-> kind, link |-> f, here |-> here]
  BY EmitType DEF IInv
<1>2. Past' = Past /\ Past \in 0..Len(feed) /\ \A g : Coming(g) => Coming(g)'
  BY <1>1, ComingKept DEF IInv, TypeOK
<1>3. \A g \in File \ {f} : ver'[g] = ver[g] /\ place'[g] = place[g]
  BY DEF IInv, TypeOK, Put
<1>4. place'[f] # "unborn"
  BY DEF IInv, TypeOK, Put
<1>5. kind # "create" => Coming(f)'
  <2> SUFFICES ASSUME kind # "create" PROVE Coming(f)'
    OBVIOUS
  <2>1. Len(feed) + 1 \in Past' + 1..Len(feed')
    BY <1>1, <1>2 DEF IInv, TypeOK
  <2>2. feed'[Len(feed) + 1].link = f /\ feed'[Len(feed) + 1].kind # "create"
    BY <1>1
  <2> QED BY <2>1, <2>2 DEF Coming
<1>6. kind = "create" => table[f] = None /\ \A q \in Op : op[q].list[f] = None
  BY DEF IInv, Unborn
<1>7. Unborn'
  BY <1>3, <1>4 DEF IInv, Unborn, SameList
<1>8. Explained'
  <2> SUFFICES ASSUME NEW g \in File
               PROVE  /\ table'[g] # None /\ table'[g].ver # ver'[g] => Coming(g)'
                      /\ \A o \in Op : op'[o].pc \in {"store", "build"} =>
                           (op'[o].list[g] # None /\ op'[o].list[g] # ver'[g] => Coming(g)')
    BY DEF Explained
  <2>1. /\ table[g] # None /\ table[g].ver # ver[g] => Coming(g)
        /\ \A o \in Op : op[o].pc \in {"store", "build"} =>
             (op[o].list[g] # None /\ op[o].list[g] # ver[g] => Coming(g))
    BY DEF IInv, Explained
  <2>2. CASE g # f
    BY <1>2, <1>3, <2>1, <2>2 DEF SameList
  <2>3. CASE g = f
    BY <1>5, <1>6, <2>3 DEF SameList
  <2> QED BY <2>2, <2>3
<1> QED BY <1>7, <1>8

(* A step of the loop. Requests that run are told of as raced.             *)
LEMMA Applies ==
  ASSUME IInv, UNCHANGED <<server, op>>,
         \A f \in File : table'[f] \in {table[f], None},
         \A f \in File : \/ Coming(f) => Coming(f)'
                         \/ table'[f] = None /\ (Running => f \in raced')
  PROVE  Unborn' /\ Explained'
<1>1. place' = place /\ ver' = ver
  BY DEF server
<1>2. Unborn'
  BY <1>1 DEF IInv, Unborn
<1>3. \A o \in Op : op[o].pc \in {"store", "build"} => Running
  BY DEF Running, Active
<1>4. Explained'
  <2> SUFFICES ASSUME NEW f \in File
               PROVE  /\ table'[f] # None /\ table'[f].ver # ver[f] => Coming(f)'
                      /\ \A o \in Op : op[o].pc \in {"store", "build"} =>
                           (op[o].list[f] # None /\ op[o].list[f] # ver[f] => Coming(f)')
    BY <1>1 DEF Explained
  <2>1. /\ table[f] # None /\ table[f].ver # ver[f] => Coming(f)
        /\ \A o \in Op : op[o].pc \in {"store", "build"} =>
             (op[o].list[f] # None /\ op[o].list[f] # ver[f] => Coming(f))
    BY DEF IInv, Explained
  <2>2. f \in raced' => Coming(f)'
    BY DEF Coming
  <2> QED BY <1>3, <2>1, <2>2
<1> QED BY <1>2, <1>4

LEMMA RequestTable ==
  ASSUME IInv, NEW o \in Op, ListStep(o) \/ UnlinkStep(o)
  PROVE  Unborn' /\ Explained'
<1>t. TypeOK /\ Listings /\ op[o] \in OpRec
  BY DEF IInv, TypeOK, OpRec
<1>k. \A q \in Op : KnownList(q)
  BY RequestLists
<1>1. CASE ListStep(o)
  <2>1. UNCHANGED <<server, loop, cursor, raced>>
    BY <1>1 DEF ListStep, Begin, Resolve, Ask, Store, Build, FinishReaddir, FinishLookup
  <2>2. CASE Build(o)
    <3>1. PICK f \in op[o].todo : table' = [table EXCEPT ![f] = ChildLink(o, f)]
      BY <2>2 DEF Build
    <3>2. op[o].pc = "build" /\ f \in File /\ op[o].list[f] # None
      BY <1>t, <2>2 DEF Build, OpRec, Listings, ListingOf
    <3>3. \/ ChildLink(o, f) = table[f]
          \/ ChildLink(o, f).ver = op[o].list[f]
      BY DEF ChildLink
    <3>4. table'[f] = ChildLink(o, f) /\ \A g \in File \ {f} : table'[g] = table[g]
      BY <1>t, <3>1, <3>2 DEF TypeOK
    <3> QED BY <1>k, <2>1, <3>2, <3>3, <3>4, Quietly
  <2>3. CASE ~Build(o)
    <3>1. table' = table
      BY <1>1, <2>3 DEF ListStep, Begin, Resolve, Ask, Store, FinishReaddir, FinishLookup, caches
    <3> QED BY <1>k, <2>1, <3>1, Quietly
  <2> QED BY <2>2, <2>3
<1>2. ASSUME NEW f \in File, BeginUnlink(o, f) PROVE Unborn' /\ Explained'
  <2>1. UNCHANGED <<server, loop, cursor, raced, table>>
    BY <1>2 DEF BeginUnlink, caches
  <2> QED BY <1>k, <2>1, Quietly
<1>3. CASE Trash(o)
  <2>1. UNCHANGED <<loop, cursor, raced, table, resyncs>>
    BY <1>3 DEF Trash, caches
  <2>2. PICK f \in op[o].todo :
          \/ /\ Room /\ Put(f, "trashed") /\ Emit("delete", f, TRUE)
             /\ SetOp(o, [op[o] EXCEPT !.pc = "child"])
          \/ UNCHANGED server
    BY <1>3 DEF Trash
  <2>3. CASE UNCHANGED server
    BY <1>k, <2>1, <2>3, Quietly
  <2>4. CASE /\ Room /\ Put(f, "trashed") /\ Emit("delete", f, TRUE)
             /\ SetOp(o, [op[o] EXCEPT !.pc = "child"])
    <3>1. /\ [op[o] EXCEPT !.pc = "child"].list = op[o].list
          /\ [op[o] EXCEPT !.pc = "child"].pc = "child"
      BY <1>t DEF OpRec
    <3>2. \A q \in Op : SameList(q)
      BY <1>t, <2>4, <3>1 DEF SetOp, SameList, TypeOK
    <3>3. f \in File /\ "trashed" \in Place \ {"unborn"}
      BY <1>t DEF OpRec, Place
    <3> QED BY <2>1, <2>4, <3>2, <3>3, Changed
  <2> QED BY <2>2, <2>3, <2>4
<1>4. CASE UnlinkForgets(o)
  <2>1. UNCHANGED <<server, loop, cursor, raced>>
    BY <1>4 DEF UnlinkForgets
  <2>2. \A f \in File : table'[f] \in {table[f], None}
    BY <1>4 DEF UnlinkForgets, ForgetRemoved
  <2> QED BY <1>k, <2>1, <2>2, Quietly
<1> QED BY <1>1, <1>2, <1>3, <1>4 DEF UnlinkStep

LEMMA ServerTable ==
  ASSUME IInv,
         \/ LookupDir \/ Relink \/ RemoteSelf
         \/ \E f \in File : RemoteChange(f) \/ ListedElsewhere(f)
  PROVE  Unborn' /\ Explained'
<1>k. op' = op => \A q \in Op : KnownList(q) /\ SameList(q)
  BY DEF KnownList, SameList
<1>1. CASE LookupDir \/ Relink
  <2>1. UNCHANGED <<server, loop, cursor, raced, table, op>>
    BY <1>1 DEF LookupDir, Relink
  <2> QED BY <1>k, <2>1, Quietly
<1>2. CASE RemoteSelf
  <2>1. UNCHANGED <<place, ver, table, cursor, loop, op, resyncs, raced>>
    BY <1>2 DEF RemoteSelf, caches
  <2>2. /\ feed' \in Seq(Event) /\ Len(feed') = Len(feed) + 1
        /\ \A i \in 1..Len(feed) : feed'[i] = feed[i]
    BY <1>2, <2>1, EmitType DEF RemoteSelf, IInv
  <2>3. \A f : Coming(f) => Coming(f)'
    BY <2>1, <2>2, ComingKept DEF IInv, TypeOK
  <2> QED BY <2>1, <2>3 DEF IInv, Unborn, Explained
<1>3. ASSUME NEW f \in File, RemoteChange(f) PROVE Unborn' /\ Explained'
  <2>1. UNCHANGED <<loop, cursor, raced, table, op, resyncs>> /\ Room
    BY <1>3 DEF RemoteChange, caches
  <2>2. PICK p \in Place \ {"unborn"}, kind \in {"create", "delete", "update"}, here \in BOOLEAN :
          Put(f, p) /\ Emit(kind, f, here) /\ (kind = "create" => place[f] = "unborn")
    BY <1>3 DEF RemoteChange, Change, Place
  <2> QED BY <1>k, <2>1, <2>2, Changed
<1>4. ASSUME NEW f \in File, ListedElsewhere(f) PROVE Unborn' /\ Explained'
  <2>1. UNCHANGED <<server, loop, cursor, raced, op>>
    BY <1>4 DEF ListedElsewhere
  <2>2. \A g \in File :
          table'[g] = table[g] \/ (table'[g].ver = ver[g] /\ place[g] # "unborn")
    <3>1. table' = [table EXCEPT ![f] = [ver |-> ver[f], by |-> "elsewhere"]]
          /\ place[f] = "elsewhere"
      BY <1>4 DEF ListedElsewhere
    <3>2. table'[f].ver = ver[f] /\ \A g \in File \ {f} : table'[g] = table[g]
      BY <3>1 DEF IInv, TypeOK
    <3> QED BY <3>1, <3>2
  <2> QED BY <1>k, <2>1, <2>2, Quietly
<1> QED BY <1>1, <1>2, <1>3, <1>4

LEMMA LoopTable ==
  ASSUME IInv, EventStep \/ Resync
  PROVE  Unborn' /\ Explained' /\ Behind'
<1>t. TypeOK /\ Bounds /\ Behind
  BY DEF IInv
<1>i. loop.pc \in {"drop", "clear", "hook"} => loop.i \in 1..loop.end /\ loop.end <= Len(feed)
  BY <1>t DEF TypeOK, Bounds
<1>u. UNCHANGED <<server, op>>
  BY DEF EventStep, Resync, Poll, DropLink, ClearIds, Hook, ClearLinks, InvalidateAll, Anchor
<1>f. feed' = feed
  BY <1>u DEF server
(* What is coming stays so while the loop passes no event of the child.    *)
<1>c. ASSUME raced \subseteq raced', Past' = Past PROVE \A f : Coming(f) => Coming(f)'
  BY <1>c, <1>f DEF Coming
<1>p. ASSUME raced \subseteq raced', Past' = Past + 1, NEW f,
             feed[Past + 1].link = f => feed[Past + 1].kind = "create", Coming(f)
      PROVE  Coming(f)'
  <2>1. Past \in 0..Len(feed)
    BY <1>t, <1>i DEF TypeOK, Past, Applied
  <2>2. CASE f \in raced
    BY <1>p, <2>2 DEF Coming
  <2>3. CASE f \notin raced
    <3>1. PICK i \in Past + 1..Len(feed) : feed[i].link = f /\ feed[i].kind # "create"
      BY <1>p, <2>3 DEF Coming
    <3>2. i \in Past + 1 + 1..Len(feed)
      BY <1>p, <2>1, <3>1
    <3> QED BY <1>f, <1>p, <3>1, <3>2 DEF Coming
  <2> QED BY <2>2, <2>3
<1>r. \A S : Race(S) => raced \subseteq raced' /\ (Running => S \cap File \subseteq raced')
  BY DEF Race
<1>a. ASSUME table' = table \/ \A f \in File : table'[f] = None,
             \A f \in File : Coming(f) => Coming(f)'
      PROVE  Unborn' /\ Explained'
  BY <1>a, <1>u, Applies
<1>1. CASE Poll
  <2>1. Past' = Past /\ UNCHANGED <<raced, table>> /\ loop'.pc \in {"drop", "clear"}
    BY <1>1, <1>f DEF Poll, Past, Applied, Current, FirstStep, caches, IInv, TypeOK
  <2> QED BY <1>a, <1>c, <2>1 DEF Behind
<1>2. CASE DropLink
  <2>1. /\ loop.pc = "drop" /\ loop'.i = loop.i /\ raced \subseteq raced'
        /\ loop'.pc = IF Current.kind = "create" THEN "hook" ELSE "clear"
        /\ Running => {Current.link} \cap File \subseteq raced'
        /\ \A f \in File : table'[f] = IF Dropped(Current) = f THEN None ELSE table[f]
    BY <1>2, <1>r, <1>t DEF DropLink, LoopTo, TypeOK
  <2>2. Current' = Current
    BY <1>f, <2>1 DEF Current
  <2>3. CASE Current.kind = "create"
    <3>1. Past' = Past
      BY <2>1, <2>2, <2>3 DEF Past, Applied
    <3> QED BY <1>c, <1>u, <2>1, <3>1, Applies DEF Behind
  <2>4. CASE Current.kind # "create"
    <3>1. Past = loop.i - 1 /\ Past' = loop.i
      BY <2>1, <2>2, <2>4 DEF Past, Applied
    <3>2. Past' = Past + 1 /\ feed[Past + 1] = Current
      BY <1>t, <3>1 DEF Current, TypeOK
    <3>3. \A f \in File : f # Current.link => (Coming(f) => Coming(f)')
      BY <1>p, <2>1, <3>2
    <3>4. \A f \in File : f = Current.link => table'[f] = None /\ (Running => f \in raced')
      BY <2>1, <2>4 DEF Dropped
    <3> QED BY <1>u, <2>1, <2>4, <3>3, <3>4, Applies DEF Behind
  <2> QED BY <2>3, <2>4
<1>3. CASE ClearIds
  <2>1. /\ loop.pc = "clear" /\ loop'.i = loop.i /\ raced \subseteq raced' /\ table' = table
        /\ loop'.pc = IF Current.kind = "create" THEN "drop" ELSE "hook"
    BY <1>3, <1>r, <1>t DEF ClearIds, LoopTo, TypeOK
  <2>2. Past' = Past
    BY <1>f, <2>1 DEF Past, Applied, Current
  <2> QED BY <1>a, <1>c, <2>1, <2>2 DEF Behind
<1>4. CASE Hook
  <2>1. loop.pc = "hook" /\ raced \subseteq raced' /\ table' = table
    BY <1>4, <1>r DEF Hook
  <2>2. Past' = loop.i /\ loop'.pc \in {"drop", "clear", "idle"}
    <3>1. CASE loop.i < loop.end
      <4>1. loop' = [loop EXCEPT !.pc = FirstStep(feed[loop.i + 1]), !.i = loop.i + 1]
        BY <1>4, <3>1 DEF Hook
      <4>2. loop'.i = loop.i + 1 /\ loop'.pc = FirstStep(feed[loop.i + 1])
        BY <1>t, <4>1 DEF TypeOK
      <4>3. Current' = feed[loop.i + 1] /\ loop.i \in Nat
        BY <1>f, <1>i, <2>1, <4>2 DEF Current
      <4> QED BY <4>2, <4>3 DEF Past, Applied, FirstStep
    <3>2. CASE ~(loop.i < loop.end)
      <4>1. cursor' = loop.end /\ loop'.pc = "idle"
        BY <1>4, <3>2 DEF Hook
      <4>2. loop.end = loop.i
        BY <1>i, <1>t, <2>1, <3>2 DEF TypeOK
      <4> QED BY <4>1, <4>2 DEF Past, Applied
    <3> QED BY <3>1, <3>2
  <2>3. CASE Current.kind # "create"
    <3>1. Past' = Past
      BY <2>1, <2>2, <2>3 DEF Past
    <3> QED BY <1>a, <1>c, <2>1, <2>2, <3>1 DEF Behind
  <2>4. CASE Current.kind = "create"
    <3>1. Past = loop.i - 1
      BY <2>1, <2>4 DEF Past, Applied
    <3>2. Past' = Past + 1 /\ feed[Past + 1].kind = "create"
      BY <1>i, <2>1, <2>2, <2>4, <3>1 DEF Current
    <3>3. \A f \in File : Coming(f) => Coming(f)'
      BY <1>p, <2>1, <3>2
    <3> QED BY <1>a, <2>1, <2>2, <3>3 DEF Behind
  <2> QED BY <2>3, <2>4
<1>5. CASE Resync
  <2>1. loop.pc = "idle" /\ loop'.pc = "clearLinks" /\ UNCHANGED <<raced, table, cursor>>
    BY <1>5, <1>t DEF Resync, LoopTo, TypeOK, caches
  <2>2. Past' = Past
    BY <2>1 DEF Past, Applied
  <2> QED BY <1>a, <1>c, <2>1, <2>2 DEF Behind
<1>6. CASE ClearLinks
  <2>1. /\ \A f \in File : table'[f] = None /\ (Running => f \in raced')
        /\ cursor' = cursor /\ loop' = [pc |-> "all", i |-> Len(feed), end |-> 0]
    BY <1>6, <1>r DEF ClearLinks
  <2>2. Behind'
    BY <1>t, <2>1 DEF Behind, TypeOK
  <2> QED BY <1>u, <2>1, <2>2, Applies
<1>7. CASE InvalidateAll
  <2>1. /\ loop.pc = "all" /\ loop'.pc = "anchor" /\ loop'.i = loop.i /\ raced \subseteq raced'
        /\ table' = table /\ cursor' = cursor
    BY <1>7, <1>r, <1>t DEF InvalidateAll, LoopTo, TypeOK
  <2>2. Past' = Past
    BY <2>1 DEF Past
  <2> QED BY <1>a, <1>c, <1>t, <2>1, <2>2 DEF Behind
<1>8. CASE Anchor
  <2>1. loop.pc = "anchor" /\ loop'.pc = "idle" /\ table' = table
    BY <1>8 DEF Anchor, caches
  <2>2. Past = loop.i /\ Past' = cursor' /\ cursor <= loop.i
    BY <1>t, <2>1 DEF Past, Applied, Behind
  <2>3. ASSUME NEW f \in File, Coming(f) PROVE Coming(f)'
    <3>1. CASE f \in raced
      BY <1>8, <3>1 DEF Anchor, Coming
    <3>2. CASE f \notin raced
      <4>1. PICK i \in loop.i + 1..Len(feed) : feed[i].link = f /\ feed[i].kind # "create"
        BY <2>2, <2>3, <3>2 DEF Coming
      <4>2. CASE raced' = raced \cup Skipped
        BY <4>1, <4>2 DEF Skipped, Coming
      <4>3. CASE cursor' = cursor
        <5>1. i \in Past' + 1..Len(feed')
          BY <1>f, <1>t, <2>2, <4>1, <4>3 DEF TypeOK
        <5> QED BY <1>f, <4>1, <5>1 DEF Coming
      <4> QED BY <1>8, <4>2, <4>3 DEF Anchor
    <3> QED BY <3>1, <3>2
  <2> QED BY <1>a, <2>1, <2>3 DEF Behind
<1> QED BY <1>1, <1>2, <1>3, <1>4, <1>5, <1>6, <1>7, <1>8 DEF EventStep

-----------------------------------------------------------------------------
(* All of it is kept by every step.                                        *)
LEMMA Inductive == IInv /\ [Next]_vars => IInv'
<1> SUFFICES ASSUME IInv, [Next]_vars PROVE IInv'
  OBVIOUS
<1>1. TypeOK' /\ Bounds' /\ Listings'
  BY TypeStep, ListingStep
<1>2. Unborn' /\ Explained'
  <2>1. ASSUME UNCHANGED vars PROVE Unborn' /\ Explained'
    BY <2>1 DEF vars, server, caches, IInv, Unborn, Explained, Coming, Past, Applied, Current
  <2> QED BY <2>1, RequestTable, ServerTable, LoopTable DEF Next
<1>3. Behind'
  <2>1. CASE EventStep \/ Resync
    BY <2>1, LoopTable
  <2>2. CASE ~(EventStep \/ Resync)
    <3>1. UNCHANGED <<loop, cursor>>
      BY <2>2 DEF Next, vars, ListStep, Begin, Resolve, Ask, Store, Build, FinishReaddir,
                  FinishLookup, UnlinkStep, BeginUnlink, Trash, UnlinkForgets, LookupDir, Relink,
                  RemoteSelf, RemoteChange, ListedElsewhere
    <3> QED BY <3>1 DEF IInv, Behind
  <2> QED BY <2>1, <2>2
<1> QED BY <1>1, <1>2, <1>3 DEF IInv

LEMMA Always == Spec => []IInv
BY Initial, Inductive, PTL DEF Spec

(* Every variable keeps its type, whatever is listed, removed, changed by  *)
(* other clients or resynced; no listing sends more than there is.         *)
THEOREM TypeCorrect == Spec => []TypeOK
<1>1. IInv => TypeOK
  BY DEF IInv
<1> QED BY <1>1, Always, PTL

(* A listing that has drained sent one set of IDs, each once: the one that *)
(* was cached, or, when a Link left the table half way, the server's and   *)
(* nothing of what it resolved before (readdir.go:75).                     *)
THEOREM OneSet == Spec => []ListingIsOneSet
<1>1. IInv => ListingIsOneSet
  BY DEF IInv, Listings, ListingOf, Sent, ListingIsOneSet, Drained
<1> QED BY <1>1, Always, PTL

(* A Link of the table is as new as the server's, or the event that will   *)
(* drop it is still before the loop, or a request was overtaken by one.    *)
THEOREM NothingStaleForever == Spec => []TableExplained
<1>1. IInv => TableExplained
  <2> SUFFICES ASSUME IInv, NEW f \in File, Coming(f) PROVE Excused(f)
    BY DEF IInv, Explained, TableExplained
  <2>1. CASE f \in raced
    BY <2>1 DEF Excused
  <2>2. CASE f \notin raced
    <3>1. PICK i \in Past + 1..Len(feed) : feed[i].link = f
      BY <2>2 DEF Coming
    <3>2. Past >= Applied /\ Past \in Nat /\ Applied \in Nat
      BY DEF IInv, TypeOK, Bounds, Behind, Past, Applied
    <3>3. i \in Applied + 1..Len(feed)
      BY <3>1, <3>2
    <3> QED BY <3>1, <3>3 DEF Excused, Pending
  <2> QED BY <2>1, <2>2
<1> QED BY <1>1, Always, PTL
-----------------------------------------------------------------------------
(* The cached IDs and the node's map. Where the loop stands.               *)
LEMMA Positions ==
  ASSUME IInv
  PROVE  /\ Applied \in 0..Len(feed) /\ PastIds \in 0..Len(feed) /\ Applied <= PastIds
         /\ Past \in Nat /\ Applied <= Past /\ Len(feed) \in Nat
         /\ \A f : NewsIds(f) => News(f)
         /\ \A f : Coming(f) => News(f)
<1>1. /\ Applied \in 0..Len(feed) /\ PastIds \in 0..Len(feed) /\ Applied <= PastIds
      /\ Past \in Nat /\ Applied <= Past /\ Len(feed) \in Nat
  BY DEF IInv, TypeOK, Bounds, Behind, Past, PastIds, Applied
<1>2. ASSUME NEW f, NewsIds(f) PROVE News(f)
  <2>1. CASE f \in raced \cup moved
    BY <2>1 DEF News
  <2>2. CASE f \notin raced \cup moved
    <3>1. PICK i \in PastIds + 1..Len(feed) : feed[i].link = f
      BY <1>2, <2>2 DEF NewsIds
    <3>2. i \in Applied + 1..Len(feed)
      BY <1>1, <3>1
    <3> QED BY <3>1, <3>2 DEF News, Pending
  <2> QED BY <2>1, <2>2
<1>3. ASSUME NEW f, Coming(f) PROVE News(f)
  <2>1. CASE f \in raced
    BY <2>1 DEF News
  <2>2. CASE f \notin raced
    <3>1. PICK i \in Past + 1..Len(feed) : feed[i].link = f
      BY <1>3, <2>2 DEF Coming
    <3>2. i \in Applied + 1..Len(feed)
      BY <1>1, <3>1
    <3> QED BY <3>1, <3>2 DEF News, Pending
  <2> QED BY <2>1, <2>2
<1> QED BY <1>1, <1>2, <1>3

(* A request's step gives it IDs it had, the cached ones or the server's,  *)
(* and Links it had, the table's or what its list says.                    *)
SameBase(q) ==
  \/ op[q].pc \in {"resolve", "store", "build"} /\ op'[q].base = op[q].base
  \/ ids # None /\ op'[q].base = ids
  \/ op'[q].base = Here
SameLink(q, f) ==
  \/ op'[q].got[f] = None
  \/ op[q].pc \in {"resolve", "build"} /\ op'[q].got[f] = op[q].got[f]
  \/ table[f] # None /\ op'[q].got[f] = table[f]
  \/ op[q].pc = "build" /\ op[q].list[f] # None /\ op'[q].got[f].ver = op[q].list[f]
SameListing(q) ==
  /\ op'[q].pc \in {"resolve", "store", "build"} => SameBase(q)
  /\ op'[q].pc \in {"resolve", "build"} => \A f \in File : SameLink(q, f)

LEMMA QuietSets ==
  ASSUME VInv, UNCHANGED <<server, loop, cursor, raced, moved>>,
         entry' = "own" => entry = "own", \A q \in Op : SameListing(q),
         ids' \in {ids, None} \/ \E o \in Op : op[o].pc = "store" /\ ids' = op[o].base
  PROVE  Sets'
<1>1. Here' = Here /\ \A f : NewsIds(f) => NewsIds(f)'
  BY DEF server, Here, NewsIds, PastIds, Applied, Current
<1>2. SUFFICES ASSUME entry = "own", NEW f \in File
               PROVE  /\ ids' # None => Known(ids, f)'
                      /\ \A o \in Op : op'[o].pc \in {"resolve", "store", "build"} =>
                                         Known(op[o].base, f)'
  BY DEF Sets
<1>3. \A S : Known(S, f) => (f \in S <=> f \in Here') \/ NewsIds(f)'
  BY <1>1 DEF Known
<1>4. /\ ids # None => Known(ids, f)
      /\ \A o \in Op : op[o].pc \in {"resolve", "store", "build"} => Known(op[o].base, f)
  BY <1>2 DEF VInv, Sets
<1>5. ids' # None => Known(ids, f)'
  <2>1. CASE ids' = ids
    BY <1>3, <1>4, <2>1 DEF Known
  <2>2. ASSUME NEW o \in Op, op[o].pc = "store", ids' = op[o].base PROVE Known(ids, f)'
    BY <1>3, <1>4, <2>2 DEF Known
  <2> QED BY <2>1, <2>2
<1>6. ASSUME NEW o \in Op, op'[o].pc \in {"resolve", "store", "build"}
      PROVE  Known(op[o].base, f)'
  <2>1. SameBase(o)
    BY <1>6 DEF SameListing
  <2> QED BY <1>1, <1>3, <1>4, <2>1 DEF SameBase, Known
<1> QED BY <1>5, <1>6

LEMMA QuietViews ==
  ASSUME VInv, UNCHANGED <<server, loop, cursor, raced, moved>>,
         entry' = "own" => entry = "own", reg' = "live" => reg = "live",
         \A q \in Op : SameListing(q),
         children' \in {children, None} \/ \E o \in Op : Drained(o) /\ children' = op[o].got
  PROVE  Views'
<1>1. /\ Here' = Here /\ ver' = ver /\ \A f : News(f) => News(f)'
      /\ \A f : Shown(f)' = Shown(f)
  BY DEF server, Here, News, Pending, Applied, Shown
<1>2. SUFFICES ASSUME entry = "own", NEW f \in File
               PROVE  /\ reg' = "live" /\ children' # None => (Kept(f)' = Shown(f)' \/ News(f)')
                      /\ \A o \in Op : op'[o].pc \in {"resolve", "build"} /\ op'[o].got[f] # None =>
                                         (op'[o].got[f].ver = ver'[f] \/ News(f)')
  BY DEF Views
<1>3. /\ reg = "live" /\ children # None => (Kept(f) = Shown(f) \/ News(f))
      /\ \A o \in Op : op[o].pc \in {"resolve", "build"} /\ op[o].got[f] # None =>
                         (op[o].got[f].ver = ver[f] \/ News(f))
      /\ \A o \in Op : op[o].pc \in {"resolve", "store", "build"} => Known(op[o].base, f)
  BY <1>2 DEF VInv, Views, Sets
<1>4. /\ \A g : NewsIds(g) => News(g)
      /\ \A g : Coming(g) => News(g)
  BY Positions DEF VInv
<1>5. ASSUME reg' = "live", children' # None PROVE Kept(f)' = Shown(f)' \/ News(f)'
  <2>1. CASE children' = children
    BY <1>1, <1>3, <1>5, <2>1 DEF Kept
  <2>2. ASSUME NEW o \in Op, Drained(o), children' = op[o].got
        PROVE  Kept(f)' = Shown(f)' \/ News(f)'
    <3>1. op[o].got[f] # None <=> f \in op[o].base
      <4>1. Sent(op[o]) = op[o].base \ op[o].todo /\ op[o].todo = {}
        BY <2>2 DEF VInv, IInv, Listings, ListingOf, Drained
      <4> QED BY <4>1 DEF Sent
    <3>2. Known(op[o].base, f)
      BY <1>3, <2>2 DEF Drained
    <3>3. op[o].got[f] # None => (op[o].got[f].ver = ver[f] \/ News(f))
      BY <1>3, <2>2 DEF Drained
    <3>4. Kept(f)' = IF op[o].got[f] = None THEN None ELSE op[o].got[f].ver
      BY <2>2 DEF Kept
    <3> QED BY <1>1, <1>4, <3>1, <3>2, <3>3, <3>4 DEF Known, Shown
  <2> QED BY <1>5, <2>1, <2>2
<1>6. ASSUME NEW o \in Op, op'[o].pc \in {"resolve", "build"}, op'[o].got[f] # None
      PROVE  op'[o].got[f].ver = ver'[f] \/ News(f)'
  <2>1. SameLink(o, f)
    BY <1>6 DEF SameListing
  <2>2. /\ table[f] # None /\ table[f].ver # ver[f] => Coming(f)
        /\ op[o].pc = "build" /\ op[o].list[f] # None /\ op[o].list[f] # ver[f] => Coming(f)
    BY DEF VInv, IInv, Explained
  <2> QED BY <1>1, <1>3, <1>4, <1>6, <2>1, <2>2 DEF SameLink
<1> QED BY <1>5, <1>6

LEMMA RequestListings ==
  ASSUME IInv, NEW o \in Op, ListStep(o) \/ \E f \in File : BeginUnlink(o, f)
  PROVE  \A q \in Op : SameListing(q)
<1>t. TypeOK /\ op[o] \in OpRec /\ ListingOf(op[o])
  BY DEF IInv, TypeOK, OpRec, Listings
<1>s. ASSUME NEW r, SetOp(o, r),
             r.pc \in {"resolve", "store", "build"} =>
               \/ op[o].pc \in {"resolve", "store", "build"} /\ r.base = op[o].base
               \/ ids # None /\ r.base = ids
               \/ r.base = Here,
             r.pc \in {"resolve", "build"} =>
               \A f \in File :
                 \/ r.got[f] = None
                 \/ op[o].pc \in {"resolve", "build"} /\ r.got[f] = op[o].got[f]
                 \/ table[f] # None /\ r.got[f] = table[f]
                 \/ op[o].pc = "build" /\ op[o].list[f] # None /\ r.got[f].ver = op[o].list[f]
      PROVE  \A q \in Op : SameListing(q)
  <2>1. op'[o] = r /\ \A q \in Op \ {o} : op'[q] = op[q]
    BY <1>s, <1>t DEF SetOp, TypeOK
  <2>2. SameListing(o)
    BY <1>s, <2>1 DEF SameListing, SameBase, SameLink
  <2> QED BY <2>1, <2>2 DEF SameListing, SameBase, SameLink
<1>0. SetOp(o, NoOp) \/ SetOp(o, [NoOp EXCEPT !.pc = "ask"]) => \A q \in Op : SameListing(q)
  <2>1. NoOp.pc = "idle" /\ [NoOp EXCEPT !.pc = "ask"].pc = "ask"
    BY DEF NoOp
  <2> QED BY <1>s, <2>1
<1>1. CASE Begin(o)
  <2> DEFINE r == [NoOp EXCEPT !.pc = "resolve", !.todo = ids, !.base = ids]
  <2>1. r.pc = "resolve" /\ r.base = ids /\ \A f \in File : r.got[f] = None
    BY DEF NoOp
  <2>2. SetOp(o, [NoOp EXCEPT !.pc = "ask"]) \/ (ids # None /\ SetOp(o, r))
    BY <1>1 DEF Begin
  <2> HIDE DEF r
  <2> QED BY <1>0, <1>s, <2>1, <2>2
<1>2. CASE Resolve(o)
  <2>1. PICK f \in op[o].todo : Resolved(o, f)
    BY <1>2 DEF Resolve
  <2> DEFINE r == [op[o] EXCEPT !.todo = @ \ {f}, !.got[f] = table[f], !.sent = @ + 1]
  <2>2. r.pc = op[o].pc /\ r.base = op[o].base /\ r.got = [op[o].got EXCEPT ![f] = table[f]]
    BY <1>t DEF OpRec
  <2>3. \A g \in File : r.got[g] = IF g = f THEN table[f] ELSE op[o].got[g]
    BY <1>t, <2>1, <2>2 DEF OpRec
  <2>4. SetOp(o, [NoOp EXCEPT !.pc = "ask"]) \/ (table[f] # None /\ SetOp(o, r))
    BY <2>1 DEF Resolved
  <2>5. op[o].pc = "resolve"
    BY <1>2 DEF Resolve
  <2> HIDE DEF r
  <2> QED BY <1>0, <1>s, <2>2, <2>3, <2>4, <2>5
<1>3. CASE Ask(o)
  <2> DEFINE r == [op[o] EXCEPT !.pc = IF Here = {} THEN "build" ELSE "store",
                                !.list = [f \in File |-> IF f \in Here THEN ver[f] ELSE None],
                                !.base = Here]
  <2>1. r.base = Here /\ r.got = op[o].got
    BY <1>t DEF OpRec
  <2>2. \A f \in File : op[o].got[f] = None
    BY <1>3, <1>t DEF Ask, ListingOf, Sent
  <2>3. SetOp(o, r) \/ SetOp(o, NoOp)
    BY <1>3 DEF Ask, Listed
  <2> HIDE DEF r
  <2> QED BY <1>0, <1>s, <2>1, <2>2, <2>3
<1>4. CASE Store(o)
  <2> DEFINE r == [op[o] EXCEPT !.pc = "build", !.todo = op[o].base]
  <2>1. r.base = op[o].base /\ r.got = op[o].got
    BY <1>t DEF OpRec
  <2>2. op[o].pc = "store" /\ SetOp(o, r) /\ \A f \in File : op[o].got[f] = None
    BY <1>4, <1>t DEF Store, ListingOf, Sent
  <2> HIDE DEF r
  <2> QED BY <1>s, <2>1, <2>2
<1>5. CASE Build(o)
  <2>1. PICK f \in op[o].todo :
          SetOp(o, [op[o] EXCEPT !.todo = @ \ {f}, !.got[f] = ChildLink(o, f), !.sent = @ + 1])
    BY <1>5 DEF Build
  <2> DEFINE r == [op[o] EXCEPT !.todo = @ \ {f}, !.got[f] = ChildLink(o, f), !.sent = @ + 1]
  <2>2. r.pc = op[o].pc /\ r.base = op[o].base /\ r.got = [op[o].got EXCEPT ![f] = ChildLink(o, f)]
    BY <1>t DEF OpRec
  <2>3. \A g \in File : r.got[g] = IF g = f THEN ChildLink(o, f) ELSE op[o].got[g]
    BY <1>t, <2>1, <2>2 DEF OpRec
  <2>4. op[o].pc = "build" /\ op[o].list[f] # None
    BY <1>5, <1>t, <2>1 DEF Build, ListingOf
  <2>5. \/ table[f] # None /\ ChildLink(o, f) = table[f]
        \/ ChildLink(o, f).ver = op[o].list[f]
    BY DEF ChildLink
  <2>6. SetOp(o, r)
    BY <2>1
  <2> HIDE DEF r
  <2> QED BY <1>s, <2>2, <2>3, <2>4, <2>5, <2>6
<1>6. CASE FinishReaddir(o) \/ FinishLookup(o)
  BY <1>0, <1>6 DEF FinishReaddir, FinishLookup
<1>7. ASSUME NEW f \in File, BeginUnlink(o, f) PROVE \A q \in Op : SameListing(q)
  <2>1. [NoOp EXCEPT !.pc = "trash", !.todo = {f}, !.got[f] = Child(f)].pc = "trash"
    BY DEF NoOp
  <2> QED BY <1>7, <1>s, <2>1 DEF BeginUnlink
<1> QED BY <1>1, <1>2, <1>3, <1>4, <1>5, <1>6, <1>7 DEF ListStep

(* A change at the server adds an event, and takes nothing that is news    *)
(* away.                                                                   *)
LEMMA NewsKept ==
  ASSUME IInv, UNCHANGED <<loop, cursor, raced>>, moved \subseteq moved', feed' \in Seq(Event),
         Len(feed') = Len(feed) + 1, \A i \in 1..Len(feed) : feed'[i] = feed[i]
  PROVE  /\ \A f : News(f) => News(f)'
         /\ \A f : NewsIds(f) => NewsIds(f)'
         /\ \A f : feed'[Len(feed) + 1].link = f => NewsIds(f)' /\ News(f)'
<1>p. /\ Applied \in 0..Len(feed) /\ PastIds \in 0..Len(feed) /\ Len(feed) \in Nat
  BY Positions
<1>1. Applied' = Applied
  BY DEF Applied
<1>2. PastIds' = PastIds
  <2>1. loop.pc \in {"drop", "hook"} => loop.i \in 1..Len(feed)
    BY DEF IInv, TypeOK, Bounds
  <2>2. loop.pc \in {"drop", "hook"} => Current' = Current
    BY <2>1 DEF Current
  <2> QED BY <1>1, <2>2 DEF PastIds
<1>3. ASSUME NEW f, News(f) PROVE News(f)'
  <2>1. CASE f \in raced \cup moved
    BY <2>1 DEF News
  <2>2. CASE f \notin raced \cup moved
    <3>1. PICK i \in Applied + 1..Len(feed) : feed[i].link = f
      BY <1>3, <2>2 DEF News, Pending
    <3>2. i \in 1..Len(feed) /\ i \in Applied' + 1..Len(feed')
      BY <1>p, <1>1, <3>1
    <3> QED BY <3>1, <3>2 DEF News, Pending
  <2> QED BY <2>1, <2>2
<1>4. ASSUME NEW f, NewsIds(f) PROVE NewsIds(f)'
  <2>1. CASE f \in raced \cup moved
    BY <2>1 DEF NewsIds
  <2>2. CASE f \notin raced \cup moved
    <3>1. PICK i \in PastIds + 1..Len(feed) : feed[i].link = f
      BY <1>4, <2>2 DEF NewsIds
    <3>2. i \in 1..Len(feed) /\ i \in PastIds' + 1..Len(feed')
      BY <1>p, <1>2, <3>1
    <3> QED BY <3>1, <3>2 DEF NewsIds
  <2> QED BY <2>1, <2>2
<1>5. ASSUME NEW f, feed'[Len(feed) + 1].link = f PROVE NewsIds(f)' /\ News(f)'
  <2>1. Len(feed) + 1 \in Applied' + 1..Len(feed') /\ Len(feed) + 1 \in PastIds' + 1..Len(feed')
    BY <1>p, <1>1, <1>2
  <2> QED BY <1>5, <2>1 DEF NewsIds, News, Pending
<1> QED BY <1>3, <1>4, <1>5

LEMMA ChangedViews ==
  ASSUME VInv, Room, UNCHANGED <<caches, loop, cursor, raced, resyncs>>, moved \subseteq moved',
         NEW x \in File \cup {Dir}, NEW kind \in {"create", "delete", "update"},
         NEW here \in BOOLEAN, Emit(kind, x, here), x \in File /\ ~here => x \in moved',
         \A g \in File \ {x} : ver'[g] = ver[g] /\ (g \in Here <=> g \in Here'),
         \A q \in Op : op'[q].pc \in {"resolve", "store", "build"} => op'[q] = op[q]
  PROVE  Sets' /\ Views' /\ Severed' /\ MovesOut'
<1>1. /\ feed' \in Seq(Event) /\ Len(feed') = Len(feed) + 1
      /\ \A i \in 1..Len(feed) : feed'[i] = feed[i]
      /\ feed'[Len(feed) + 1] = [kind |-> kind, link |-> x, here |-> here]
  BY EmitType DEF VInv, IInv
<1>2. /\ \A f : News(f) => News(f)'
      /\ \A f : NewsIds(f) => NewsIds(f)'
      /\ NewsIds(x)' /\ News(x)'
  BY <1>1, NewsKept DEF VInv
<1>c. ids' = ids /\ entry' = entry /\ children' = children /\ reg' = reg
  BY DEF caches
<1>3. Sets'
  <2>1. SUFFICES ASSUME entry = "own", NEW f \in File
                 PROVE  /\ ids # None => Known(ids, f)'
                        /\ \A o \in Op : op'[o].pc \in {"resolve", "store", "build"} =>
                                           Known(op[o].base, f)'
    BY <1>c DEF Sets
  <2>2. /\ ids # None => Known(ids, f)
        /\ \A o \in Op : op[o].pc \in {"resolve", "store", "build"} => Known(op[o].base, f)
    BY <2>1 DEF VInv, Sets
  <2>3. CASE f = x
    BY <1>2, <2>3 DEF Known
  <2>4. CASE f # x
    BY <1>2, <1>c, <2>2, <2>4 DEF Known
  <2> QED BY <2>3, <2>4
<1>4. Views'
  <2>1. SUFFICES ASSUME entry = "own", NEW f \in File
                 PROVE  /\ reg = "live" /\ children # None => (Kept(f)' = Shown(f)' \/ News(f)')
                        /\ \A o \in Op : op'[o].pc \in {"resolve", "build"} /\ op'[o].got[f] # None =>
                                           (op'[o].got[f].ver = ver'[f] \/ News(f)')
    BY <1>c DEF Views
  <2>2. /\ reg = "live" /\ children # None => (Kept(f) = Shown(f) \/ News(f))
        /\ \A o \in Op : op[o].pc \in {"resolve", "build"} /\ op[o].got[f] # None =>
                           (op[o].got[f].ver = ver[f] \/ News(f))
    BY <2>1 DEF VInv, Views
  <2>3. CASE f = x
    BY <1>2, <2>3
  <2>4. CASE f # x
    <3>1. Shown(f)' = Shown(f) /\ Kept(f)' = Kept(f) /\ ver'[f] = ver[f]
      BY <1>c, <2>4 DEF Shown, Kept
    <3> QED BY <1>2, <2>2, <3>1
  <2> QED BY <2>3, <2>4
<1>5. Severed'
  BY <1>c DEF VInv, Severed
<1>6. MovesOut'
  <2>1. SUFFICES ASSUME NEW i \in 1..Len(feed'), feed'[i].link \in File, ~feed'[i].here
                 PROVE  feed'[i].link \in moved'
    BY DEF MovesOut
  <2>2. CASE i = Len(feed) + 1
    BY <1>1, <2>1, <2>2
  <2>3. CASE i # Len(feed) + 1
    <3>1. i \in 1..Len(feed)
      BY <1>1, <2>1, <2>3, Positions DEF VInv
    <3> QED BY <1>1, <2>1, <3>1 DEF VInv, MovesOut
  <2> QED BY <2>2, <2>3
<1> QED BY <1>3, <1>4, <1>5, <1>6

LEMMA MountViews ==
  ASSUME VInv,
         \/ \E o \in Op : ListStep(o) \/ UnlinkStep(o)
         \/ LookupDir \/ Relink \/ RemoteSelf
         \/ \E f \in File : RemoteChange(f) \/ ListedElsewhere(f)
  PROVE  Sets' /\ Views' /\ Severed' /\ MovesOut'
<1>t. IInv /\ TypeOK /\ \A o \in Op : op[o] \in OpRec
  BY DEF VInv, IInv, TypeOK, OpRec
(* What neither changes the server nor moves the loop.                     *)
<1>q. ASSUME UNCHANGED <<server, loop, cursor, raced, moved>>,
             entry' = "own" => entry = "own", reg' = "live" => reg = "live",
             \A q \in Op : SameListing(q),
             ids' \in {ids, None} \/ \E o \in Op : op[o].pc = "store" /\ ids' = op[o].base,
             children' \in {children, None} \/ \E o \in Op : Drained(o) /\ children' = op[o].got
      PROVE  Sets' /\ Views' /\ Severed' /\ MovesOut'
  <2>1. Severed' /\ MovesOut'
    BY <1>q DEF VInv, Severed, MovesOut, server
  <2> QED BY <1>q, <2>1, QuietSets, QuietViews
<1>k. op' = op => \A q \in Op : SameListing(q)
  BY DEF SameListing, SameBase, SameLink
<1>1. ASSUME NEW o \in Op, ListStep(o) PROVE Sets' /\ Views' /\ Severed' /\ MovesOut'
  <2>1. /\ UNCHANGED <<server, loop, cursor, raced, moved, entry, reg>>
        /\ ids' \in {ids, None} \/ (op[o].pc = "store" /\ ids' = op[o].base)
        /\ children' \in {children, None} \/ (Drained(o) /\ children' = op[o].got)
    BY <1>1 DEF ListStep, Begin, Resolve, Resolved, Ask, Store, Build, FinishReaddir, FinishLookup,
                caches
  <2>2. \A q \in Op : SameListing(q)
    BY <1>1, <1>t, RequestListings
  <2> QED BY <1>q, <2>1, <2>2
<1>2. ASSUME NEW o \in Op, NEW f \in File, BeginUnlink(o, f)
      PROVE  Sets' /\ Views' /\ Severed' /\ MovesOut'
  <2>1. UNCHANGED <<server, loop, cursor, raced, moved, entry, reg, ids, children>>
    BY <1>2 DEF BeginUnlink, caches
  <2>2. \A q \in Op : SameListing(q)
    BY <1>2, <1>t, RequestListings
  <2> QED BY <1>q, <2>1, <2>2
<1>r. ASSUME NEW o \in Op, NEW r, SetOp(o, r), r.pc \notin {"resolve", "store", "build"}
      PROVE  /\ \A q \in Op : op'[q].pc \in {"resolve", "store", "build"} => op'[q] = op[q]
             /\ \A q \in Op : SameListing(q)
  <2>1. \A q \in Op : op'[q].pc \in {"resolve", "store", "build"} => op'[q] = op[q]
    BY <1>r, <1>t DEF SetOp, TypeOK
  <2> QED BY <2>1 DEF SameListing, SameBase, SameLink
<1>3. ASSUME NEW o \in Op, Trash(o) PROVE Sets' /\ Views' /\ Severed' /\ MovesOut'
  <2>1. UNCHANGED <<caches, loop, cursor, raced, moved, resyncs>>
    BY <1>3 DEF Trash
  <2>2. PICK f \in op[o].todo :
          \/ /\ Room /\ Put(f, "trashed") /\ Emit("delete", f, TRUE)
             /\ SetOp(o, [op[o] EXCEPT !.pc = "child"])
          \/ SetOp(o, NoOp) /\ UNCHANGED server
    BY <1>3 DEF Trash
  <2>3. CASE SetOp(o, NoOp) /\ UNCHANGED server
    <3>1. \A q \in Op : SameListing(q)
      BY <1>r, <2>3 DEF NoOp
    <3> QED BY <1>q, <2>1, <2>3, <3>1 DEF caches
  <2>4. CASE /\ Room /\ Put(f, "trashed") /\ Emit("delete", f, TRUE)
             /\ SetOp(o, [op[o] EXCEPT !.pc = "child"])
    <3>1. [op[o] EXCEPT !.pc = "child"].pc = "child"
      BY <1>t DEF OpRec
    <3>2. \A q \in Op : op'[q].pc \in {"resolve", "store", "build"} => op'[q] = op[q]
      BY <1>r, <2>4, <3>1
    <3>3. f \in File /\ \A g \in File \ {f} : ver'[g] = ver[g] /\ (g \in Here <=> g \in Here')
      BY <1>t, <2>4 DEF OpRec, Put, Here, TypeOK
    <3> QED BY <2>1, <2>4, <3>2, <3>3, ChangedViews
  <2> QED BY <2>2, <2>3, <2>4
<1>4. ASSUME NEW o \in Op, UnlinkForgets(o) PROVE Sets' /\ Views' /\ Severed' /\ MovesOut'
  <2>1. /\ UNCHANGED <<server, loop, cursor, raced, moved, reg>>
        /\ entry' \in {entry, "none"} /\ ids' \in {ids, None} /\ children' \in {children, None}
    BY <1>4 DEF UnlinkForgets, ForgetRemoved
  <2>2. NoOp.pc = "idle" /\ \A x \in {"parent", "ids", "node"} : [op[o] EXCEPT !.pc = x].pc = x
    BY <1>t DEF OpRec, NoOp
  <2>3. \A q \in Op : SameListing(q)
    BY <1>4, <1>r, <2>2 DEF UnlinkForgets, ForgetRemoved
  <2> QED BY <1>q, <2>1, <2>3
<1>5. CASE LookupDir \/ Relink
  BY <1>5, <1>k, <1>q DEF LookupDir, Relink
<1>6. CASE RemoteSelf
  <2>1. /\ UNCHANGED <<place, ver, caches, cursor, loop, op, resyncs, raced, moved>>
        /\ Room /\ Emit("update", Dir, FALSE)
    BY <1>6 DEF RemoteSelf
  <2>2. Here' = Here
    BY <2>1 DEF Here
  <2>3. Dir \notin File /\ FALSE \in BOOLEAN
    BY ElementAssumption
  <2> QED BY <2>1, <2>2, <2>3, ChangedViews
<1>7. ASSUME NEW f \in File, RemoteChange(f) PROVE Sets' /\ Views' /\ Severed' /\ MovesOut'
  <2>1. UNCHANGED <<caches, loop, cursor, raced, op, resyncs>> /\ Room
    BY <1>7 DEF RemoteChange
  <2>2. PICK p \in Place, kind \in {"create", "delete", "update"}, here \in BOOLEAN :
          /\ Put(f, p) /\ Emit(kind, f, here)
          /\ moved \subseteq moved' /\ (~here => f \in moved')
    BY <1>7 DEF RemoteChange, Change, Place
  <2>3. \A g \in File \ {f} : ver'[g] = ver[g] /\ (g \in Here <=> g \in Here')
    BY <1>t, <2>2 DEF Put, Here, TypeOK
  <2> QED BY <2>1, <2>2, <2>3, ChangedViews
<1>8. ASSUME NEW f \in File, ListedElsewhere(f) PROVE Sets' /\ Views' /\ Severed' /\ MovesOut'
  BY <1>8, <1>k, <1>q DEF ListedElsewhere
<1> QED BY <1>1, <1>2, <1>3, <1>4, <1>5, <1>6, <1>7, <1>8 DEF UnlinkStep

(* A step of the loop: what it passes of a child, it has cleared, unless a *)
(* request ran meanwhile or the event is of a move out.                    *)
LEMMA LoopViews ==
  ASSUME VInv, EventStep \/ Resync
  PROVE  Sets' /\ Views' /\ Severed' /\ MovesOut'
<1>t. TypeOK /\ IInv
  BY DEF VInv, IInv
<1>p. /\ Applied \in 0..Len(feed) /\ PastIds \in 0..Len(feed) /\ Len(feed) \in Nat
  BY <1>t, Positions
<1>i. loop.pc \in {"drop", "clear", "hook"} => loop.i \in 1..loop.end /\ loop.end <= Len(feed)
  BY <1>t DEF TypeOK, IInv, Bounds
<1>u. UNCHANGED <<server, op, moved>>
  BY DEF EventStep, Resync, Poll, DropLink, ClearIds, Hook, ClearLinks, InvalidateAll, Anchor
<1>h. feed' = feed /\ ver' = ver /\ Here' = Here /\ \A f : Shown(f)' = Shown(f)
  BY <1>u DEF server, Here, Shown
<1>m. MovesOut'
  BY <1>u, <1>h DEF VInv, MovesOut
<1>r. \A S : Race(S) => raced \subseteq raced' /\ (Running => S \cap File \subseteq raced')
  BY DEF Race
<1>b. \A o \in Op : op[o].pc \in {"resolve", "store", "build"} => Running
  BY DEF Running, Active
(* The link of an event the loop passes is of another directory's child,   *)
(* which has moved out, or the event is of this one's.                     *)
<1>e. \A f \in File, i \in 1..Len(feed) : feed[i].link = f => feed[i].here \/ f \in moved
  BY DEF VInv, MovesOut
<1>s. ASSUME entry' = "own" => entry = "own", raced \subseteq raced',
             \A f \in File : \/ NewsIds(f) => NewsIds(f)'
                             \/ (entry = "own" => ids' = None) /\ (Running => f \in raced'),
             ids' \in {ids, None}
      PROVE  Sets'
  <2>1. SUFFICES ASSUME entry = "own", NEW f \in File
                 PROVE  /\ ids' # None => Known(ids, f)'
                        /\ \A o \in Op : op[o].pc \in {"resolve", "store", "build"} =>
                                           Known(op[o].base, f)'
    BY <1>s, <1>u DEF Sets
  <2>2. /\ ids # None => Known(ids, f)
        /\ \A o \in Op : op[o].pc \in {"resolve", "store", "build"} => Known(op[o].base, f)
    BY <2>1 DEF VInv, Sets
  <2>3. op' = op
    BY <1>u
  <2>4. f \in raced' => NewsIds(f)'
    BY DEF NewsIds
  <2>5. CASE NewsIds(f) => NewsIds(f)'
    BY <1>s, <1>h, <2>2, <2>3, <2>5 DEF Known
  <2>6. CASE (entry = "own" => ids' = None) /\ (Running => f \in raced')
    BY <1>b, <1>h, <2>1, <2>3, <2>4, <2>6 DEF Known
  <2> QED BY <1>s, <2>5, <2>6
<1>v. ASSUME entry' = "own" => entry = "own", reg' = reg, raced \subseteq raced',
             \A f \in File : \/ News(f) => News(f)'
                             \/ (reg = "live" => children' = None) /\ (Running => f \in raced'),
             children' \in {children, None}
      PROVE  Views'
  <2>1. SUFFICES ASSUME entry = "own", NEW f \in File
                 PROVE  /\ reg = "live" /\ children' # None => (Kept(f)' = Shown(f)' \/ News(f)')
                        /\ \A o \in Op : op[o].pc \in {"resolve", "build"} /\ op[o].got[f] # None =>
                                           (op[o].got[f].ver = ver[f] \/ News(f)')
    BY <1>v, <1>u, <1>h DEF Views
  <2>2. /\ reg = "live" /\ children # None => (Kept(f) = Shown(f) \/ News(f))
        /\ \A o \in Op : op[o].pc \in {"resolve", "build"} /\ op[o].got[f] # None =>
                           (op[o].got[f].ver = ver[f] \/ News(f))
    BY <2>1 DEF VInv, Views
  <2>3. children' = children => Kept(f)' = Kept(f)
    BY DEF Kept
  <2>4. f \in raced' => News(f)'
    BY DEF News
  <2>5. CASE News(f) => News(f)'
    BY <1>v, <1>h, <2>2, <2>3, <2>5
  <2>6. CASE (reg = "live" => children' = None) /\ (Running => f \in raced')
    BY <1>b, <2>4, <2>6
  <2> QED BY <1>v, <2>5, <2>6
(* Where the loop does not get further, nothing is lost.                   *)
<1>x. ASSUME raced \subseteq raced', PastIds' = PastIds PROVE \A f : NewsIds(f) => NewsIds(f)'
  BY <1>x, <1>u, <1>h DEF NewsIds
<1>y. ASSUME raced \subseteq raced', Applied' = Applied PROVE \A f : News(f) => News(f)'
  BY <1>y, <1>u, <1>h DEF News, Pending
<1>1. CASE Poll
  <2>1. UNCHANGED <<raced, entry, ids, children, reg>> /\ loop'.pc \in {"drop", "clear"}
    BY <1>1 DEF Poll, FirstStep, caches
  <2>2. Applied' = Applied /\ PastIds' = PastIds
    BY <1>1, <1>h, <1>t DEF Poll, Applied, PastIds, Current, FirstStep, TypeOK
  <2>3. Sets' /\ Views'
    BY <1>s, <1>v, <1>x, <1>y, <2>1, <2>2
  <2> QED BY <1>m, <2>1, <2>3 DEF Severed
<1>2. CASE DropLink
  <2>1. /\ loop.pc = "drop" /\ loop'.i = loop.i /\ raced \subseteq raced'
        /\ loop'.pc = IF Current.kind = "create" THEN "hook" ELSE "clear"
        /\ UNCHANGED <<ids, children, reg, cursor>> /\ entry' \in {entry, "none"}
    BY <1>2, <1>r, <1>t DEF DropLink, LoopTo, TypeOK
  <2>2. Current' = Current
    BY <1>h, <2>1 DEF Current
  <2>3. Applied' = Applied /\ PastIds' = PastIds
    BY <2>1, <2>2 DEF Applied, PastIds
  <2>4. Sets' /\ Views'
    BY <1>s, <1>v, <1>x, <1>y, <2>1, <2>3
  <2> QED BY <1>m, <2>1, <2>4 DEF Severed
<1>3. CASE ClearIds
  <2>1. /\ loop.pc = "clear" /\ loop'.i = loop.i /\ raced \subseteq raced'
        /\ loop'.pc = IF Current.kind = "create" THEN "drop" ELSE "hook"
        /\ UNCHANGED <<entry, children, reg, cursor>> /\ ids' = Cleared(Current)
        /\ Running => {Current.link} \cap File \subseteq raced'
    BY <1>3, <1>r, <1>t DEF ClearIds, LoopTo, TypeOK
  <2>2. Current' = Current
    BY <1>h, <2>1 DEF Current
  <2>3. Applied' = Applied
    BY <2>1 DEF Applied
  <2>4. PastIds = loop.i - 1 /\ PastIds' = loop.i
    BY <2>1, <2>2 DEF Applied, PastIds
  <2>5. PastIds' = PastIds + 1 /\ PastIds + 1 = loop.i /\ loop.i \in 1..Len(feed)
    BY <1>i, <1>t, <2>1, <2>4 DEF TypeOK
  <2>6. ASSUME NEW f \in File, f # Current.link, NewsIds(f) PROVE NewsIds(f)'
    <3>1. CASE f \in raced \cup moved
      BY <1>u, <2>1, <3>1 DEF NewsIds
    <3>2. CASE f \notin raced \cup moved
      <4>1. PICK i \in PastIds + 1..Len(feed) : feed[i].link = f
        BY <2>6, <3>2 DEF NewsIds
      <4>2. i # loop.i
        BY <2>6, <4>1 DEF Current
      <4>3. i \in PastIds' + 1..Len(feed')
        BY <1>p, <1>h, <2>5, <4>1, <4>2
      <4> QED BY <1>h, <4>1, <4>3 DEF NewsIds
    <3> QED BY <3>1, <3>2
  <2>7. ASSUME NEW f \in File, f = Current.link
        PROVE  \/ NewsIds(f)'
               \/ (entry = "own" => ids' = None) /\ (Running => f \in raced')
    <3>1. Current.here \/ f \in moved
      BY <1>e, <2>5, <2>7 DEF Current
    <3> QED BY <1>u, <2>1, <2>7, <3>1 DEF Cleared, NewsIds
  <2>8. ids' \in {ids, None}
    BY <2>1 DEF Cleared
  <2>9. Sets'
    BY <1>s, <2>1, <2>6, <2>7, <2>8
  <2>10. Views'
    BY <1>v, <1>y, <2>1, <2>3
  <2> QED BY <1>m, <2>1, <2>9, <2>10 DEF Severed
<1>4. CASE Hook
  <2>1. /\ loop.pc = "hook" /\ raced \subseteq raced' /\ UNCHANGED <<ids, entry, reg>>
        /\ children' = Hooked(Current)
        /\ Running => {Current.link} \cap File \subseteq raced'
    BY <1>4, <1>r DEF Hook
  <2>i. loop.i \in 1..Len(feed) /\ loop.i \in Nat
    BY <1>i, <1>t, <2>1 DEF TypeOK
  <2>2. Applied' = loop.i /\ PastIds' = loop.i /\ loop'.pc \in {"drop", "clear", "idle"}
    <3>1. CASE loop.i < loop.end
      <4>1. loop' = [loop EXCEPT !.pc = FirstStep(feed[loop.i + 1]), !.i = loop.i + 1]
        BY <1>4, <3>1 DEF Hook
      <4>2. loop'.i = loop.i + 1 /\ loop'.pc = FirstStep(feed[loop.i + 1])
        BY <1>t, <4>1 DEF TypeOK
      <4>3. Current' = feed[loop.i + 1]
        BY <1>h, <4>2 DEF Current
      <4>4. Applied' = loop.i
        BY <2>i, <4>2 DEF Applied, FirstStep
      <4> QED BY <4>2, <4>3, <4>4 DEF PastIds, FirstStep
    <3>2. CASE ~(loop.i < loop.end)
      <4>1. cursor' = loop.end /\ loop'.pc = "idle"
        BY <1>4, <3>2 DEF Hook
      <4>2. loop.end = loop.i
        BY <1>i, <1>t, <2>1, <3>2 DEF TypeOK
      <4> QED BY <4>1, <4>2 DEF Applied, PastIds
    <3> QED BY <3>1, <3>2
  <2>3. PastIds' = PastIds /\ Applied' = Applied + 1 /\ Applied + 1 = loop.i
    BY <2>1, <2>2, <2>i DEF PastIds, Applied
  <2>4. Sets'
    BY <1>s, <1>x, <2>1, <2>3
  <2>5. ASSUME NEW f \in File, f # Current.link, News(f) PROVE News(f)'
    <3>1. CASE f \in raced \cup moved
      BY <1>u, <2>1, <3>1 DEF News
    <3>2. CASE f \notin raced \cup moved
      <4>1. PICK i \in Applied + 1..Len(feed) : feed[i].link = f
        BY <2>5, <3>2 DEF News, Pending
      <4>2. i # loop.i
        BY <2>5, <4>1 DEF Current
      <4>3. i \in Applied' + 1..Len(feed')
        BY <1>p, <1>h, <2>3, <2>i, <4>1, <4>2
      <4> QED BY <1>h, <4>1, <4>3 DEF News, Pending
    <3> QED BY <3>1, <3>2
  <2>6. ASSUME NEW f \in File, f = Current.link
        PROVE  \/ News(f)'
               \/ (reg = "live" => children' = None) /\ (Running => f \in raced')
    <3>1. Current.here \/ f \in moved
      BY <1>e, <2>i, <2>6 DEF Current
    <3> QED BY <1>u, <2>1, <2>6, <3>1 DEF Hooked, News
  <2>7. children' \in {children, None}
    BY <2>1 DEF Hooked
  <2>8. Views'
    BY <1>v, <2>1, <2>5, <2>6, <2>7
  <2> QED BY <1>m, <2>2, <2>4, <2>8 DEF Severed
<1>5. CASE Resync
  <2>1. /\ loop.pc = "idle" /\ loop'.pc = "clearLinks"
        /\ UNCHANGED <<raced, cursor, entry, ids, children, reg>>
    BY <1>5, <1>t DEF Resync, LoopTo, TypeOK, caches
  <2>2. Applied' = Applied /\ PastIds' = PastIds
    BY <2>1 DEF Applied, PastIds
  <2>3. Sets' /\ Views'
    BY <1>s, <1>v, <1>x, <1>y, <2>1, <2>2
  <2> QED BY <1>m, <2>1, <2>3 DEF Severed
(* From here to the anchor the table has forgotten the node's Link.        *)
<1>6. CASE ClearLinks
  BY <1>6, <1>m DEF ClearLinks, Sets, Views, Severed
<1>7. CASE InvalidateAll
  <2>1. entry' = entry /\ entry # "own"
    BY <1>7 DEF InvalidateAll, VInv, Severed
  <2> QED BY <1>m, <2>1 DEF Sets, Views, Severed
<1>8. CASE Anchor
  <2>1. entry' = entry /\ entry # "own"
    BY <1>8 DEF Anchor, VInv, Severed, caches
  <2> QED BY <1>m, <2>1 DEF Sets, Views, Severed
<1> QED BY <1>1, <1>2, <1>3, <1>4, <1>5, <1>6, <1>7, <1>8 DEF EventStep

LEMMA AlwaysViews == Spec => []VInv
<1>1. Init => VInv
  <2>1. SUFFICES ASSUME Init PROVE Sets /\ Views /\ Severed /\ MovesOut
    BY Initial DEF VInv
  <2> QED BY <2>1 DEF Init, Sets, Views, Severed, MovesOut, NoOp
<1>2. VInv /\ [Next]_vars => VInv'
  <2>1. SUFFICES ASSUME VInv, [Next]_vars PROVE Sets' /\ Views' /\ Severed' /\ MovesOut'
    BY Inductive DEF VInv
  <2>2. ASSUME UNCHANGED vars PROVE Sets' /\ Views' /\ Severed' /\ MovesOut'
    <3>1. UNCHANGED <<server, loop, cursor, raced, moved, entry, reg, op, ids, children>>
      BY <2>2 DEF vars, caches
    <3>2. \A q \in Op : SameListing(q)
      BY <3>1 DEF SameListing, SameBase, SameLink
    <3>3. Sets' /\ Views'
      BY <2>1, <3>1, <3>2, QuietSets, QuietViews
    <3> QED BY <2>1, <3>1, <3>3 DEF VInv, Severed, MovesOut, server
  <2> QED BY <2>1, <2>2, MountViews, LoopViews DEF Next
<1> QED BY <1>1, <1>2, PTL DEF Spec

(* The cached child IDs: for as long as the table knows the node's Link,   *)
(* which of the children they are wrong about has an event to come, was    *)
(* raced, or was moved out.                                                *)
THEOREM NoIdsWrongForever == Spec => []IdsExplained
<1>1. VInv => IdsExplained
  <2> SUFFICES ASSUME VInv, entry = "own", ids # None, NEW f \in (ids \ Here) \cup (Here \ ids)
               PROVE  Excused(f) \/ f \in moved
    BY DEF IdsExplained
  <2>1. f \in File
    BY DEF VInv, IInv, TypeOK, Here
  <2>2. NewsIds(f)
    BY <2>1 DEF VInv, Sets, Known
  <2> QED BY <2>2, Positions DEF VInv, News, Excused
<1> QED BY <1>1, AlwaysViews, PTL

(* The map a Lookup answers from, for as long as the registry has the node *)
(* as well: what it shows of a child is what the server has, or the child  *)
(* has an event to come, was raced, or was moved out.                      *)
THEOREM NoViewWrongForever == Spec => []ViewExplained
<1>1. VInv => ViewExplained
  BY DEF VInv, Views, News, Excused, ViewExplained
<1> QED BY <1>1, AlwaysViews, PTL

================================================================================
