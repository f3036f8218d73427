--------------------------- MODULE DriveEventsProofs ---------------------------
(***************************************************************************)
(* Proofs about DriveEvents for any links, goroutines, windows and bounds: *)
(* why a copy in the daemon's caches may be stale, and that event watch    *)
(* skips nothing.                                                          *)
(***************************************************************************)
EXTENDS DriveEvents, WellFoundedInduction, TLAPS

Behind(l, c) == c # None /\ c < Version(l)
Copies(l) == {disk[l], blocks[l], table[l], staged[l]}
InBatch == loop \in {"next", "disk", "blocks"}

(* An event of the link that the loop has yet to apply, or an excuse.      *)
Queued(l) == \E j \in DOMAIN todo : todo[j] = l
Coming(l) == IF InBatch THEN Queued(l) \/ Later(l, goal) ELSE Later(l, Followed)
Covered(l) == Followed = None \/ l \in excused \/ Coming(l)

CopiesCovered == \A l \in Link : \A c \in Copies(l) : Behind(l, c) => Covered(l)
(* The same of what a goroutine has in hand, which is something only when  *)
(* it is past the look at the caches.                                      *)
Hand(rec) ==
  /\ rec.pc # "idle" => rec.link \in Link
  /\ rec.pc \in {"idle", "look", "take", "get", "wait"} => rec.v = None
  /\ rec.pc \in {"xattr", "write", "put", "save"} => rec.v # None
  /\ Behind(rec.link, rec.v) => rec.crossed \/ Covered(rec.link)
HandsCovered == \A r \in Reader : Hand(reader[r])
(* The staging map keeps its copy of a link that is being invalidated.     *)
StagedCovered ==
  loop \in {"disk", "blocks"} =>
    /\ todo # <<>>
    /\ Behind(Head(todo), staged[Head(todo)]) => Head(todo) \in excused \/ Later(Head(todo), goal)

(* The saved cursor is not after the loop's, and neither after the log; a  *)
(* batch lies between the cursor and its goal.                             *)
Ordered ==
  /\ cur # None => cur <= Latest
  /\ file # None => file <= Latest
  /\ cur # None /\ file # None => file <= cur
  /\ InBatch => /\ cur # None /\ cur <= goal /\ goal <= Latest
                /\ \A j \in DOMAIN todo : \E i \in (cur + 1)..goal : log[i] = todo[j]
  /\ ~InBatch => todo = <<>>
  /\ loop = "down" => cur = None

(* A watch has no caches, and names no event it has not printed.           *)
Told(n) == \A i \in 1..n : i \in printed \cup gap \/ i <= synced
Watch ==
  mode # "daemon" =>
    /\ disk = Nothing /\ blocks = Nothing /\ table = Nothing /\ staged = Nothing
    /\ \A r \in Reader : reader[r] = Idle
    /\ loop \in {"cursor", "poll", "off", "anchor"}
    /\ loop \in {"poll", "anchor"} => cur # None
    /\ loop = "cursor" => shown = None /\ cur = None /\ synced = 0
    /\ synced # None /\ synced <= Latest
    /\ cur # None => Told(cur)
    /\ shown # None => Told(shown)

IInv == TypeOK /\ Ordered /\ CopiesCovered /\ HandsCovered /\ StagedCovered /\ Watch

-----------------------------------------------------------------------------
LEMMA Numbers ==
  /\ Window \in Nat /\ MaxChanges \in Nat /\ MaxFaults \in Nat /\ MaxCrashes \in Nat
  /\ None \notin Nat /\ None \notin Link /\ None \notin Position
BY EventAssumption, NoneAssumption DEF Position

(* The newest change of a link, and of a log that grows.                   *)
LEMMA Greatest ==
  ASSUME NEW n \in Nat, NEW S, S \subseteq 0..n, S # {}
  PROVE  Max(S) \in S /\ \A y \in S : y <= Max(S)
<1> DEFINE T == {n - x : x \in S}
<1>1. \A x \in S : x \in 0..n /\ n - x \in Nat
  OBVIOUS
<1>t. T \subseteq Nat /\ T # {}
  BY <1>1
<1>2. PICK m \in T : \A y \in T : ~(<<y, m>> \in OpToRel(<, Nat))
  BY <1>t, WFMin, NatLessThanWellFounded
<1>3. \A y \in T : ~(y < m)
  BY <1>t, <1>2 DEF OpToRel
<1>4. PICK x \in S : m = n - x
  BY <1>2
<1>5. \A y \in S : x >= y
  BY <1>3, <1>4
<1> QED BY <1>5 DEF Max

NewestIn(s, l) == Max({0} \cup {i \in 1..Len(s) : s[i] = l})
LEMMA Newest ==
  \A s \in Seq(Link) : \A l :
    /\ NewestIn(s, l) \in 0..Len(s)
    /\ NewestIn(s, l) # 0 => s[NewestIn(s, l)] = l
    /\ \A i \in 1..Len(s) : s[i] = l => i <= NewestIn(s, l)
<1> TAKE s \in Seq(Link)
<1> TAKE l
<1> DEFINE S == {0} \cup {i \in 1..Len(s) : s[i] = l}
<1>1. Len(s) \in Nat /\ S \subseteq 0..Len(s) /\ S # {}
  OBVIOUS
<1>2. NewestIn(s, l) \in S /\ \A y \in S : y <= NewestIn(s, l)
  BY <1>1, Greatest DEF NewestIn
<1> QED BY <1>1, <1>2

LEMMA VersionIs == \A l : Version(l) = NewestIn(log, l) /\ Version(l)' = NewestIn(log', l)
BY DEF Version, NewestIn, Latest

LEMMA VersionType ==
  ASSUME TypeOK
  PROVE  /\ Latest \in Position /\ Latest \in Nat
         /\ \A l : /\ Version(l) \in 0..Latest /\ Version(l) \in Position
                   /\ Version(l) # 0 => log[Version(l)] = l
                   /\ \A i \in 1..Latest : log[i] = l => i <= Version(l)
<1>1. log \in Seq(Link) /\ Latest \in Position
  BY DEF TypeOK, Latest
<1> QED BY <1>1, VersionIs, Newest, Numbers DEF Latest, Position

LEMMA SameLog ==
  ASSUME log' = log
  PROVE  /\ Latest' = Latest
         /\ \A l : Version(l)' = Version(l)
         /\ \A l, c : Behind(l, c)' = Behind(l, c)
BY DEF Latest, Version, Behind

LEMMA Longer ==
  ASSUME NEW s \in Seq(Link), NEW k \in Link
  PROVE  /\ NewestIn(Append(s, k), k) = Len(s) + 1
         /\ \A l : l # k => NewestIn(Append(s, k), l) = NewestIn(s, l)
<1> DEFINE t == Append(s, k)
<1> DEFINE n == Len(s)
<1>1. /\ n \in Nat /\ t \in Seq(Link) /\ Len(t) = n + 1 /\ t[n + 1] = k
      /\ \A i \in 1..n : t[i] = s[i]
  OBVIOUS
<1> HIDE DEF t, n
<1>2. ASSUME NEW l
      PROVE  /\ NewestIn(t, l) \in 0..n + 1 /\ (NewestIn(t, l) # 0 => t[NewestIn(t, l)] = l)
             /\ \A i \in 1..n + 1 : t[i] = l => i <= NewestIn(t, l)
  BY <1>1, Newest
<1>3. NewestIn(t, k) = n + 1
  <2>1. n + 1 <= NewestIn(t, k)
    BY <1>1, <1>2
  <2> QED BY <2>1, <1>1, <1>2
<1>4. ASSUME NEW l, l # k PROVE NewestIn(t, l) = NewestIn(s, l)
  <2>1. /\ NewestIn(s, l) \in 0..n /\ (NewestIn(s, l) # 0 => s[NewestIn(s, l)] = l)
        /\ \A i \in 1..n : s[i] = l => i <= NewestIn(s, l)
    BY Newest DEF n
  <2>2. NewestIn(t, l) # n + 1 /\ NewestIn(t, l) \in 0..n
    BY <1>1, <1>2, <1>4
  <2> QED BY <1>1, <1>2, <2>1, <2>2
<1> QED BY <1>3, <1>4 DEF t, n

LEMMA Grown ==
  ASSUME TypeOK, NEW k \in Link, log' = Append(log, k)
  PROVE  /\ Latest' = Latest + 1 /\ Latest \in Nat
         /\ log' \in Seq(Link)
         /\ log'[Latest + 1] = k
         /\ \A i \in 1..Latest : log'[i] = log[i]
         /\ Version(k)' = Latest + 1
         /\ \A l : l # k => Version(l)' = Version(l)
<1>1. log \in Seq(Link) /\ Latest \in Nat
  BY DEF TypeOK, Latest
<1>2. /\ Latest' = Latest + 1 /\ log' \in Seq(Link) /\ log'[Latest + 1] = k
      /\ \A i \in 1..Latest : log'[i] = log[i]
  BY <1>1 DEF Latest
<1> QED BY <1>1, <1>2, Longer, VersionIs DEF Latest

-----------------------------------------------------------------------------
HandRec ==
  [pc : {"idle", "look", "take", "get", "xattr", "write", "wait", "put", "save"},
   link : Link \cup {None}, v : Maybe, crossed : BOOLEAN]

(* TypeOK one variable at a time.                                          *)
Typed ==
  /\ mode \in Modes /\ bare \subseteq Link /\ log \in Seq(Link) /\ Len(log) \in Position
  /\ disk \in [Link -> Maybe] /\ blocks \in [Link -> Maybe]
  /\ table \in [Link -> Maybe] /\ staged \in [Link -> Maybe] /\ cur \in Maybe /\ file \in Maybe
  /\ reader \in [Reader -> HandRec]
  /\ loop \in {"down", "volumes", "cursor", "off", "poll", "disk", "blocks", "next", "clear",
               "erase", "anchor", "save"}
  /\ todo \in Seq(Link) /\ goal \in Position
  /\ printed \subseteq 1..MaxChanges /\ shown \in Maybe /\ synced \in Maybe
  /\ gap \subseteq 1..MaxChanges
  /\ excused \subseteq Link /\ faults \in 0..MaxFaults /\ crashes \in 0..MaxCrashes
LEMMA TypedIs == (TypeOK <=> Typed) /\ (TypeOK' <=> Typed')
BY DEF TypeOK, Typed, HandRec

LEMMA Types ==
  ASSUME TypeOK
  PROVE  /\ disk \in [Link -> Maybe] /\ blocks \in [Link -> Maybe]
         /\ table \in [Link -> Maybe] /\ staged \in [Link -> Maybe]
         /\ reader \in [Reader -> HandRec] /\ cur \in Maybe /\ file \in Maybe
         /\ Nothing \in [Link -> Maybe] /\ Idle \in HandRec /\ None \in Maybe
BY DEF TypeOK, HandRec, Nothing, Idle, Maybe

LEMMA Initial == Init => IInv
<1> SUFFICES ASSUME Init PROVE IInv
  OBVIOUS
<1> USE DEF Init
<1>1. TypeOK
  BY Numbers DEF TypeOK, Nothing, Idle, Maybe, Position
<1>2. Ordered
  BY Numbers DEF Ordered, Latest, InBatch
<1>3. CopiesCovered /\ HandsCovered /\ StagedCovered
  BY DEF CopiesCovered, HandsCovered, StagedCovered, Copies, Behind, Hand, Nothing, Idle
<1>4. Watch
  BY Numbers DEF Watch, Told, Latest
<1> QED BY <1>1, <1>2, <1>3, <1>4 DEF IInv

-----------------------------------------------------------------------------
(* A goroutine of the mount: the loop and the log stay, excuses only come. *)
Aside == UNCHANGED <<mode, bare, log, file, feed, watch, crashes>> /\ excused \subseteq excused'

LEMMA AsideCovers ==
  ASSUME Aside
  PROVE  \A l : Covered(l) => Covered(l)'
BY DEF Aside, Covered, Coming, Queued, Later, Followed, InBatch, Latest, feed

LEMMA AsideStays ==
  ASSUME IInv, Aside, staged' \in [Link -> Maybe], \A l \in Link : staged'[l] \in {staged[l], None},
         mode = "daemon"
  PROVE  Ordered' /\ StagedCovered' /\ Watch'
<1>1. Ordered'
  BY DEF IInv, Ordered, Aside, feed, Latest, InBatch
<1>2. Watch'
  BY DEF Watch, Aside
<1>3. StagedCovered'
  <2> SUFFICES ASSUME loop \in {"disk", "blocks"}
               PROVE  StagedCovered'
    BY DEF StagedCovered, Aside, feed
  <2>1. Head(todo) \in Link
    BY DEF IInv, TypeOK, StagedCovered
  <2> QED BY <2>1, SameLog DEF IInv, StagedCovered, Aside, feed, Behind, Later
<1> QED BY <1>1, <1>2, <1>3

LEMMA DaemonOnly ==
  ASSUME IInv, NEW r \in Reader,
         Fetch(r) \/ \E l \in Link : Stat(r, l) \/ Read(r, l) \/ Evict(l)
  PROVE  mode = "daemon"
<1>1. Fetch(r) => reader[r].pc # "idle"
  BY DEF Fetch, FromCache, Fly, GetLink, GetRevision, WriteCacheEntry, PutLink, SaveBlock
<1>2. mode # "daemon" => reader[r].pc = "idle"
  BY DEF IInv, Watch, Idle
<1>3. (\E l \in Link : Stat(r, l) \/ Read(r, l) \/ Evict(l)) => mode = "daemon"
  BY DEF Stat, Read, Evict
<1> QED BY <1>1, <1>2, <1>3

LEMMA HandsStay ==
  ASSUME IInv, Aside
  PROVE  \A r \in Reader : reader'[r] = reader[r] => Hand(reader[r])'
BY AsideCovers, SameLog DEF IInv, HandsCovered, Hand, Behind, Aside

(* What one action of a goroutine has to show.                             *)
Careful ==
  /\ TypeOK' /\ Aside /\ \A l \in Link : staged'[l] \in {staged[l], None}
  /\ \A l \in Link : \A c \in Copies(l)' : c \in Copies(l) \/ (Behind(l, c) => Covered(l)')
  /\ \A q \in Reader : reader'[q] # reader[q] => Hand(reader[q])'

LEMMA CarefulKeeps ==
  ASSUME IInv, Careful, mode = "daemon"
  PROVE  IInv'
<1>1. CopiesCovered'
  BY AsideCovers, SameLog DEF IInv, CopiesCovered, Careful, Aside
<1>2. HandsCovered'
  BY HandsStay DEF HandsCovered, Careful
<1>3. staged' \in [Link -> Maybe]
  BY DEF Careful, TypeOK
<1> QED BY <1>1, <1>2, <1>3, AsideStays DEF Careful, IInv

LEMMA StatStep ==
  ASSUME IInv, NEW r \in Reader, NEW l \in Link, Stat(r, l)
  PROVE  Careful
<1> USE DEF Stat, Put, Rest
<1>1. TypeOK'
  BY Types, Numbers DEF IInv, TypeOK, Idle, caches, feed, watch, Maybe
<1>2. Aside /\ UNCHANGED caches
  BY DEF Aside
<1>3. \A q \in Reader : reader'[q] # reader[q] => Hand(reader[q])'
  BY Types DEF IInv, Hand, Behind, Idle
<1> QED BY <1>1, <1>2, <1>3 DEF Careful, Copies, caches

LEMMA ReadStep ==
  ASSUME IInv, NEW r \in Reader, NEW l \in Link, Read(r, l)
  PROVE  Careful
<1> USE DEF Read, Put, Rest
<1>1. TypeOK'
  BY Types, Numbers DEF IInv, TypeOK, Idle, caches, feed, watch, Maybe
<1>2. Aside /\ UNCHANGED caches
  BY DEF Aside
<1>3. Behind(l, table[l]) => Covered(l)'
  BY <1>2, AsideCovers DEF IInv, CopiesCovered, Copies
<1>4. \A q \in Reader : reader'[q] # reader[q] => Hand(reader[q])'
  BY <1>2, <1>3, Types, SameLog DEF IInv, Hand, Aside, Behind
<1> QED BY <1>1, <1>2, <1>4 DEF Careful, Copies, caches

LEMMA EvictStep ==
  ASSUME IInv, NEW l \in Link, Evict(l)
  PROVE  Careful
<1> USE DEF Evict, Rest
<1>1. TypeOK'
  BY Types, Numbers DEF IInv, TypeOK, caches, feed, watch, Maybe
<1>2. Aside /\ UNCHANGED <<blocks, table, staged, reader>>
  BY DEF Aside
<1>3. \A k \in Link : disk'[k] \in {disk[k], None}
  BY Types DEF IInv
<1> QED BY <1>1, <1>2, <1>3 DEF Careful, Copies, Behind

(* What a goroutine takes of a link is covered when the copy it takes is.  *)
LEMMA HoldingFits ==
  ASSUME IInv, Aside, NEW r \in Reader, NEW v \in Maybe, NEW pc \in {"xattr", "put"},
         Holding(r, v, pc), reader[r].link \in Link, v # None,
         v \in Copies(reader[r].link) \/ v = Version(reader[r].link)
  PROVE  /\ reader' \in [Reader -> HandRec]
         /\ \A q \in Reader : reader'[q] # reader[q] => Hand(reader[q])'
<1> USE DEF Holding, Put
<1>1. reader' \in [Reader -> HandRec]
  BY Types DEF IInv, HandRec
<1>2. Behind(reader[r].link, v) => Covered(reader[r].link)'
  BY AsideCovers, VersionType DEF IInv, CopiesCovered, Behind
<1> QED BY <1>1, <1>2, Types, SameLog DEF IInv, Hand, Aside, Behind

(* A step of a goroutine that goes on with what it has in hand.            *)
LEMMA ToFits ==
  ASSUME IInv, Aside, NEW r \in Reader, NEW pc \in {"take", "get", "wait", "write"},
         To(r, pc), reader[r].pc # "idle", reader[r].v = None <=> pc # "write"
  PROVE  /\ reader' \in [Reader -> HandRec]
         /\ \A q \in Reader : reader'[q] # reader[q] => Hand(reader[q])'
<1> USE DEF To, Put
<1>1. reader' \in [Reader -> HandRec]
  BY Types DEF IInv, HandRec
<1>2. Hand(reader[r]) /\ reader[r] \in HandRec
  BY Types DEF IInv, HandsCovered
<1> QED BY <1>1, <1>2, Types, SameLog, AsideCovers DEF IInv, Hand, HandRec, Aside, Behind

LEMMA FromCacheStep ==
  ASSUME IInv, NEW r \in Reader, FromCache(r)
  PROVE  Careful
<1> DEFINE l == reader[r].link
<1> DEFINE hit == staged[l] # None /\ l \notin bare
<1> DEFINE found == IF hit THEN staged[l] ELSE disk[l]
<1> USE DEF FromCache, Rest
<1>1. Aside /\ UNCHANGED <<blocks, table>>
  BY DEF Aside
<1>2. reader[r].pc = "look" /\ Hand(reader[r]) /\ l \in Link
  BY DEF IInv, HandsCovered, Hand
<1>3. /\ staged' \in [Link -> Maybe] /\ disk' \in [Link -> Maybe]
      /\ \A k \in Link : staged'[k] \in {staged[k], None} /\ disk'[k] \in {disk[k], None}
  BY <1>2, Types DEF IInv
<1>4. found \in Maybe /\ found \in Copies(l)
  BY <1>2, Types DEF IInv, Copies
<1>5. /\ reader' \in [Reader -> HandRec]
      /\ \A q \in Reader : reader'[q] # reader[q] => Hand(reader[q])'
  <2>1. CASE found # None /\ l \notin bare
    BY <1>1, <1>2, <1>4, <2>1, HoldingFits
  <2>2. CASE ~(found # None /\ l \notin bare)
    BY <1>1, <1>2, <2>2, ToFits DEF Hand
  <2> QED BY <2>1, <2>2
<1>6. TypeOK'
  BY <1>3, <1>5, Types DEF IInv, TypeOK, HandRec, feed, watch
<1> QED BY <1>1, <1>3, <1>5, <1>6 DEF Careful, Copies, Behind

LEMMA FlyStep ==
  ASSUME IInv, NEW r \in Reader, Fly(r)
  PROVE  Careful
<1> DEFINE l == reader[r].link
<1> DEFINE seed == staged[l] # None /\ l \in bare
<1> USE DEF Fly, Rest
<1>1. Aside /\ UNCHANGED <<disk, blocks, table>>
  BY DEF Aside
<1>2. reader[r].pc = "take" /\ Hand(reader[r]) /\ l \in Link
  BY DEF IInv, HandsCovered, Hand
<1>3. /\ staged' \in [Link -> Maybe]
      /\ \A k \in Link : staged'[k] \in {staged[k], None}
  BY <1>2, Types DEF IInv
<1>4. staged[l] \in Maybe /\ staged[l] \in Copies(l)
  BY <1>2, Types DEF IInv, Copies
<1>5. /\ reader' \in [Reader -> HandRec]
      /\ \A q \in Reader : reader'[q] # reader[q] => Hand(reader[q])'
  <2>1. CASE ~(\E q \in Reader : Leads(q, l)) /\ seed
    BY <1>1, <1>2, <1>4, <2>1, HoldingFits
  <2>2. CASE ~(~(\E q \in Reader : Leads(q, l)) /\ seed)
    <3>1. To(r, "wait") \/ To(r, "get")
      BY <2>2
    <3> QED BY <1>1, <1>2, <3>1, ToFits DEF Hand
  <2> QED BY <2>1, <2>2
<1>6. TypeOK'
  BY <1>3, <1>5, Types DEF IInv, TypeOK, HandRec, feed, watch
<1> QED BY <1>1, <1>3, <1>5, <1>6 DEF Careful, Copies, Behind

(* All who wait for a fetch get what the leader has.                       *)
LEMMA LandedFits ==
  ASSUME IInv, Aside, NEW r \in Reader, NEW rec \in HandRec, Landed(r, rec),
         rec = Idle \/ (rec = [reader[r] EXCEPT !.pc = "put"] /\ reader[r].v # None)
  PROVE  /\ reader' \in [Reader -> HandRec]
         /\ \A q \in Reader : reader'[q] # reader[q] => Hand(reader[q])'
<1> USE DEF Landed
<1>1. reader' \in [Reader -> HandRec]
  BY Types DEF IInv
<1>2. Hand(reader[r]) /\ reader[r] \in HandRec
  BY Types DEF IInv, HandsCovered
<1>3. \A q \in Reader : reader'[q] # reader[q] => reader'[q] = rec
  OBVIOUS
<1>4. /\ rec.pc # "idle" => rec.link \in Link
      /\ rec.pc \in {"idle", "put"} /\ (rec.pc = "idle" <=> rec.v = None)
      /\ Behind(rec.link, rec.v) => rec.crossed \/ Covered(rec.link)'
  BY <1>2, AsideCovers DEF Hand, HandRec, Idle, Behind
<1> QED BY <1>1, <1>3, <1>4, SameLog DEF Hand, Aside, Behind

LEMMA GetLinkStep ==
  ASSUME IInv, NEW r \in Reader, GetLink(r)
  PROVE  Careful
<1> USE DEF GetLink, Rest
<1>1. Aside /\ UNCHANGED caches
  BY DEF Aside
<1>2. reader[r].pc = "get" /\ Hand(reader[r]) /\ reader[r].link \in Link
  BY DEF IInv, HandsCovered, Hand
<1>3. /\ reader' \in [Reader -> HandRec]
      /\ \A q \in Reader : reader'[q] # reader[q] => Hand(reader[q])'
  <2>1. CASE Holding(r, Version(reader[r].link), "xattr")
    <3>1. Version(reader[r].link) \in Maybe /\ Version(reader[r].link) # None
      BY VersionType, Numbers DEF IInv, Maybe
    <3> QED BY <1>1, <1>2, <2>1, <3>1, HoldingFits
  <2>2. CASE Fault /\ Landed(r, Idle)
    BY <1>1, <2>2, LandedFits, Types DEF IInv
  <2> QED BY <2>1, <2>2
<1>4. TypeOK'
  BY <1>1, <1>3, Types, Numbers DEF IInv, TypeOK, HandRec, feed, watch, caches, Fault
<1> QED BY <1>1, <1>3, <1>4 DEF Careful, Copies, Behind, caches

LEMMA GetRevisionStep ==
  ASSUME IInv, NEW r \in Reader, GetRevision(r)
  PROVE  Careful
<1> USE DEF GetRevision, Rest
<1>1. Aside /\ UNCHANGED caches
  BY DEF Aside
<1>2. reader[r].pc = "xattr" /\ Hand(reader[r]) /\ reader[r] \in HandRec /\ reader[r].v # None
  BY Types DEF IInv, HandsCovered, Hand
<1>3. /\ reader' \in [Reader -> HandRec]
      /\ \A q \in Reader : reader'[q] # reader[q] => Hand(reader[q])'
  <2>1. CASE To(r, "write")
    BY <1>1, <1>2, <2>1, ToFits
  <2>2. CASE Fault /\ Landed(r, [reader[r] EXCEPT !.pc = "put"])
    <3>1. [reader[r] EXCEPT !.pc = "put"] \in HandRec
      BY <1>2 DEF HandRec
    <3> QED BY <1>1, <1>2, <2>2, <3>1, LandedFits
  <2> QED BY <2>1, <2>2
<1>4. TypeOK'
  BY <1>1, <1>3, Types, Numbers DEF IInv, TypeOK, HandRec, feed, watch, caches, Fault
<1> QED BY <1>1, <1>3, <1>4 DEF Careful, Copies, Behind, caches

(* What a goroutine puts into a cache is covered or excused by that.       *)
LEMMA Excused ==
  ASSUME IInv, NEW r \in Reader, Excuse(r), UNCHANGED <<mode, bare, log, file, feed, watch, crashes>>,
         reader[r].pc \in {"write", "put", "save"}
  PROVE  /\ Aside /\ excused' \subseteq Link
         /\ reader[r].link \in Link /\ reader[r].v \in Maybe /\ reader[r].v # None
         /\ \A l : l = reader[r].link /\ Behind(l, reader[r].v) => Covered(l)'
<1>1. Aside
  BY DEF Aside, Excuse
<1>2. Hand(reader[r]) /\ reader[r].link \in Link /\ reader[r] \in HandRec /\ reader[r].v # None
  BY Types DEF IInv, HandsCovered, Hand
<1>3. excused' \subseteq Link
  BY <1>2 DEF Excuse, IInv, TypeOK
<1>4. ASSUME NEW l, l = reader[r].link, Behind(l, reader[r].v) PROVE Covered(l)'
  <2>1. CASE reader[r].crossed
    BY <1>4, <2>1 DEF Excuse, Behind, Covered
  <2>2. CASE ~reader[r].crossed
    BY <1>1, <1>2, <1>4, <2>2, AsideCovers DEF Hand
  <2> QED BY <2>1, <2>2
<1> QED BY <1>1, <1>2, <1>3, <1>4 DEF HandRec

LEMMA WriteCacheEntryStep ==
  ASSUME IInv, NEW r \in Reader, WriteCacheEntry(r)
  PROVE  Careful
<1> USE DEF WriteCacheEntry, Rest
<1>1. /\ Aside /\ excused' \subseteq Link
      /\ reader[r].link \in Link /\ reader[r].v \in Maybe /\ reader[r].v # None
      /\ \A l : l = reader[r].link /\ Behind(l, reader[r].v) => Covered(l)'
  BY Excused
<1>2. [reader[r] EXCEPT !.pc = "put"] \in HandRec
  BY Types DEF IInv, HandRec
<1>3. /\ reader' \in [Reader -> HandRec]
      /\ \A q \in Reader : reader'[q] # reader[q] => Hand(reader[q])'
  BY <1>1, <1>2, LandedFits
<1>4. disk' \in [Link -> Maybe] /\ \A l \in Link : disk'[l] = IF l = reader[r].link THEN reader[r].v ELSE disk[l]
  BY <1>1, Types DEF IInv
<1>5. TypeOK'
  BY <1>1, <1>3, <1>4, Types DEF IInv, TypeOK, HandRec, feed, watch
<1> QED BY <1>1, <1>3, <1>4, <1>5 DEF Careful, Copies, Behind

LEMMA PutLinkStep ==
  ASSUME IInv, NEW r \in Reader, PutLink(r)
  PROVE  Careful
<1> USE DEF PutLink, Rest, Put
<1>1. /\ Aside /\ excused' \subseteq Link
      /\ reader[r].link \in Link /\ reader[r].v \in Maybe /\ reader[r].v # None
      /\ \A l : l = reader[r].link /\ Behind(l, reader[r].v) => Covered(l)'
  BY Excused
<1>2. /\ reader' \in [Reader -> HandRec]
      /\ \A q \in Reader : reader'[q] # reader[q] => Hand(reader[q])'
  BY Types DEF IInv, Hand, Idle, Behind
<1>3. table' \in [Link -> Maybe] /\ \A l \in Link : table'[l] = IF l = reader[r].link THEN reader[r].v ELSE table[l]
  BY <1>1, Types DEF IInv
<1>4. TypeOK'
  BY <1>1, <1>2, <1>3, Types DEF IInv, TypeOK, HandRec, feed, watch
<1> QED BY <1>1, <1>2, <1>3, <1>4 DEF Careful, Copies, Behind

LEMMA SaveBlockStep ==
  ASSUME IInv, NEW r \in Reader, SaveBlock(r)
  PROVE  Careful
<1> USE DEF SaveBlock, Rest, Put
<1>1. /\ Aside /\ excused' \subseteq Link
      /\ reader[r].link \in Link /\ reader[r].v \in Maybe /\ reader[r].v # None
      /\ \A l : l = reader[r].link /\ Behind(l, reader[r].v) => Covered(l)'
  BY Excused
<1>2. /\ reader' \in [Reader -> HandRec]
      /\ \A q \in Reader : reader'[q] # reader[q] => Hand(reader[q])'
  BY Types DEF IInv, Hand, Idle, Behind
<1>3. blocks' \in [Link -> Maybe] /\ \A l \in Link : blocks'[l] = IF l = reader[r].link THEN reader[r].v ELSE blocks[l]
  BY <1>1, Types DEF IInv
<1>4. TypeOK'
  BY <1>1, <1>2, <1>3, Types DEF IInv, TypeOK, HandRec, feed, watch
<1> QED BY <1>1, <1>2, <1>3, <1>4 DEF Careful, Copies, Behind

LEMMA ReaderStep ==
  ASSUME IInv, NEW r \in Reader,
         Fetch(r) \/ \E l \in Link : Stat(r, l) \/ Read(r, l)
  PROVE  IInv'
<1>1. Careful
  BY FromCacheStep, FlyStep, GetLinkStep, GetRevisionStep, WriteCacheEntryStep, PutLinkStep,
     SaveBlockStep, StatStep, ReadStep DEF Fetch
<1> QED BY <1>1, DaemonOnly, CarefulKeeps

LEMMA EvictKeeps ==
  ASSUME IInv, NEW l \in Link, Evict(l)
  PROVE  IInv'
BY EvictStep, CarefulKeeps DEF Evict

-----------------------------------------------------------------------------
(* The log grows: what was new is behind, and its event is to come.        *)
LEMMA ChangeKeeps ==
  ASSUME IInv, NEW k \in Link, Change(k)
  PROVE  IInv'
<1>g. /\ Latest' = Latest + 1 /\ Latest \in Nat /\ log' \in Seq(Link) /\ log'[Latest + 1] = k
      /\ \A i \in 1..Latest : log'[i] = log[i]
      /\ Version(k)' = Latest + 1
      /\ \A l : l # k => Version(l)' = Version(l)
  BY Grown DEF IInv, Change
<1>u. /\ UNCHANGED <<mode, bare, caches, file, reader, feed, watch, faults, crashes, excused>>
      /\ Latest < MaxChanges
  BY DEF Change
<1>t. cur \in Maybe /\ file \in Maybe /\ goal \in Nat
  BY Types DEF IInv, TypeOK, Position
<1>1. TypeOK'
  BY <1>g, <1>u, Numbers DEF IInv, TypeOK, Latest, Position, caches, feed, watch
<1>2. Ordered'
  <2>1. ASSUME InBatch, NEW j \in DOMAIN todo
        PROVE  \E i \in (cur + 1)..goal : log'[i] = todo[j]
    <3>1. cur \in Nat /\ goal <= Latest
      BY <1>t, <2>1 DEF IInv, Ordered, Maybe, Position
    <3>2. PICK i \in (cur + 1)..goal : log[i] = todo[j]
      BY <2>1 DEF IInv, Ordered
    <3> QED BY <1>g, <1>t, <3>1, <3>2
  <2> QED BY <1>g, <1>u, <1>t, <2>1 DEF IInv, Ordered, feed, InBatch, Maybe, Position
<1>3. ASSUME NEW l, NEW c \in Nat, c <= Latest
      PROVE  (Later(l, c) => Later(l, c)') /\ Later(k, c)'
  <2>1. Later(k, c)'
    BY <1>3, <1>g DEF Later
  <2>2. ASSUME NEW i \in (c + 1)..Latest, log[i] = l PROVE Later(l, c)'
    BY <1>3, <1>g, <2>2 DEF Later
  <2> QED BY <2>1, <2>2 DEF Later
<1>4. /\ Followed' = Followed /\ (Followed # None => Followed \in Nat /\ Followed <= Latest)
      /\ InBatch' = InBatch /\ (InBatch => goal <= Latest)
  BY <1>u, <1>t, Numbers DEF Followed, feed, InBatch, IInv, Ordered, Maybe, Position
<1>5. \A l : Covered(l) => Covered(l)'
  BY <1>u, <1>3, <1>4, <1>t DEF Covered, Coming, Queued, feed
<1>6. Covered(k)'
  BY <1>u, <1>3, <1>4, <1>t DEF Covered, Coming, Queued, feed
<1>7. \A l, c : l # k => Behind(l, c)' = Behind(l, c)
  BY <1>g DEF Behind
<1>8. CopiesCovered'
  BY <1>u, <1>5, <1>6, <1>7 DEF IInv, CopiesCovered, Copies, caches
<1>9. HandsCovered'
  BY <1>u, <1>5, <1>6, <1>7 DEF IInv, HandsCovered, Hand
<1>10. StagedCovered'
  BY <1>u, <1>3, <1>4, <1>7, <1>t DEF IInv, StagedCovered, feed, caches, InBatch
<1>11. Watch'
  <2> SUFFICES ASSUME mode # "daemon" PROVE Watch'
    BY <1>u DEF Watch
  <2>1. synced \in Nat /\ synced <= Latest'
    BY <1>g DEF IInv, Watch, TypeOK, Maybe, Position
  <2>2. \A n : Told(n)' = Told(n)
    BY <1>u DEF Told, watch
  <2> QED BY <1>u, <2>1, <2>2, Numbers DEF IInv, Watch, feed, caches, watch
<1> QED BY <1>1, <1>2, <1>8, <1>9, <1>10, <1>11 DEF IInv

-----------------------------------------------------------------------------
(* The daemon's loop, its start and its end: no copy and no goroutine has  *)
(* anything it had not, and what is covered stays so where it matters.     *)
LEMMA LoopKeeps ==
  ASSUME IInv, mode = "daemon", UNCHANGED <<mode, log>>, TypeOK', Ordered', StagedCovered',
         \A l \in Link : Outdated(l) /\ Covered(l) => Covered(l)',
         \A l \in Link : Copies(l)' \subseteq Copies(l) \cup {None},
         \A r \in Reader :
           reader'[r] \in {reader[r], Idle, [reader[r] EXCEPT !.crossed = TRUE]}
  PROVE  IInv'
<1>1. CopiesCovered'
  BY SameLog DEF IInv, CopiesCovered, Copies, Behind, Outdated
<1>2. HandsCovered'
  <2> SUFFICES ASSUME NEW r \in Reader PROVE Hand(reader[r])'
    BY DEF HandsCovered
  <2>1. Hand(reader[r]) /\ reader[r] \in HandRec
    BY Types DEF IInv, HandsCovered
  <2>2. CASE reader'[r] = Idle
    BY <2>2 DEF Hand, Idle, Behind
  <2>3. CASE reader'[r] = [reader[r] EXCEPT !.crossed = TRUE]
    BY <2>1, <2>3, SameLog DEF Hand, HandRec, Behind
  <2>4. CASE reader'[r] = reader[r]
    <3>1. \A l \in Link : l = reader[r].link /\ Behind(l, reader[r].v) => Outdated(l)
      BY DEF Outdated, Holders, Behind
    <3>2. reader[r].v # None => reader[r].link \in Link
      BY <2>1 DEF Hand, HandRec
    <3> QED BY <2>1, <2>4, <3>1, <3>2, SameLog DEF Hand, Behind
  <2> QED BY <2>2, <2>3, <2>4
<1>3. Watch'
  BY DEF Watch
<1> QED BY <1>1, <1>2, <1>3 DEF IInv

LEMMA Sooner ==
  ASSUME TypeOK, NEW c \in Nat, NEW b \in Nat, b <= c, NEW l, Later(l, c)
  PROVE  Later(l, b)
<1>1. PICK i \in (c + 1)..Latest : log[i] = l
  BY DEF Later
<1>2. i \in (b + 1)..Latest
  BY VersionType
<1> QED BY <1>1, <1>2 DEF Later

(* What is covered by the cursor or the batch is covered by the file.      *)
LEMMA FiledCovers ==
  ASSUME IInv, NEW l, Covered(l), file # None
  PROVE  l \in excused \/ Later(l, file)
<1> SUFFICES ASSUME l \notin excused PROVE Later(l, file)
  OBVIOUS
<1>1. /\ file \in Nat /\ (cur # None => cur \in Nat /\ file <= cur)
      /\ Followed # None
  BY Types DEF IInv, Ordered, Maybe, Position, Followed
<1>2. CASE ~InBatch
  BY <1>1, <1>2, Sooner DEF Covered, Coming, Followed, IInv
<1>3. CASE InBatch
  <2>1. cur \in Nat /\ goal \in Nat /\ cur <= goal /\ file <= goal
    BY <1>1, <1>3 DEF IInv, Ordered, TypeOK, Position
  <2>2. CASE Later(l, goal)
    BY <1>1, <2>1, <2>2, Sooner DEF IInv
  <2>3. CASE Queued(l)
    <3>1. PICK j \in DOMAIN todo : todo[j] = l
      BY <2>3 DEF Queued
    <3>2. PICK i \in (cur + 1)..goal : log[i] = l
      BY <3>1, <1>3 DEF IInv, Ordered
    <3>3. i \in (file + 1)..Latest
      BY <1>1, <2>1, <1>3, VersionType DEF IInv, Ordered
    <3> QED BY <3>2, <3>3 DEF Later
  <2> QED BY <1>1, <1>3, <2>2, <2>3 DEF Covered, Coming
<1> QED BY <1>2, <1>3

LEMMA ListVolumesKeeps ==
  ASSUME IInv, ListVolumes
  PROVE  IInv'
<1> USE DEF ListVolumes, Loop, Quiet
<1>0. mode = "daemon"
  BY DEF IInv, Watch
<1>1. TypeOK'
  BY Numbers DEF IInv, TypeOK, caches, watch, Fault
<1>2. Ordered' /\ StagedCovered'
  BY DEF IInv, Ordered, StagedCovered, InBatch, Latest
<1>3. \A l \in Link : Covered(l) => Covered(l)'
  BY DEF Covered, Coming, Followed, InBatch, Later, Latest
<1> QED BY <1>0, <1>1, <1>2, <1>3, LoopKeeps DEF Copies, caches

LEMMA AnchorTo ==
  ASSUME IInv, Anchor, UNCHANGED <<log, caches, file, reader, todo, goal, mode, bare, watch, crashes>>,
         loop' \in {"poll", "save"}, loop \in {"cursor", "anchor"}, mode = "daemon"
  PROVE  IInv'
<1> USE DEF Anchor
<1>1. TypeOK'
  <2>1. Latest \in Maybe /\ {l \in Link : Outdated(l)} \subseteq Link
    BY VersionType DEF IInv, Maybe
  <2> QED BY <2>1, Numbers DEF IInv, TypeOK, caches, watch, Fault
<1>2. Ordered' /\ StagedCovered'
  BY VersionType, SameLog, Numbers DEF IInv, Ordered, StagedCovered, InBatch
<1>3. \A l \in Link : Outdated(l) /\ Covered(l) => Covered(l)'
  BY DEF Covered, Coming, Followed, InBatch, Later, Latest
<1> QED BY <1>1, <1>2, <1>3, LoopKeeps DEF Copies, caches

LEMMA InitCursorKeeps ==
  ASSUME IInv, InitCursor
  PROVE  IInv'
<1> USE DEF InitCursor, Loop, Quiet
<1>1. CASE file = None
  BY <1>1, AnchorTo
<1>2. CASE file # None
  <2>1. TypeOK'
    BY <1>2, Types DEF IInv, TypeOK, caches, watch
  <2>2. Ordered' /\ StagedCovered'
    BY <1>2, Types, SameLog DEF IInv, Ordered, StagedCovered, InBatch, Maybe, Position
  <2>3. \A l \in Link : Outdated(l) /\ Covered(l) => Covered(l)'
    <3>1. \A l : Covered(l) => l \in excused \/ Later(l, file)
      BY <1>2, FiledCovers
    <3> QED BY <1>2, <3>1 DEF Covered, Coming, Followed, InBatch, Later, Latest
  <2> QED BY <2>1, <2>2, <2>3, LoopKeeps DEF Copies, caches
<1> QED BY <1>1, <1>2

LEMMA ResyncKeeps ==
  ASSUME IInv, Resync
  PROVE  IInv'
BY AnchorTo DEF Resync, Loop, Quiet

LEMMA PollKeeps ==
  ASSUME IInv, Poll
  PROVE  IInv'
<1> USE DEF Poll, Loop, Quiet
<1>t. /\ log \in Seq(Link) /\ Latest = Len(log) /\ Latest \in Position /\ Latest \in Nat
      /\ cur \in Maybe /\ todo = <<>>
  BY VersionType, Types DEF IInv, TypeOK, Latest, Ordered, InBatch
<1>1. CASE loop' = "next"
  <2>1. /\ Served /\ todo' = SubSeq(log, cur + 1, Latest) /\ goal' = Latest /\ UNCHANGED faults
        /\ cur \in Nat /\ cur <= Latest
    BY <1>1, <1>t DEF Served, IInv, Ordered, Maybe, Position
  <2>2. /\ todo' \in Seq(Link) /\ Len(todo') = Latest - cur
        /\ \A j \in 1..Latest - cur : todo'[j] = log[cur + j]
    BY <2>1, <1>t
  <2>3. TypeOK'
    BY <2>1, <2>2, <1>t DEF IInv, TypeOK, caches, watch
  <2>4. \A j \in DOMAIN todo' : \E i \in (cur + 1)..Latest : log[i] = todo'[j]
    <3> TAKE j \in DOMAIN todo'
    <3>1. j \in 1..Latest - cur /\ cur + j \in (cur + 1)..Latest
      BY <2>1, <2>2, <1>t
    <3> QED BY <3>1, <2>2
  <2>5. Ordered' /\ StagedCovered'
    BY <1>1, <1>t, <2>1, <2>4, SameLog, Numbers DEF IInv, Ordered, StagedCovered, InBatch
  <2>6. \A l \in Link : Covered(l) => Covered(l)'
    <3> SUFFICES ASSUME NEW l \in Link, Covered(l) PROVE Covered(l)'
      OBVIOUS
    <3>1. CASE \E i \in (cur + 1)..Latest : log[i] = l
      <4>1. PICK i \in (cur + 1)..Latest : log[i] = l
        BY <3>1
      <4>2. i - cur \in DOMAIN todo' /\ todo'[i - cur] = l
        BY <4>1, <2>1, <2>2, <1>t
      <4> QED BY <4>2, <1>1 DEF Covered, Coming, InBatch, Queued
    <3>2. CASE ~\E i \in (cur + 1)..Latest : log[i] = l
      BY <3>2, <2>1, Numbers DEF Covered, Coming, Followed, InBatch, Later
    <3> QED BY <3>1, <3>2
  <2> QED BY <2>3, <2>5, <2>6, LoopKeeps DEF Copies, caches
<1>2. CASE loop' # "next"
  <2>1. UNCHANGED <<todo, goal>> /\ loop' \in {"clear", "save"} /\ (UNCHANGED faults \/ Fault)
    BY <1>2 DEF PollFails
  <2>2. TypeOK'
    BY <2>1, Numbers DEF IInv, TypeOK, caches, watch, Fault
  <2>3. Ordered' /\ StagedCovered'
    BY <2>1, SameLog DEF IInv, Ordered, StagedCovered, InBatch
  <2>4. \A l \in Link : Covered(l) => Covered(l)'
    BY <2>1 DEF Covered, Coming, Followed, InBatch, Later, Latest
  <2> QED BY <2>2, <2>3, <2>4, LoopKeeps DEF Copies, caches
<1> QED BY <1>1, <1>2

LEMMA BatchedKeeps ==
  ASSUME IInv, Batched
  PROVE  IInv'
<1> USE DEF Batched, Loop, Quiet
<1>0. mode = "daemon"
  BY DEF IInv, Watch
<1>1. cur \in Nat /\ goal \in Position /\ goal \in Nat /\ cur <= goal /\ goal <= Latest
  BY Types DEF IInv, Ordered, InBatch, TypeOK, Maybe, Position
<1>2. TypeOK'
  BY <1>1 DEF IInv, TypeOK, caches, watch, Maybe
<1>3. Ordered' /\ StagedCovered'
  BY <1>1, Types, SameLog DEF IInv, Ordered, StagedCovered, InBatch, Maybe, Position
<1>4. \A l \in Link : Covered(l) => Covered(l)'
  BY <1>1, Numbers DEF Covered, Coming, Queued, Followed, InBatch, Later, Latest
<1> QED BY <1>0, <1>2, <1>3, <1>4, LoopKeeps DEF Copies, caches

LEMMA SaveKeeps ==
  ASSUME IInv, Save
  PROVE  IInv'
<1> USE DEF Save, Loop, Quiet
<1>0. mode = "daemon"
  BY DEF IInv, Watch
<1>1. TypeOK'
  BY Numbers DEF IInv, TypeOK, caches, watch, Fault
<1>2. Ordered' /\ StagedCovered'
  BY Types, SameLog DEF IInv, Ordered, StagedCovered, InBatch, Maybe, Position
<1>3. \A l \in Link : Covered(l) => Covered(l)'
  BY DEF Covered, Coming, Followed, InBatch, Later, Latest
<1> QED BY <1>0, <1>1, <1>2, <1>3, LoopKeeps DEF Copies, caches

LEMMA ClearKeeps ==
  ASSUME IInv, Clear
  PROVE  IInv'
<1> USE DEF Clear, Loop, still
<1>0. mode = "daemon"
  BY DEF IInv, Watch
<1>1. TypeOK'
  BY Types DEF IInv, TypeOK, watch
<1>2. Ordered' /\ StagedCovered'
  BY SameLog DEF IInv, Ordered, StagedCovered, InBatch
<1>3. \A l \in Link : Covered(l) => Covered(l)'
  BY DEF Covered, Coming, Followed, InBatch, Later, Latest
<1> QED BY <1>0, <1>1, <1>2, <1>3, LoopKeeps DEF Copies, Nothing

LEMMA EraseAllKeeps ==
  ASSUME IInv, EraseAll
  PROVE  IInv'
<1> USE DEF EraseAll, Loop, still
<1>0. mode = "daemon"
  BY DEF IInv, Watch
<1>1. TypeOK'
  BY Types DEF IInv, TypeOK, watch
<1>2. Ordered' /\ StagedCovered'
  BY SameLog DEF IInv, Ordered, StagedCovered, InBatch
<1>3. \A l \in Link : Covered(l) => Covered(l)'
  BY DEF Covered, Coming, Followed, InBatch, Later, Latest
<1> QED BY <1>0, <1>1, <1>2, <1>3, LoopKeeps DEF Copies, Nothing

LEMMA BootKeeps ==
  ASSUME IInv, Boot
  PROVE  IInv'
<1> USE DEF Boot, still, Up
<1>1. TypeOK'
  BY Types DEF IInv, TypeOK, watch
<1>2. Ordered' /\ StagedCovered'
  BY SameLog DEF IInv, Ordered, StagedCovered, InBatch
<1>3. \A l \in Link : Covered(l) => Covered(l)'
  BY DEF Covered, Coming, Followed, InBatch, Later, Latest
<1>4. \A l \in Link : Copies(l)' \subseteq Copies(l) \cup {None}
  BY DEF Copies
<1> QED BY <1>1, <1>2, <1>3, <1>4, LoopKeeps

LEMMA StopKeeps ==
  ASSUME IInv, Stop
  PROVE  IInv'
<1> USE DEF Stop, Up
<1>1. TypeOK'
  BY Types, Numbers DEF IInv, TypeOK, watch, Position, HandRec
<1>2. Ordered' /\ StagedCovered'
  BY SameLog DEF IInv, Ordered, StagedCovered, InBatch
<1>3. \A l \in Link : Covered(l) => Covered(l)'
  <2> SUFFICES ASSUME NEW l \in Link, Covered(l), file' # None
               PROVE  l \in excused \/ Later(l, file')
    BY DEF Covered, Coming, Followed, InBatch, Later, Latest
  <2>1. CASE file' = file
    BY <2>1, FiledCovers
  <2>2. CASE loop = "poll" /\ file' = cur
    BY <2>2 DEF Covered, Coming, Followed, InBatch
  <2> QED BY <2>1, <2>2
<1>4. \A l \in Link : Copies(l)' \subseteq Copies(l) \cup {None}
  BY DEF Copies, Nothing
<1> QED BY <1>1, <1>2, <1>3, <1>4, LoopKeeps

-----------------------------------------------------------------------------
(* One event of a batch. Who holds an old copy of its link is marked.      *)
LEMMA Crosses ==
  ASSUME IInv, NEW h \in Link, Cross(h)
  PROVE  /\ reader' \in [Reader -> HandRec]
         /\ \A r \in Reader : reader'[r] \in {reader[r], [reader[r] EXCEPT !.crossed = TRUE]}
         /\ \A r \in Reader : Behind(h, reader[r].v) /\ reader[r].link = h => reader'[r].crossed
<1>1. reader \in [Reader -> HandRec]
  BY Types DEF IInv
<1> QED BY <1>1 DEF Cross, Holders, HandRec, Behind

LEMMA HeadType ==
  ASSUME IInv, todo # <<>>
  PROVE  /\ Head(todo) \in Link /\ Tail(todo) \in Seq(Link)
         /\ todo[1] = Head(todo) /\ 1 \in DOMAIN todo
         /\ DOMAIN Tail(todo) = 1..Len(todo) - 1 /\ DOMAIN todo = 1..Len(todo)
         /\ \A j \in 1..Len(todo) - 1 : Tail(todo)[j] = todo[j + 1]
         /\ Len(todo) \in Nat \ {0}
<1>1. todo \in Seq(Link)
  BY DEF IInv, TypeOK
<1> QED BY <1>1

LEMMA EraseDiskKeeps ==
  ASSUME IInv, EraseDisk
  PROVE  IInv'
<1> DEFINE h == Head(todo)
<1> USE DEF EraseDisk, Loop, still
<1>0. mode = "daemon" /\ todo # <<>> /\ h \in Link
  BY HeadType DEF IInv, Watch, StagedCovered
<1>1. /\ reader' \in [Reader -> HandRec]
      /\ \A r \in Reader : reader'[r] \in {reader[r], [reader[r] EXCEPT !.crossed = TRUE]}
  BY <1>0, Crosses
<1>2. disk' \in [Link -> Maybe] /\ \A l \in Link : disk'[l] \in {disk[l], None}
  BY <1>0, Types DEF IInv, Without
<1>3. excused \subseteq excused' /\ excused' \subseteq Link
  BY <1>0 DEF IInv, TypeOK, Slips
<1>4. TypeOK'
  <2>1. Typed
    BY TypedIs DEF IInv
  <2>2. Typed'
    BY <1>1, <1>2, <1>3, <2>1 DEF Typed, watch
  <2> QED BY <2>2, TypedIs
<1>5. Ordered' /\ StagedCovered'
  BY <1>3, SameLog DEF IInv, Ordered, StagedCovered, InBatch, Later, Behind
<1>6. \A l \in Link : Covered(l) => Covered(l)'
  BY <1>3 DEF Covered, Coming, Queued, Followed, InBatch, Later, Latest
<1>7. \A l \in Link : Copies(l)' \subseteq Copies(l) \cup {None}
  BY <1>2 DEF Copies
<1> QED BY <1>0, <1>1, <1>4, <1>5, <1>6, <1>7, LoopKeeps

LEMMA EraseTableKeeps ==
  ASSUME IInv, EraseTable
  PROVE  IInv'
<1> DEFINE h == Head(todo)
<1> USE DEF EraseTable, Loop, still
<1>0. mode = "daemon" /\ todo # <<>> /\ h \in Link
  BY HeadType DEF IInv, Watch
<1>1. /\ reader' \in [Reader -> HandRec]
      /\ \A r \in Reader : reader'[r] \in {reader[r], [reader[r] EXCEPT !.crossed = TRUE]}
  BY <1>0, Crosses
<1>2. table' \in [Link -> Maybe] /\ \A l \in Link : table'[l] \in {table[l], None}
  BY <1>0, Types DEF IInv, Without
<1>3. /\ excused \ {h} \subseteq excused' /\ excused' \subseteq Link
      /\ Behind(h, staged[h]) => h \in excused'
  BY <1>0 DEF IInv, TypeOK, Slips, Behind
<1>4. TypeOK'
  <2>1. Typed
    BY TypedIs DEF IInv
  <2>2. Typed'
    BY <1>1, <1>2, <1>3, <2>1 DEF Typed, watch
  <2> QED BY <2>2, TypedIs
<1>5. Ordered'
  BY SameLog DEF IInv, Ordered, InBatch
<1>6. StagedCovered'
  BY <1>0, <1>3, SameLog DEF StagedCovered, Behind
<1>7. \A l \in Link : Covered(l) => Covered(l)'
  <2>1. h = todo[1] /\ 1 \in DOMAIN todo
    BY <1>0, HeadType
  <2> QED BY <1>3, <2>1 DEF Covered, Coming, Queued, Followed, InBatch, Later, Latest
<1>8. \A l \in Link : Copies(l)' \subseteq Copies(l) \cup {None}
  BY <1>2 DEF Copies
<1> QED BY <1>0, <1>1, <1>4, <1>5, <1>6, <1>7, <1>8, LoopKeeps

LEMMA EraseBlocksKeeps ==
  ASSUME IInv, EraseBlocks
  PROVE  IInv'
<1> DEFINE h == Head(todo)
<1> USE DEF EraseBlocks, Loop, still, BlocksErased
<1>0. mode = "daemon" /\ todo # <<>> /\ h \in Link
  BY HeadType DEF IInv, Watch, StagedCovered
<1>1. /\ reader' \in [Reader -> HandRec]
      /\ \A r \in Reader : reader'[r] \in {reader[r], [reader[r] EXCEPT !.crossed = TRUE]}
      /\ \A r \in Reader : Behind(h, reader[r].v) /\ reader[r].link = h => reader'[r].crossed
  BY <1>0, Crosses
<1>2. /\ blocks' \in [Link -> Maybe]
      /\ \A l \in Link : blocks'[l] = IF l = h THEN None ELSE blocks[l]
  BY <1>0, Types DEF IInv, Without
<1>3. /\ excused \subseteq excused' /\ excused' \subseteq Link
      /\ \A c \in {table[h], disk[h]} : Behind(h, c) => h \in excused'
  BY <1>0 DEF IInv, TypeOK, Slips, Behind
<1>4. TypeOK'
  <2>1. todo' \in Seq(Link)
    BY <1>0, HeadType
  <2>2. /\ UNCHANGED <<mode, bare, log, watch, crashes, disk, table, staged, file, cur, goal, faults>>
        /\ loop' = "next"
    OBVIOUS
  <2> HIDE DEF EraseBlocks
  <2> QED BY <1>1, <1>2, <1>3, <2>1, <2>2 DEF IInv, TypeOK, watch, HandRec
<1>5. Ordered' /\ StagedCovered'
  <2>1. \A j \in DOMAIN Tail(todo) : \E i \in (cur + 1)..goal : log[i] = Tail(todo)[j]
    <3> TAKE j \in DOMAIN Tail(todo)
    <3>1. j + 1 \in DOMAIN todo /\ Tail(todo)[j] = todo[j + 1]
      BY <1>0, HeadType
    <3> QED BY <3>1 DEF IInv, Ordered, InBatch
  <2> QED BY <2>1, SameLog DEF IInv, Ordered, StagedCovered, InBatch
<1>6. \A l \in Link : l # h /\ Covered(l) => Covered(l)'
  <2> SUFFICES ASSUME NEW l \in Link, l # h, Queued(l)
               PROVE  Queued(l)'
    BY <1>3 DEF Covered, Coming, Followed, InBatch, Later, Latest
  <2>1. PICK j \in DOMAIN todo : todo[j] = l
    BY DEF Queued
  <2>2. j # 1 /\ j - 1 \in DOMAIN Tail(todo) /\ Tail(todo)[j - 1] = l
    BY <2>1, <1>0, HeadType
  <2> QED BY <2>2 DEF Queued
<1>7. \A l \in Link : l = h => \A c \in Copies(l)' : Behind(l, c) => Covered(l)'
  <2> SUFFICES ASSUME NEW l \in Link, l = h, NEW c \in Copies(l)', Behind(l, c)
               PROVE  Covered(l)'
    OBVIOUS
  <2>1. Behind(h, staged[h]) => h \in excused \/ Later(h, goal)
    BY DEF IInv, StagedCovered
  <2>2. l \in excused' \/ Later(l, goal) => Covered(l)'
    BY DEF Covered, Coming, InBatch, Later, Latest
  <2>3. c \in {disk[l], table[l], staged[l]}
    BY <1>2 DEF Copies, Behind
  <2> QED BY <1>3, <2>1, <2>2, <2>3
<1>8. CopiesCovered'
  <2> SUFFICES ASSUME NEW l \in Link, NEW c \in Copies(l)', Behind(l, c)
               PROVE  Covered(l)'
    BY SameLog DEF CopiesCovered
  <2>1. l # h => c \in Copies(l)
    BY <1>2 DEF Copies
  <2> QED BY <1>6, <1>7, <2>1 DEF IInv, CopiesCovered
<1>9. HandsCovered'
  <2> SUFFICES ASSUME NEW r \in Reader PROVE Hand(reader[r])'
    BY DEF HandsCovered
  <2>1. Hand(reader[r]) /\ reader[r] \in HandRec
    BY Types DEF IInv, HandsCovered
  <2>2. /\ reader'[r].link = reader[r].link /\ reader'[r].v = reader[r].v
        /\ reader'[r].pc = reader[r].pc /\ (reader[r].crossed => reader'[r].crossed)
    BY <1>1, <2>1 DEF HandRec
  <2>3. reader[r].v # None => reader[r].link \in Link
    BY <2>1 DEF Hand, HandRec
  <2> QED BY <1>1, <1>6, <2>1, <2>2, <2>3, SameLog DEF Hand, Behind
<1>10. Watch'
  BY <1>0 DEF Watch
<1> QED BY <1>4, <1>5, <1>8, <1>9, <1>10 DEF IInv

-----------------------------------------------------------------------------
(* proton event watch.                                                     *)
ToldAfter(n) == \A i \in 1..n : i \in printed' \cup gap' \/ i <= synced'
LEMMA WatchKeeps ==
  ASSUME IInv, Watching, loop' \in {"cursor", "poll", "off", "anchor"},
         cur' \in {cur, file, Latest}, shown' \in {shown, cur'}, synced' \in Position,
         printed' \subseteq 1..MaxChanges, gap' \subseteq 1..MaxChanges, UNCHANGED faults \/ Fault,
         loop' \in {"poll", "anchor"} => cur' # None,
         loop' = "cursor" => shown' = None /\ cur' = None /\ synced' = 0,
         synced' <= Latest,
         cur' # None => ToldAfter(cur'), shown' # None => ToldAfter(shown')
  PROVE  IInv'
<1> USE DEF Watching
<1>t. /\ cur \in Maybe /\ file \in Maybe /\ Latest \in Maybe /\ Latest \in Nat /\ shown \in Maybe
      /\ todo = <<>> /\ loop \in {"cursor", "poll", "off", "anchor"} /\ Position \subseteq Nat
  <2>1. TypeOK /\ Ordered /\ Watch
    BY DEF IInv
  <2>2. cur \in Maybe /\ file \in Maybe /\ Latest \in Position /\ Latest \in Nat /\ shown \in Maybe
    BY <2>1, TypedIs, VersionType DEF Typed
  <2> QED BY <2>1, <2>2, Numbers DEF Maybe, Ordered, Watch, InBatch, Position
<1>1. TypeOK'
  <2>1. Typed
    BY TypedIs DEF IInv
  <2>2. UNCHANGED <<mode, bare, log, disk, blocks, table, staged, file, reader, todo, goal, crashes,
                    excused>>
    BY DEF caches
  <2>3. faults' \in 0..MaxFaults
    BY <2>1, Numbers DEF Fault, Typed
  <2>4. cur' \in Maybe /\ shown' \in Maybe /\ synced' \in Maybe
    BY <1>t DEF Maybe
  <2>5. Typed'
    BY <2>1, <2>2, <2>3, <2>4 DEF Typed
  <2> QED BY <2>5, TypedIs
<1>2. Ordered'
  BY <1>t, Numbers, SameLog DEF IInv, Ordered, InBatch, Maybe, Position
<1>3. /\ UNCHANGED <<disk, blocks, table, staged>>
      /\ disk = Nothing /\ blocks = Nothing /\ table = Nothing /\ staged = Nothing
      /\ \A r \in Reader : reader'[r] = Idle
  BY DEF caches, IInv, Watch
<1>4. CopiesCovered' /\ HandsCovered' /\ StagedCovered'
  BY <1>3 DEF CopiesCovered, HandsCovered, StagedCovered, Copies, Behind, Hand, Idle, Nothing
<1>5. Watch'
  <2>1. (cur # None => Told(cur))' /\ (shown # None => Told(shown))'
    BY DEF Told, ToldAfter
  <2>2. (synced # None /\ synced <= Latest)'
    BY <1>t, SameLog, Numbers
  <2> QED BY <1>3, <2>1, <2>2 DEF Watch, Nothing
<1> QED BY <1>1, <1>2, <1>4, <1>5 DEF IInv

LEMMA WatchFacts ==
  ASSUME IInv, Watching
  PROVE  /\ cur \in Maybe /\ file \in Maybe /\ Latest \in Nat /\ Latest \in Position /\ shown \in Maybe
         /\ Latest <= MaxChanges /\ MaxChanges \in Nat /\ None \notin Nat
         /\ synced \in Nat /\ synced <= Latest
         /\ cur # None => Told(cur) /\ cur \in Nat /\ cur <= Latest
         /\ file # None => file \in Nat /\ file <= Latest
         /\ shown # None => Told(shown) /\ shown \in Nat
         /\ loop \in {"poll", "anchor"} => cur # None
         /\ loop = "cursor" => shown = None /\ cur = None /\ synced = 0
         /\ printed \subseteq 1..MaxChanges /\ gap \subseteq 1..MaxChanges
<1>1. TypeOK /\ Ordered /\ Watch /\ mode # "daemon"
  BY DEF IInv, Watching
<1>2. Typed
  BY <1>1, TypedIs
<1>3. Latest \in Nat /\ Latest \in Position
  BY <1>1, VersionType
<1>4. /\ synced # None /\ synced <= Latest /\ (cur # None => Told(cur) /\ cur <= Latest)
      /\ (shown # None => Told(shown)) /\ (file # None => file <= Latest)
      /\ (loop \in {"poll", "anchor"} => cur # None)
      /\ (loop = "cursor" => shown = None /\ cur = None /\ synced = 0)
  BY <1>1 DEF Watch, Ordered
<1>5. /\ cur \in Maybe /\ file \in Maybe /\ shown \in Maybe /\ synced \in Maybe
      /\ printed \subseteq 1..MaxChanges /\ gap \subseteq 1..MaxChanges
  BY <1>2 DEF Typed
<1> QED BY <1>3, <1>4, <1>5, Numbers DEF Maybe, Position

LEMMA WatchInitKeeps ==
  ASSUME IInv, WatchInit
  PROVE  IInv'
<1>0. Watching
  BY DEF WatchInit
<1>1. CASE cur' = IF file # None THEN file ELSE Latest
  <2>1. /\ cur' \in Nat /\ cur' <= Latest /\ cur' \in Maybe /\ cur = None
        /\ cur' \in {file, Latest} /\ UNCHANGED <<printed, gap>>
    BY <1>0, <1>1, WatchFacts DEF WatchInit, Maybe
  <2> QED BY <1>0, <1>1, <2>1, WatchFacts, WatchKeeps DEF WatchInit, Loop, Told, ToldAfter, Position
<1>2. CASE cur' # IF file # None THEN file ELSE Latest
  BY <1>0, <1>2, WatchFacts, WatchKeeps DEF WatchInit, Loop, Told, ToldAfter, Position
<1> QED BY <1>1, <1>2

LEMMA WatchPollKeeps ==
  ASSUME IInv, WatchPoll
  PROVE  IInv'
<1>0. Watching /\ loop = "poll" /\ UNCHANGED <<gap, loop, synced>>
  BY DEF WatchPoll
<1>1. CASE cur' = Latest /\ shown' = Latest /\ printed' = printed \cup (cur + 1)..Latest /\ UNCHANGED faults
  <2>1. cur \in Nat /\ (cur + 1)..Latest \subseteq 1..MaxChanges
    BY <1>0, WatchFacts
  <2>2. \A i \in 1..Latest : i \in printed' \cup gap' \/ i <= synced'
    BY <1>0, <1>1, <2>1, WatchFacts DEF Told
  <2> QED BY <1>0, <1>1, <2>1, <2>2, WatchFacts, WatchKeeps DEF Told, ToldAfter, Position
<1>2. CASE cur' = cur /\ Fault /\ UNCHANGED <<printed, shown>>
  BY <1>0, <1>2, WatchFacts, WatchKeeps DEF Told, ToldAfter, Position
<1> QED BY <1>1, <1>2 DEF WatchPoll, Kept

LEMMA WatchRefreshKeeps ==
  ASSUME IInv, WatchRefresh
  PROVE  IInv'
<1>0. /\ Watching /\ loop = "poll" /\ loop' = "anchor" /\ Fault
      /\ cur' = Latest /\ shown' = Latest /\ synced' = Latest /\ UNCHANGED <<printed, gap>>
  BY DEF WatchRefresh, Loop
<1> QED BY <1>0, WatchFacts, WatchKeeps DEF Told, ToldAfter, Position

LEMMA WatchAnchorKeeps ==
  ASSUME IInv, WatchAnchor
  PROVE  IInv'
<1>0. Watching /\ loop = "anchor" /\ loop' = "poll" /\ UNCHANGED <<printed, synced>>
      /\ shown' \in {shown, cur'}
  BY DEF WatchAnchor, Loop
<1>1. CASE cur' = Latest /\ gap' = gap \cup (cur + 1)..Latest /\ UNCHANGED faults
  <2>1. cur \in Nat /\ (cur + 1)..Latest \subseteq 1..MaxChanges
    BY <1>0, WatchFacts
  <2>2. \A i \in 1..Latest : i \in printed' \cup gap' \/ i <= synced'
    BY <1>0, <1>1, <2>1, WatchFacts DEF Told
  <2>3. shown # None => \A i \in 1..shown : i \in printed' \cup gap' \/ i <= synced'
    BY <1>0, <1>1, WatchFacts DEF Told
  <2> QED BY <1>0, <1>1, <2>1, <2>2, <2>3, WatchFacts, WatchKeeps DEF Told, ToldAfter, Position
<1>2. CASE Fault /\ UNCHANGED <<cur, gap>>
  BY <1>0, <1>2, WatchFacts, WatchKeeps DEF Told, ToldAfter, Position
<1> QED BY <1>1, <1>2 DEF WatchAnchor

LEMMA WatchStaleKeeps ==
  ASSUME IInv, WatchStale
  PROVE  IInv'
<1>0. Watching /\ loop = "poll" /\ loop' = "poll" /\ UNCHANGED <<printed, gap>>
      /\ shown' = cur' /\ synced' = Latest
      /\ cur' \in {cur, Latest} /\ (UNCHANGED faults \/ Fault)
  BY DEF WatchStale
<1>1. cur' \in Nat /\ cur' <= Latest /\ cur <= cur'
  BY <1>0, WatchFacts
<1> QED BY <1>0, <1>1, WatchFacts, WatchKeeps DEF Told, ToldAfter, Position

-----------------------------------------------------------------------------
LEMMA Inductive == IInv /\ [Next]_vars => IInv'
<1> SUFFICES ASSUME IInv, [Next]_vars PROVE IInv'
  OBVIOUS
<1>1. CASE UNCHANGED vars
  <2> USE <1>1 DEF vars, caches, feed, watch
  <2>1. TypeOK' /\ Ordered' /\ Watch'
    BY DEF IInv, TypeOK, Ordered, Latest, InBatch, Watch, Told
  <2>2. \A l : Covered(l) => Covered(l)'
    BY DEF Covered, Coming, Queued, Later, Followed, InBatch, Latest
  <2>3. CopiesCovered'
    BY <2>2, SameLog DEF IInv, CopiesCovered, Copies
  <2>4. HandsCovered'
    BY <2>2, SameLog DEF IInv, HandsCovered, Hand
  <2>5. StagedCovered'
    BY SameLog DEF IInv, StagedCovered, Later
  <2> QED BY <2>1, <2>3, <2>4, <2>5 DEF IInv
<1>2. CASE \E l \in Link : Change(l) \/ Evict(l)
  BY <1>2, ChangeKeeps, EvictKeeps
<1>3. CASE \E r \in Reader : Fetch(r) \/ \E l \in Link : Stat(r, l) \/ Read(r, l)
  BY <1>3, ReaderStep
<1>4. CASE Boot \/ Stop
  BY <1>4, BootKeeps, StopKeeps
<1>5. CASE EventLoop
  BY <1>5, ListVolumesKeeps, InitCursorKeeps, PollKeeps, EraseTableKeeps, EraseDiskKeeps,
     EraseBlocksKeeps, BatchedKeeps, ClearKeeps, EraseAllKeeps, ResyncKeeps, SaveKeeps,
     WatchInitKeeps, WatchPollKeeps, WatchRefreshKeeps, WatchAnchorKeeps, WatchStaleKeeps
     DEF EventLoop
<1> QED BY <1>1, <1>2, <1>3, <1>4, <1>5 DEF Next

LEMMA Always == Spec => []IInv
BY Initial, Inductive, PTL DEF Spec

(* Every variable keeps its type, whatever changes, fails, dies or starts. *)
THEOREM TypeCorrect == Spec => []TypeOK
<1>1. IInv => TypeOK
  BY DEF IInv
<1> QED BY <1>1, Always, PTL

(* For any links, goroutines and window: an old copy in the table, the     *)
(* staging map, the object cache or the block files has its event to come  *)
(* after the cursor, or one of the named excuses.                          *)
THEOREM OldCopiesExplained == Spec => []StaleIsExplained
<1>1. IInv => StaleIsExplained
  <2> SUFFICES ASSUME IInv, NEW l \in Link, NEW c \in Copies(l), Behind(l, c), Followed # None,
                      l \notin excused
               PROVE  Later(l, Followed)
    BY DEF StaleIsExplained, Copies, Behind
  <2>1. Coming(l)
    BY DEF IInv, CopiesCovered, Covered
  <2>2. CASE ~InBatch
    BY <2>1, <2>2 DEF Coming
  <2>3. CASE InBatch
    <3>1. cur \in Nat /\ goal \in Nat /\ cur <= goal /\ goal <= Latest /\ Latest \in Nat /\ Followed = cur
      <4>1. cur \in Maybe /\ goal \in Position /\ Latest \in Nat /\ MaxChanges \in Nat
        BY TypedIs, VersionType, Numbers DEF IInv, Typed
      <4>2. cur # None /\ cur <= goal /\ goal <= Latest
        BY <2>3 DEF IInv, Ordered
      <4> QED BY <2>3, <4>1, <4>2 DEF Maybe, Position, Followed
    <3>2. CASE Later(l, goal)
      BY <3>1, <3>2, Sooner DEF IInv
    <3>3. CASE Queued(l)
      <4>1. PICK j \in DOMAIN todo : todo[j] = l
        BY <3>3 DEF Queued
      <4>2. PICK i \in (cur + 1)..goal : log[i] = l
        BY <4>1, <2>3 DEF IInv, Ordered
      <4> QED BY <3>1, <4>2 DEF Later
    <3> QED BY <2>1, <2>3, <3>2, <3>3 DEF Coming
  <2> QED BY <2>2, <2>3
<1> QED BY <1>1, Always, PTL

(* For any window and faults: up to the cursor event watch names on exit   *)
(* every event was printed, covered by a refresh line, or fell into the    *)
(* gap between a refresh line and the call that sets the cursor.           *)
THEOREM NothingUntold == Spec => []WatchSkipsNothing
<1>1. IInv => WatchSkipsNothing
  BY DEF IInv, Watch, Told, WatchSkipsNothing
<1> QED BY <1>1, Always, PTL
================================================================================
