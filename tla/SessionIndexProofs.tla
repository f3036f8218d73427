------------------------- MODULE SessionIndexProofs -------------------------
(***************************************************************************)
(* Proofs about SessionIndex: its type invariant, that a session never     *)
(* gets another session's credentials, that a logout stands, and that the  *)
(* store implements SessionMap, for any processes, accounts, services,     *)
(* earlier logins and bounds.                                              *)
(***************************************************************************)
EXTENDS SessionIndex, TLAPS

(***************************************************************************)
(* Where a call is, its copy of the index has the entry it works on; one   *)
(* that a logout is about to write has none of the account.                *)
(***************************************************************************)
LocatedAt(p) ==
    /\ pc[p] = "get" => call[p].op = "load" /\ Resolve(p, view[p]) \in DOMAIN view[p]
    /\ pc[p] = "set" => call[p].op = "save" /\ Slot(p) \in DOMAIN view[p]
    /\ pc[p] = "forget" /\ call[p].op = "delete" => Slot(p) \in DOMAIN view[p]
    /\ pc[p] \in {"truncate", "write"} /\ call[p].op = "deleteAll" =>
          Sessions(view[p], call[p].account) = {}

Located == \A p \in Procs : LocatedAt(p)

(***************************************************************************)
(* A UUID is used for the slot it was made for and no other: in the file,  *)
(* in every copy of it and in the keyring.                                 *)
(***************************************************************************)
Owns(i) == \A s \in DOMAIN i : minted[i[s]] = s

Owned ==
    /\ Owns(index)
    /\ \A p \in Procs : Owns(view[p])
    /\ \A u \in DOMAIN secrets : <<secrets[u].account, secrets[u].service>> = minted[u]
    /\ \A p \in Procs : pc[p] # "idle" =>
          <<call[p].creds.account, call[p].creds.service>> = Slot(p)

IInv == TypeOK /\ Located /\ Owned

(***************************************************************************)
(* As long as no calls overlap there is one call at most, and nothing that *)
(* can be loaded was saved before the account's last logout.               *)
(***************************************************************************)
Recent(i) == \A s \in DOMAIN i : i[s] \in DOMAIN secrets =>
                 secrets[i[s]].n >= closed[s[1]]

OneByOne ==
    /\ \A p, q \in Procs : pc[p] # "idle" /\ pc[q] # "idle" => p = q
    /\ \A p \in Procs : pc[p] = "idle" => DOMAIN view[p] = {}
    /\ \A a \in Accounts : closed[a] <= calls + 1
    /\ \A p \in Procs : pc[p] # "idle" =>
          call[p].creds.n = calls /\ \A a \in Accounts : closed[a] <= calls
    /\ Recent(index)
    /\ \A p \in Procs : Recent(view[p])

LInv == IInv /\ (~overlapped => OneByOne)

(***************************************************************************)
(* As long as nothing fails either, the index and the keyring fit together *)
(* but for what the call in progress is doing: what index i gives slot s,  *)
(* whether all it gives is in the keyring, and which calls are about to    *)
(* write an index because that is no longer so.                            *)
(***************************************************************************)
Calm == ~overlapped /\ faults = 0

Val(i, s) == IF s \in DOMAIN i /\ i[s] \in DOMAIN secrets THEN secrets[i[s]] ELSE NoCreds
AtRest(i) == \A s \in DOMAIN i : i[s] \in DOMAIN secrets

Taking(p) == \/ pc[p] \in {"truncate", "write"}
             \/ pc[p] = "forget" /\ call[p].op = "deleteAll"

Reading(p) == pc[p] \in {"get", "forget"} => view[p] = index

Setting(p) == pc[p] = "set" =>
    /\ \A s \in DOMAIN index : s \in DOMAIN view[p] /\ view[p][s] = index[s]
    /\ \A s \in DOMAIN view[p] : s \in DOMAIN index \/ s = Slot(p)

Sweeping(p) == pc[p] = "forget" /\ call[p].op = "deleteAll" =>
    /\ \A s \in DOMAIN index :
          index[s] \in DOMAIN secrets <=> s[1] # call[p].account \/ index[s] \in todo[p]
    /\ \A u \in todo[p] : \E s \in Sessions(index, call[p].account) : index[s] = u

Writing(p) == pc[p] \in {"truncate", "write"} =>
    /\ call[p].op \in {"save", "delete", "deleteAll"}
    /\ AtRest(view[p])
    /\ \A s \in Slots : \/ Val(view[p], s) = Val(index, s)
                        \/ call[p].op = "save" /\ s = Slot(p)
    /\ call[p].op = "save" => Val(view[p], Slot(p)) = call[p].creds
    /\ call[p].op = "delete" => Slot(p) \notin DOMAIN view[p]

StageOK(p) ==
    /\ ~failed[p]
    /\ pc[p] = "forget" => call[p].op \in {"delete", "deleteAll"}
    /\ Reading(p) /\ Setting(p) /\ Sweeping(p) /\ Writing(p)

Faithful ==
    /\ file = IF \E p \in Procs : pc[p] = "write" THEN "empty" ELSE "whole"
    /\ (\A p \in Procs : ~Taking(p)) => AtRest(index)
    /\ \A p \in Procs : StageOK(p)

MInv == LInv /\ (Calm => Faithful)

-----------------------------------------------------------------------------
(***************************************************************************)
(* A call that ends leaves its process in order.                           *)
(***************************************************************************)
LEMMA EndLocal ==
  ASSUME TypeOK, NEW p \in Procs, NEW a \in Answers, End(p, a), minted' = minted
  PROVE  LocalOK'
<1>1. pc' \in [Procs -> Labels]
  BY DEF TypeOK, LocalOK, End, Labels
<1>2. call' \in [Procs -> ActiveCalls \cup {NoCall}]
  BY DEF TypeOK, LocalOK, End
<1>3. \A q \in Procs : pc'[q] = "idle" <=> call'[q] = NoCall
  BY DEF TypeOK, LocalOK, End
<1>4. DOMAIN view' = Procs /\ \A q \in Procs : Indexes(view[q])'
  BY DEF TypeOK, LocalOK, End, Indexes, Blank, UUIDs
<1>5. (todo \in [Procs -> SUBSET UUIDs])'
  BY DEF TypeOK, LocalOK, End, UUIDs
<1>6. failed' \in [Procs -> BOOLEAN]
  BY DEF TypeOK, LocalOK, End
<1>7. answer' \in [Procs -> Answers]
  BY DEF TypeOK, LocalOK, End
<1> QED
  BY <1>1, <1>2, <1>3, <1>4, <1>5, <1>6, <1>7 DEF LocalOK

(***************************************************************************)
(* So does one that goes on with an index.                                 *)
(***************************************************************************)
LEMMA GoOnLocal ==
  ASSUME TypeOK, NEW p \in Procs, NEW l \in Labels, NEW v, GoOn(p, l, v),
         l # "idle", pc[p] # "idle", DOMAIN v \subseteq Slots,
         \A s \in DOMAIN v : v[s] \in UUIDs', Len(minted) <= Len(minted'),
         Len(minted) \in Nat, Len(minted') \in Nat,
         (todo \in [Procs -> SUBSET UUIDs])', failed' \in [Procs -> BOOLEAN]
  PROVE  LocalOK'
<1>1. pc' \in [Procs -> Labels]
  BY DEF TypeOK, LocalOK, GoOn
<1>2. call' \in [Procs -> ActiveCalls \cup {NoCall}]
  BY DEF TypeOK, LocalOK, GoOn
<1>3. \A q \in Procs : pc'[q] = "idle" <=> call'[q] = NoCall
  BY DEF TypeOK, LocalOK, GoOn
<1>4. DOMAIN view' = Procs
  BY DEF TypeOK, LocalOK, GoOn
<1>5. \A q \in Procs : Indexes(view[q])'
  BY DEF TypeOK, LocalOK, GoOn, Indexes, UUIDs
<1>6. answer' \in [Procs -> Answers]
  BY DEF TypeOK, LocalOK, GoOn
<1> QED
  BY <1>1, <1>2, <1>3, <1>4, <1>5, <1>6 DEF LocalOK

(***************************************************************************)
(* The answers a call can end with.                                        *)
(***************************************************************************)
LEMMA AnswersTyped ==
  ASSUME TypeOK
  PROVE  /\ NoAnswer \in Answers /\ Error \in Answers /\ Missing \in Answers
         /\ \A names \in SUBSET Accounts : Ok(names) \in Answers
         /\ \A c \in AllCreds : Found(c) \in Answers
         /\ \A p \in Procs : Done(p) \in Answers /\ Undone(p) \in Answers
  BY DEF Answers, Answer, NoAnswer, Error, Missing, Ok, Found, Done, Undone

(***************************************************************************)
(* A process that is in a call has one.                                    *)
(***************************************************************************)
LEMMA InACall ==
  ASSUME TypeOK, NEW p \in Procs, pc[p] # "idle"
  PROVE  /\ call[p] \in ActiveCalls
         /\ call[p].op \in Ops /\ call[p].account \in Accounts
         /\ call[p].service \in Services /\ call[p].creds \in AllCreds
         /\ Slot(p) \in Slots /\ Fallback(p) \in Slots
         /\ \A i : Resolve(p, i) \in Slots
<1>1. call[p] \in ActiveCalls
  BY DEF TypeOK, LocalOK
<1>2. /\ call[p].op \in Ops /\ call[p].account \in Accounts
      /\ call[p].service \in Services /\ call[p].creds \in AllCreds
  BY <1>1 DEF ActiveCalls
<1>3. Slot(p) \in Slots /\ Fallback(p) \in Slots
  BY <1>2, WildcardAssumption DEF Slot, Fallback, Slots
<1> QED
  BY <1>1, <1>2, <1>3 DEF Resolve

(***************************************************************************)
(* Making a UUID leaves the older ones what they were.                     *)
(***************************************************************************)
LEMMA Minting ==
  ASSUME minted \in Seq(Slots), NEW s \in Slots, minted' = Append(minted, s)
  PROVE  /\ minted' \in Seq(Slots)
         /\ Len(minted) \in Nat /\ Len(minted') = Len(minted) + 1
         /\ \A u \in UUIDs : minted'[u] = minted[u] /\ u \in UUIDs'
         /\ Len(minted) + 1 \in UUIDs' /\ minted'[Len(minted) + 1] = s
  BY DEF UUIDs

LEMMA InitTyped == Init => TypeOK
<1> SUFFICES ASSUME Init PROVE TypeOK
  OBVIOUS
<1>0. Held \in Seq(Slots) /\ Len(Held) \in Nat /\ UUIDs = 1 .. Len(Held)
      /\ \A i \in 1 .. Len(Held) : Held[i] \in Slots
  BY HeldAssumption DEF Init, UUIDs
<1>1. DOMAIN index \subseteq Slots
  BY <1>0 DEF Init
<1>2. ASSUME NEW s \in DOMAIN index PROVE index[s] \in UUIDs
  BY <1>0, <1>2 DEF Init
<1>3. Indexes(index)
  BY <1>1, <1>2 DEF Indexes
<1>4. ASSUME NEW u \in DOMAIN secrets
      PROVE  u \in UUIDs /\ secrets[u] \in AllCreds
  <2>1. u \in 1 .. Len(Held) /\ secrets[u] = Creds(Held[u], 0)
    BY <1>4 DEF Init
  <2>2. Held[u][1] \in Accounts /\ Held[u][2] \in Services
    BY <1>0, <2>1 DEF Slots
  <2> QED
    BY <1>0, <2>1, <2>2 DEF Creds, AllCreds
<1>5. StoredOK
  BY <1>0, <1>3, <1>4 DEF Init, StoredOK
<1>6. /\ pc \in [Procs -> Labels] /\ call \in [Procs -> ActiveCalls \cup {NoCall}]
      /\ \A p \in Procs : pc[p] = "idle" <=> call[p] = NoCall
      /\ todo \in [Procs -> SUBSET UUIDs] /\ failed \in [Procs -> BOOLEAN]
  BY DEF Init, Labels
<1>7. DOMAIN view = Procs /\ \A p \in Procs : Indexes(view[p])
  BY DEF Init, Indexes, Blank
<1>8. answer \in [Procs -> Answers]
  BY DEF Init, NoAnswer, Answer, Answers
<1>9. LocalOK
  BY <1>6, <1>7, <1>8 DEF LocalOK
<1>10. /\ calls \in 0 .. MaxCalls /\ faults \in 0 .. MaxFaults
       /\ closed \in [Accounts -> Nat]
  BY BoundAssumption DEF Init
<1>11. overlapped \in BOOLEAN
  BY DEF Init
<1> QED
  BY <1>5, <1>9, <1>10, <1>11 DEF TypeOK

-----------------------------------------------------------------------------
LEMMA FaultTyped ==
  ASSUME TypeOK, Fault
  PROVE  faults' \in 0 .. MaxFaults
  BY BoundAssumption DEF TypeOK, Fault

LEMMA CloseTyped ==
  ASSUME TypeOK, NEW a \in Accounts, Close(a)
  PROVE  closed' \in [Accounts -> Nat]
  BY BoundAssumption DEF TypeOK, Close

LEMMA BeginTyped ==
  ASSUME TypeOK, NEW p \in Procs, NEW c \in Calls, Begin(p, c)
  PROVE  TypeOK'
<1>1. StoredOK'
  BY DEF TypeOK, StoredOK, Begin, stored, Indexes, UUIDs
<1>2. calls' \in 0 .. MaxCalls /\ calls' \in Nat
  BY BoundAssumption DEF TypeOK, Begin
<1>3. call'[p] \in ActiveCalls /\ call'[p].op \in Ops
  BY <1>2 DEF TypeOK, LocalOK, Begin, Calls, ActiveCalls, AllCreds, Creds
<1>4. call' \in [Procs -> ActiveCalls \cup {NoCall}]
  BY <1>3 DEF TypeOK, LocalOK, Begin
<1>5. pc' \in [Procs -> Labels]
  BY DEF TypeOK, LocalOK, Begin, Labels
<1>6. \A q \in Procs : pc'[q] = "idle" <=> call'[q] = NoCall
  BY <1>3 DEF TypeOK, LocalOK, Begin, NoCall, Ops
<1>7. /\ DOMAIN view' = Procs /\ \A q \in Procs : Indexes(view[q])'
      /\ (todo \in [Procs -> SUBSET UUIDs])' /\ failed' \in [Procs -> BOOLEAN]
  BY DEF TypeOK, LocalOK, Begin, stored, Indexes, UUIDs
<1>8. answer' \in [Procs -> Answers]
  BY AnswersTyped DEF TypeOK, LocalOK, Begin
<1>9. LocalOK'
  BY <1>4, <1>5, <1>6, <1>7, <1>8 DEF LocalOK
<1>10. overlapped' \in BOOLEAN
  BY DEF TypeOK, Begin
<1> QED
  BY <1>1, <1>2, <1>9, <1>10 DEF TypeOK, Begin

LEMMA ReadTyped ==
  ASSUME TypeOK, NEW p \in Procs, Read(p)
  PROVE  TypeOK'
<1> USE DEF Labels
<1>a. pc[p] # "idle" /\ call[p].account \in Accounts /\ Slot(p) \in Slots
  BY InACall DEF Read
<1>b. Len(minted) \in Nat
  BY DEF TypeOK, StoredOK
<1>c. \/ /\ minted' = minted /\ Len(minted') = Len(minted) /\ LocalOK' /\ StoredOK'
      \/ ReadSave(p) /\ minted' # minted
  <2>0. minted' = minted => StoredOK'
    BY DEF Read, TypeOK, StoredOK, Indexes, UUIDs
  <2>1. CASE ReadList(p)
    <3>1. {s[1] : s \in DOMAIN index} \in SUBSET Accounts
      BY DEF TypeOK, StoredOK, Indexes, Slots
    <3> QED
      BY <2>0, <2>1, <3>1, EndLocal, AnswersTyped DEF ReadList
  <2>2. CASE ReadLoad(p)
    <3>1. CASE GoOn(p, "get", index) /\ UNCHANGED <<todo, failed>>
      <4>1. minted' = minted
        BY <2>2 DEF ReadLoad
      <4>2. (todo \in [Procs -> SUBSET UUIDs])' /\ failed' \in [Procs -> BOOLEAN]
        BY <3>1, <4>1 DEF TypeOK, LocalOK, UUIDs
      <4> QED
        BY <1>a, <1>b, <2>0, <3>1, <4>1, <4>2, GoOnLocal DEF TypeOK, StoredOK, Indexes, UUIDs
    <3>2. CASE End(p, Missing)
      BY <2>0, <2>2, <3>2, EndLocal, AnswersTyped DEF ReadLoad
    <3> QED
      BY <2>2, <3>1, <3>2 DEF ReadLoad
  <2>3. CASE ReadSave(p) /\ minted' = minted
    <3>1. Slot(p) \in DOMAIN index
      <4>1. ASSUME minted' = Append(minted, Slot(p)) PROVE FALSE
        BY <1>a, <2>3, <4>1, Minting DEF TypeOK, StoredOK
      <4> QED
        BY <2>3, <4>1 DEF ReadSave
    <3>2. GoOn(p, "set", index) /\ UNCHANGED <<todo, failed>>
      BY <2>3, <3>1 DEF ReadSave
    <3>3. (todo \in [Procs -> SUBSET UUIDs])' /\ failed' \in [Procs -> BOOLEAN]
      BY <2>3, <3>2 DEF TypeOK, LocalOK, UUIDs
    <3> QED
      BY <1>a, <1>b, <2>0, <2>3, <3>2, <3>3, GoOnLocal DEF TypeOK, StoredOK, Indexes, UUIDs
  <2>4. CASE ReadDelete(p)
    <3>1. CASE GoOn(p, "forget", index) /\ UNCHANGED <<todo, failed>>
      <4>1. minted' = minted
        BY <2>4 DEF ReadDelete
      <4>2. (todo \in [Procs -> SUBSET UUIDs])' /\ failed' \in [Procs -> BOOLEAN]
        BY <3>1, <4>1 DEF TypeOK, LocalOK, UUIDs
      <4> QED
        BY <1>a, <1>b, <2>0, <3>1, <4>1, <4>2, GoOnLocal DEF TypeOK, StoredOK, Indexes, UUIDs
    <3>2. CASE End(p, Ok({}))
      BY <2>0, <2>4, <3>2, EndLocal, AnswersTyped DEF ReadDelete
    <3> QED
      BY <2>4, <3>1, <3>2 DEF ReadDelete
  <2>5. CASE ReadDeleteAll(p)
    <3> DEFINE own == Sessions(index, call[p].account)
    <3>1. CASE own # {}
      <4>1. {index[s] : s \in own} \subseteq UUIDs
        BY DEF Sessions, TypeOK, StoredOK, Indexes
      <4>2. (todo \in [Procs -> SUBSET UUIDs])' /\ failed' \in [Procs -> BOOLEAN]
        BY <2>5, <3>1, <4>1 DEF ReadDeleteAll, TypeOK, LocalOK, UUIDs
      <4>3. GoOn(p, "forget", index) /\ minted' = minted
        BY <2>5, <3>1 DEF ReadDeleteAll, Read
      <4> QED
        BY <1>a, <1>b, <2>0, <4>2, <4>3, GoOnLocal DEF TypeOK, StoredOK, Indexes, UUIDs
    <3>2. CASE own = {}
      BY <2>0, <2>5, <3>2, EndLocal, AnswersTyped DEF ReadDeleteAll
    <3> QED
      BY <3>1, <3>2
  <2> QED
    BY <2>1, <2>2, <2>3, <2>4, <2>5 DEF Read
<1>d. closed' \in [Accounts -> Nat]
  <2>1. closed' = closed \/ Close(call[p].account)
    BY DEF Read, ReadList, ReadLoad, ReadSave, ReadDelete, ReadDeleteAll
  <2> QED
    BY <1>a, <2>1, CloseTyped DEF TypeOK
<1>e. /\ calls' \in 0 .. MaxCalls /\ faults' \in 0 .. MaxFaults
      /\ overlapped' \in BOOLEAN
  BY DEF Read, TypeOK
<1>f. CASE ReadSave(p) /\ minted' # minted
  <2> DEFINE v == With(index, Slot(p), Len(minted) + 1)
  <2>1. minted' = Append(minted, Slot(p)) /\ GoOn(p, "set", v)
    BY <1>f DEF ReadSave
  <2>2. /\ minted' \in Seq(Slots) /\ Len(minted') = Len(minted) + 1
        /\ \A u \in UUIDs : u \in UUIDs'
        /\ Len(minted) + 1 \in UUIDs'
    BY <1>a, <2>1, Minting DEF TypeOK, StoredOK
  <2>3. DOMAIN v \subseteq Slots /\ \A s \in DOMAIN v : v[s] \in UUIDs'
    BY <1>a, <2>2 DEF With, TypeOK, StoredOK, Indexes
  <2>4. (todo \in [Procs -> SUBSET UUIDs])' /\ failed' \in [Procs -> BOOLEAN]
    BY <1>f, <2>2 DEF ReadSave, TypeOK, LocalOK
  <2> HIDE DEF v
  <2>5. LocalOK'
    BY <1>a, <1>b, <2>1, <2>2, <2>3, <2>4, GoOnLocal
  <2>6. StoredOK'
    BY <1>f, <2>2 DEF Read, TypeOK, StoredOK, Indexes
  <2> QED
    BY <2>5, <2>6, <1>d, <1>e DEF TypeOK
<1> QED
  BY <1>c, <1>d, <1>e, <1>f DEF TypeOK

(***************************************************************************)
(* The remaining steps make no UUID.                                       *)
(***************************************************************************)
LEMMA EndTyped ==
  ASSUME TypeOK, NEW p \in Procs, NEW a \in Answers, End(p, a),
         UNCHANGED <<index, secrets, minted, calls, overlapped, closed>>,
         file' \in {"whole", "empty", "garbled"}, faults' \in 0 .. MaxFaults
  PROVE  TypeOK'
<1>1. LocalOK'
  BY EndLocal
<1>2. StoredOK'
  BY DEF TypeOK, StoredOK, Indexes, UUIDs
<1> QED
  BY <1>1, <1>2 DEF TypeOK

LEMMA GoOnTyped ==
  ASSUME TypeOK, NEW p \in Procs, NEW l \in Labels, NEW v, GoOn(p, l, v),
         l # "idle", pc[p] # "idle", DOMAIN v \subseteq Slots,
         \A s \in DOMAIN v : v[s] \in UUIDs,
         UNCHANGED <<index, minted, calls, overlapped, closed>>,
         todo' \in [Procs -> SUBSET UUIDs], failed' \in [Procs -> BOOLEAN],
         DOMAIN secrets' \subseteq UUIDs,
         \A u \in DOMAIN secrets' : secrets'[u] \in AllCreds,
         file' \in {"whole", "empty", "garbled"}, faults' \in 0 .. MaxFaults
  PROVE  TypeOK'
<1>1. UUIDs' = UUIDs /\ Len(minted) \in Nat
  BY DEF UUIDs, TypeOK, StoredOK
<1>2. LocalOK'
  BY <1>1, GoOnLocal
<1>3. StoredOK'
  BY <1>1 DEF TypeOK, StoredOK, Indexes
<1> QED
  BY <1>2, <1>3 DEF TypeOK

(***************************************************************************)
(* Taking entries away leaves an index an index.                           *)
(***************************************************************************)
LEMMA WithoutTyped ==
  ASSUME TypeOK, NEW p \in Procs, NEW D
  PROVE  /\ DOMAIN Without(view[p], D) \subseteq Slots
         /\ \A s \in DOMAIN Without(view[p], D) : Without(view[p], D)[s] \in UUIDs
  BY DEF Without, TypeOK, LocalOK, Indexes

LEMMA ForgottenTyped ==
  ASSUME TypeOK, NEW D
  PROVE  /\ DOMAIN Without(secrets, D) \subseteq UUIDs
         /\ \A u \in DOMAIN Without(secrets, D) : Without(secrets, D)[u] \in AllCreds
  BY DEF Without, TypeOK, StoredOK

LEMMA SavedTyped ==
  ASSUME TypeOK, NEW u \in UUIDs, NEW c \in AllCreds
  PROVE  /\ DOMAIN With(secrets, u, c) \subseteq UUIDs
         /\ \A w \in DOMAIN With(secrets, u, c) : With(secrets, u, c)[w] \in AllCreds
  BY DEF With, TypeOK, StoredOK

LEMMA KeyringTyped ==
  ASSUME TypeOK, Located, NEW p \in Procs, Get(p) \/ Set(p) \/ Forget(p)
  PROVE  TypeOK'
<1> USE DEF Labels
<1>1. pc[p] # "idle" /\ call[p].creds \in AllCreds
  BY InACall DEF Get, Set, Forget
<1>2. /\ todo \in [Procs -> SUBSET UUIDs] /\ failed \in [Procs -> BOOLEAN]
      /\ DOMAIN secrets \subseteq UUIDs /\ \A u \in DOMAIN secrets : secrets[u] \in AllCreds
      /\ file \in {"whole", "empty", "garbled"} /\ faults \in 0 .. MaxFaults
      /\ DOMAIN view[p] \subseteq Slots /\ \A s \in DOMAIN view[p] : view[p][s] \in UUIDs
  BY DEF TypeOK, StoredOK, LocalOK, Indexes
<1>3. CASE Get(p)
  <2> DEFINE slot == Resolve(p, view[p])
             u == view[p][slot]
  <2>0. /\ UNCHANGED <<file, index, secrets, minted, calls, overlapped, closed>>
        /\ faults' \in 0 .. MaxFaults
    BY <1>2, <1>3, FaultTyped DEF Get, stored
  <2>1. CASE u \in DOMAIN secrets /\ End(p, Found(secrets[u]))
    BY <1>2, <2>0, <2>1, EndTyped, AnswersTyped
  <2>2. CASE GoOn(p, "truncate", Without(view[p], {slot})) /\ UNCHANGED <<todo, failed>>
    <3> DEFINE v == Without(view[p], {slot})
    <3>1. DOMAIN v \subseteq Slots /\ \A s \in DOMAIN v : v[s] \in UUIDs
      BY WithoutTyped
    <3>2. GoOn(p, "truncate", v) /\ todo' = todo /\ failed' = failed
      BY <2>2
    <3> HIDE DEF v
    <3> QED
      BY <1>1, <1>2, <2>0, <3>1, <3>2, GoOnTyped
  <2> QED
    BY <1>3, <2>1, <2>2 DEF Get
<1>4. CASE Set(p)
  <2>0. /\ UNCHANGED <<file, index, minted, calls, overlapped, closed>>
        /\ faults' \in 0 .. MaxFaults
    BY <1>2, <1>4, FaultTyped DEF Set
  <2>1. CASE /\ secrets' = With(secrets, view[p][Slot(p)], call[p].creds)
             /\ GoOn(p, "truncate", view[p])
             /\ UNCHANGED <<todo, failed>>
    <3>1. view[p][Slot(p)] \in UUIDs
      BY <1>2, <1>4 DEF Set, Located, LocatedAt
    <3> QED
      BY <1>1, <1>2, <2>0, <2>1, <3>1, GoOnTyped, SavedTyped
  <2>2. CASE End(p, Error) /\ UNCHANGED secrets
    BY <1>2, <2>0, <2>2, EndTyped, AnswersTyped
  <2> QED
    BY <1>4, <2>1, <2>2 DEF Set
<1>5. CASE Forget(p)
  <2>0. /\ UNCHANGED <<file, index, minted, calls, overlapped, closed>>
        /\ faults' \in 0 .. MaxFaults
    BY <1>2, <1>5, FaultTyped DEF Forget
  <2>1. CASE /\ secrets' = Without(secrets, {view[p][Slot(p)]})
             /\ GoOn(p, "truncate", Without(view[p], {Slot(p)}))
             /\ UNCHANGED <<todo, failed>>
    <3> DEFINE v == Without(view[p], {Slot(p)})
    <3>1. DOMAIN v \subseteq Slots /\ \A s \in DOMAIN v : v[s] \in UUIDs
      BY WithoutTyped
    <3>2. /\ DOMAIN secrets' \subseteq UUIDs
          /\ \A u \in DOMAIN secrets' : secrets'[u] \in AllCreds
      BY <2>1, ForgottenTyped
    <3>3. GoOn(p, "truncate", v) /\ todo' = todo /\ failed' = failed
      BY <2>1
    <3> HIDE DEF v
    <3> QED
      BY <1>1, <1>2, <2>0, <3>1, <3>2, <3>3, GoOnTyped
  <2>2. CASE End(p, Error) /\ UNCHANGED secrets
    BY <1>2, <2>0, <2>2, EndTyped, AnswersTyped
  <2> QED
    BY <1>5, <2>1, <2>2 DEF Forget
<1> QED
  BY <1>3, <1>4, <1>5

LEMMA SweepTyped ==
  ASSUME TypeOK, NEW p \in Procs, Sweep(p)
  PROVE  TypeOK'
<1> USE DEF Labels
<1>1. pc[p] # "idle"
  BY DEF Sweep
<1>2. PICK u \in todo[p] :
        /\ todo' = [todo EXCEPT ![p] = @ \ {u}]
        /\ \/ secrets' = Without(secrets, {u}) /\ UNCHANGED <<failed, faults>>
           \/ /\ UNCHANGED faults \/ Fault
              /\ failed' = [failed EXCEPT ![p] = TRUE]
              /\ UNCHANGED secrets
  BY DEF Sweep
<1>3. (todo \in [Procs -> SUBSET UUIDs]) /\ todo' \in [Procs -> SUBSET UUIDs]
  BY <1>2 DEF TypeOK, LocalOK
<1>4. failed' \in [Procs -> BOOLEAN] /\ faults' \in 0 .. MaxFaults
  BY <1>2, FaultTyped DEF TypeOK, LocalOK
<1>5. /\ DOMAIN secrets' \subseteq UUIDs
      /\ \A w \in DOMAIN secrets' : secrets'[w] \in AllCreds
  BY <1>2, ForgottenTyped DEF TypeOK, StoredOK
<1>6. /\ UNCHANGED <<file, index, minted, calls, overlapped, closed>>
      /\ file' \in {"whole", "empty", "garbled"}
  BY DEF Sweep, TypeOK, StoredOK
<1>7. CASE GoOn(p, "truncate", Swept(p))
  <2> DEFINE v == Swept(p)
  <2>1. DOMAIN v \subseteq Slots /\ \A s \in DOMAIN v : v[s] \in UUIDs
    BY WithoutTyped DEF Swept
  <2>2. GoOn(p, "truncate", v)
    BY <1>7
  <2> HIDE DEF v
  <2> QED
    BY <1>1, <1>3, <1>4, <1>5, <1>6, <2>1, <2>2, GoOnTyped
<1>8. CASE UNCHANGED <<pc, call, view, answer>>
  <2>1. LocalOK'
    BY <1>3, <1>4, <1>6, <1>8 DEF TypeOK, LocalOK, Indexes, UUIDs
  <2>2. StoredOK'
    BY <1>5, <1>6 DEF TypeOK, StoredOK, Indexes, UUIDs
  <2> QED
    BY <1>4, <1>6, <2>1, <2>2 DEF TypeOK
<1> QED
  BY <1>7, <1>8 DEF Sweep

LEMMA FileTyped ==
  ASSUME TypeOK, NEW p \in Procs, ReadBroken(p) \/ Truncate(p) \/ Write(p) \/ Crash(p)
  PROVE  TypeOK'
<1> USE DEF Labels
<1>1. pc[p] # "idle" /\ call[p].account \in Accounts
  BY InACall DEF ReadBroken, Truncate, Write, Crash
<1>2. /\ todo \in [Procs -> SUBSET UUIDs] /\ failed \in [Procs -> BOOLEAN]
      /\ DOMAIN secrets \subseteq UUIDs /\ \A u \in DOMAIN secrets : secrets[u] \in AllCreds
      /\ file \in {"whole", "empty", "garbled"} /\ faults \in 0 .. MaxFaults
      /\ DOMAIN view[p] \subseteq Slots /\ \A s \in DOMAIN view[p] : view[p][s] \in UUIDs
  BY DEF TypeOK, StoredOK, LocalOK, Indexes
<1>3. faults' \in 0 .. MaxFaults
  BY <1>2, FaultTyped DEF ReadBroken, Truncate, Write, Crash
<1>4. CASE ReadBroken(p)
  BY <1>2, <1>4, EndTyped, AnswersTyped DEF ReadBroken, stored
<1>5. CASE Crash(p)
  BY <1>2, <1>3, <1>5, EndTyped, AnswersTyped DEF Crash, stored
<1>6. CASE Truncate(p)
  <2>1. CASE file' = "empty" /\ GoOn(p, "write", view[p]) /\ UNCHANGED <<todo, failed>>
    BY <1>1, <1>2, <1>3, <1>6, <2>1, GoOnTyped DEF Truncate
  <2>2. CASE End(p, Undone(p)) /\ UNCHANGED file
    BY <1>2, <1>3, <1>6, <2>2, EndTyped, AnswersTyped DEF Truncate
  <2> QED
    BY <1>6, <2>1, <2>2 DEF Truncate
<1>7. CASE Write(p)
  <2>1. UNCHANGED <<secrets, minted, calls, overlapped>>
    BY <1>7 DEF Write
  <2>2. file' \in {"whole", "empty", "garbled"} /\ LocalOK'
    BY <1>7, <2>1, EndLocal, AnswersTyped DEF Write, Written
  <2>3. closed' \in [Accounts -> Nat]
    BY <1>1, <1>7, CloseTyped DEF Write, TypeOK
  <2>4. index' = index \/ index' = view[p]
    BY <1>7 DEF Write
  <2>5. Indexes(index)'
    BY <1>2, <2>1, <2>4 DEF TypeOK, StoredOK, Indexes, UUIDs
  <2>6. StoredOK'
    BY <2>1, <2>2, <2>5 DEF TypeOK, StoredOK, UUIDs
  <2> QED
    BY <1>3, <2>1, <2>2, <2>3, <2>6 DEF TypeOK
<1> QED
  BY <1>4, <1>5, <1>6, <1>7

-----------------------------------------------------------------------------
(***************************************************************************)
(* What a process that ends its call, or goes on, changes of the others'   *)
(* state: nothing.                                                         *)
(***************************************************************************)
LEMMA EndDoes ==
  ASSUME TypeOK, NEW p \in Procs, NEW a, End(p, a)
  PROVE  /\ pc'[p] = "idle" /\ view'[p] = Blank /\ answer'[p] = a
         /\ \A q \in Procs \ {p} : /\ pc'[q] = pc[q] /\ call'[q] = call[q]
                                   /\ view'[q] = view[q] /\ answer'[q] = answer[q]
  BY DEF TypeOK, LocalOK, End

LEMMA GoOnDoes ==
  ASSUME TypeOK, NEW p \in Procs, NEW l, NEW v, GoOn(p, l, v)
  PROVE  /\ pc'[p] = l /\ view'[p] = v /\ call' = call /\ answer' = answer
         /\ \A q \in Procs \ {p} : pc'[q] = pc[q] /\ view'[q] = view[q]
  BY DEF TypeOK, LocalOK, GoOn

LEMMA EndInv ==
  ASSUME IInv, NEW p \in Procs, NEW a, End(p, a), UNCHANGED <<secrets, minted>>,
         index' = index \/ index' = view[p]
  PROVE  Located' /\ Owned'
<1>1. /\ pc'[p] = "idle" /\ view'[p] = Blank
      /\ \A q \in Procs \ {p} : /\ pc'[q] = pc[q] /\ call'[q] = call[q]
                                /\ view'[q] = view[q]
  BY EndDoes DEF IInv
<1>2. ASSUME NEW q \in Procs PROVE LocatedAt(q)'
  <2>1. CASE q = p
    BY <1>1, <2>1 DEF LocatedAt
  <2>2. CASE q # p
    BY <1>1, <2>2 DEF IInv, Located, LocatedAt, Resolve, Slot, Fallback
  <2> QED
    BY <2>1, <2>2
<1>3. Owns(index)'
  BY DEF IInv, Owned, Owns
<1>4. ASSUME NEW q \in Procs PROVE Owns(view[q])'
  BY <1>1 DEF IInv, Owned, Owns, Blank
<1>5. ASSUME NEW q \in Procs, pc'[q] # "idle"
      PROVE  (<<call[q].creds.account, call[q].creds.service>> = Slot(q))'
  BY <1>1, <1>5 DEF IInv, Owned, Slot
<1>6. (\A u \in DOMAIN secrets : <<secrets[u].account, secrets[u].service>> = minted[u])'
  BY DEF IInv, Owned
<1>7. Owned'
  BY <1>3, <1>4, <1>5, <1>6 DEF Owned
<1> QED
  BY <1>2, <1>7 DEF Located

LEMMA GoOnInv ==
  ASSUME IInv, NEW p \in Procs, NEW l, NEW v, GoOn(p, l, v),
         UNCHANGED <<index, minted>>, pc[p] # "idle",
         \A s \in DOMAIN v : minted[v[s]] = s,
         \A u \in DOMAIN secrets' :
            <<secrets'[u].account, secrets'[u].service>> = minted[u],
         LocatedAt(p)'
  PROVE  Located' /\ Owned'
<1>1. /\ view'[p] = v /\ call' = call
      /\ \A q \in Procs \ {p} : pc'[q] = pc[q] /\ view'[q] = view[q]
  BY GoOnDoes DEF IInv
<1>2. ASSUME NEW q \in Procs PROVE LocatedAt(q)'
  <2>1. CASE q # p
    BY <1>1, <2>1 DEF IInv, Located, LocatedAt, Resolve, Slot, Fallback
  <2> QED
    BY <2>1
<1>3. Owns(index)'
  BY DEF IInv, Owned, Owns
<1>4. ASSUME NEW q \in Procs PROVE Owns(view[q])'
  BY <1>1 DEF IInv, Owned, Owns
<1>5. ASSUME NEW q \in Procs, pc'[q] # "idle"
      PROVE  (<<call[q].creds.account, call[q].creds.service>> = Slot(q))'
  BY <1>1, <1>5 DEF IInv, Owned, Slot
<1>7. Owned'
  BY <1>3, <1>4, <1>5 DEF Owned
<1> QED
  BY <1>2, <1>7 DEF Located

LEMMA InitInv == Init => IInv
<1> SUFFICES ASSUME Init PROVE IInv
  OBVIOUS
<1>1. TypeOK
  BY InitTyped
<1>2. Located
  BY DEF Init, Located, LocatedAt
<1>3. Owns(index)
  <2>1. ASSUME NEW s \in DOMAIN index PROVE minted[index[s]] = s
    BY <2>1 DEF Init
  <2> QED
    BY <2>1 DEF Owns
<1>4. \A p \in Procs : Owns(view[p])
  BY DEF Init, Owns, Blank
<1>5. ASSUME NEW u \in DOMAIN secrets
      PROVE  <<secrets[u].account, secrets[u].service>> = minted[u]
  <2>1. /\ u \in 1 .. Len(Held) /\ secrets[u] = Creds(Held[u], 0) /\ minted[u] = Held[u]
    BY <1>5 DEF Init
  <2>2. Held[u] \in Slots
    BY <2>1, HeldAssumption
  <2> QED
    BY <2>1, <2>2 DEF Creds, Slots
<1>6. Owned
  BY <1>3, <1>4, <1>5 DEF Owned, Init
<1> QED
  BY <1>1, <1>2, <1>6 DEF IInv

LEMMA BeginInv ==
  ASSUME IInv, NEW p \in Procs, NEW c \in Calls, Begin(p, c)
  PROVE  Located' /\ Owned'
<1>1. /\ pc'[p] = "read" /\ view' = view /\ UNCHANGED <<index, secrets, minted>>
      /\ \A q \in Procs \ {p} : pc'[q] = pc[q] /\ call'[q] = call[q]
      /\ call'[p].account = c.account /\ call'[p].service = c.service
      /\ call'[p].creds = Creds(<<c.account, c.service>>, calls')
  BY DEF IInv, TypeOK, LocalOK, Begin, stored
<1>2. ASSUME NEW q \in Procs PROVE LocatedAt(q)'
  <2>1. CASE q = p
    BY <1>1, <2>1 DEF LocatedAt
  <2>2. CASE q # p
    BY <1>1, <2>2 DEF IInv, Located, LocatedAt, Resolve, Slot, Fallback
  <2> QED
    BY <2>1, <2>2
<1>3. ASSUME NEW q \in Procs, pc'[q] # "idle"
      PROVE  (<<call[q].creds.account, call[q].creds.service>> = Slot(q))'
  <2>1. CASE q = p
    BY <1>1, <2>1 DEF Creds, Slot
  <2>2. CASE q # p
    BY <1>1, <1>3, <2>2 DEF IInv, Owned, Slot
  <2> QED
    BY <2>1, <2>2
<1>4. Owns(index)' /\ \A q \in Procs : Owns(view[q])'
  BY <1>1 DEF IInv, Owned, Owns
<1>5. (\A u \in DOMAIN secrets : <<secrets[u].account, secrets[u].service>> = minted[u])'
  BY <1>1 DEF IInv, Owned
<1>6. Owned'
  BY <1>3, <1>4, <1>5 DEF Owned
<1> QED
  BY <1>2, <1>6 DEF Located

LEMMA ReadInv ==
  ASSUME IInv, NEW p \in Procs, Read(p)
  PROVE  Located' /\ Owned'
<1>0. /\ TypeOK /\ pc[p] # "idle" /\ UNCHANGED <<index, secrets>>
      /\ \A s \in DOMAIN index : minted[index[s]] = s
      /\ \A u \in DOMAIN secrets : <<secrets[u].account, secrets[u].service>> = minted[u]
  BY DEF IInv, Read, Owned, Owns
<1>1. ASSUME NEW a, End(p, a), minted' = minted PROVE Located' /\ Owned'
  BY <1>0, <1>1, EndInv
<1>2. ASSUME NEW l, GoOn(p, l, index), minted' = minted,
             l \in {"get", "set", "forget"},
             l = "get" => call[p].op = "load" /\ Resolve(p, index) \in DOMAIN index,
             l = "set" => call[p].op = "save" /\ Slot(p) \in DOMAIN index,
             l = "forget" /\ call[p].op = "delete" => Slot(p) \in DOMAIN index
      PROVE  Located' /\ Owned'
  <2>1. LocatedAt(p)'
    BY <1>0, <1>2, GoOnDoes DEF LocatedAt, Resolve, Slot, Fallback
  <2> QED
    BY <1>0, <1>2, <2>1, GoOnInv
<1>3. CASE ReadList(p)
  BY <1>1, <1>3 DEF ReadList
<1>4. CASE ReadLoad(p)
  BY <1>1, <1>2, <1>4 DEF ReadLoad
<1>5. CASE ReadDelete(p)
  BY <1>1, <1>2, <1>5 DEF ReadDelete
<1>6. CASE ReadDeleteAll(p)
  BY <1>1, <1>2, <1>6 DEF ReadDeleteAll
<1>7. CASE ReadSave(p) /\ Slot(p) \in DOMAIN index
  BY <1>2, <1>7 DEF ReadSave
<1>8. CASE ReadSave(p) /\ Slot(p) \notin DOMAIN index
  <2> DEFINE v == With(index, Slot(p), Len(minted) + 1)
  <2>1. minted' = Append(minted, Slot(p)) /\ GoOn(p, "set", v)
    BY <1>8 DEF ReadSave
  <2>2. Slot(p) \in Slots
    BY <1>0, InACall
  <2>3. /\ \A u \in UUIDs : minted'[u] = minted[u]
        /\ minted'[Len(minted) + 1] = Slot(p)
    BY <1>0, <2>1, <2>2, Minting DEF TypeOK, StoredOK
  <2>4. \A s \in DOMAIN v : minted'[v[s]] = s
    BY <1>0, <2>3 DEF With, TypeOK, StoredOK, Indexes
  <2>5. Slot(p) \in DOMAIN v
    BY DEF With
  <2> HIDE DEF v
  <2>6. /\ pc'[p] = "set" /\ view'[p] = v /\ call' = call
        /\ \A q \in Procs \ {p} : pc'[q] = pc[q] /\ view'[q] = view[q]
    BY <1>0, <2>1, GoOnDoes
  <2>7. ASSUME NEW q \in Procs PROVE LocatedAt(q)'
    <3>1. CASE q = p
      BY <1>8, <2>5, <2>6, <3>1 DEF LocatedAt, Slot, ReadSave
    <3>2. CASE q # p
      BY <2>6, <3>2 DEF IInv, Located, LocatedAt, Resolve, Slot, Fallback
    <3> QED
      BY <3>1, <3>2
  <2>8. Owns(index)'
    BY <1>0, <2>3 DEF Owns, TypeOK, StoredOK, Indexes
  <2>9. ASSUME NEW q \in Procs PROVE Owns(view[q])'
    <3>1. CASE q = p
      BY <2>4, <2>6, <3>1 DEF Owns
    <3>2. CASE q # p
      BY <1>0, <2>3, <2>6, <3>2 DEF IInv, Owned, Owns, TypeOK, LocalOK, Indexes
    <3> QED
      BY <3>1, <3>2
  <2>10. (\A u \in DOMAIN secrets : <<secrets[u].account, secrets[u].service>> = minted[u])'
    BY <1>0, <2>3 DEF TypeOK, StoredOK
  <2>11. ASSUME NEW q \in Procs, pc'[q] # "idle"
         PROVE  (<<call[q].creds.account, call[q].creds.service>> = Slot(q))'
    BY <1>0, <2>6, <2>11 DEF IInv, Owned, Slot
  <2>12. Owned'
    BY <2>8, <2>9, <2>10, <2>11 DEF Owned
  <2> QED
    BY <2>7, <2>12 DEF Located
<1> QED
  BY <1>3, <1>4, <1>5, <1>6, <1>7, <1>8 DEF Read

LEMMA StepInv ==
  ASSUME IInv, NEW p \in Procs,
         \/ ReadBroken(p) \/ Get(p) \/ Set(p) \/ Forget(p)
         \/ Sweep(p) \/ Truncate(p) \/ Write(p) \/ Crash(p)
  PROVE  Located' /\ Owned'
<1>0. /\ TypeOK /\ pc[p] # "idle" /\ minted' = minted
      /\ \A s \in DOMAIN view[p] : minted[view[p][s]] = s
      /\ \A u \in DOMAIN secrets : <<secrets[u].account, secrets[u].service>> = minted[u]
  BY DEF IInv, Owned, Owns, ReadBroken, Get, Set, Forget, Sweep, Truncate, Write, Crash, stored
<1>1. ASSUME NEW a, End(p, a), secrets' = secrets, index' = index \/ index' = view[p]
      PROVE  Located' /\ Owned'
  BY <1>0, <1>1, EndInv
<1>2. ASSUME NEW l \in {"truncate", "write"}, NEW v, GoOn(p, l, v), index' = index,
             \A s \in DOMAIN v : minted[v[s]] = s,
             \A u \in DOMAIN secrets' :
                <<secrets'[u].account, secrets'[u].service>> = minted[u],
             call[p].op = "deleteAll" => Sessions(v, call[p].account) = {}
      PROVE  Located' /\ Owned'
  <2>1. LocatedAt(p)'
    BY <1>0, <1>2, GoOnDoes DEF LocatedAt
  <2> QED
    BY <1>0, <1>2, <2>1, GoOnInv
<1>3. \A D : \A s \in DOMAIN Without(view[p], D) : minted[Without(view[p], D)[s]] = s
  BY <1>0 DEF Without
<1>4. \A D : \A u \in DOMAIN Without(secrets, D) :
        <<Without(secrets, D)[u].account, Without(secrets, D)[u].service>> = minted[u]
  BY <1>0 DEF Without
<1>5. CASE ReadBroken(p)
  BY <1>1, <1>5 DEF ReadBroken, stored
<1>6. CASE Crash(p)
  BY <1>1, <1>6 DEF Crash, stored
<1>7. CASE Write(p)
  BY <1>1, <1>7 DEF Write
<1>8. CASE Truncate(p)
  <2>1. CASE GoOn(p, "write", view[p])
    <3>1. call[p].op = "deleteAll" => Sessions(view[p], call[p].account) = {}
      BY <1>8 DEF Truncate, IInv, Located, LocatedAt
    <3> QED
      BY <1>0, <1>2, <1>8, <2>1, <3>1 DEF Truncate
  <2> QED
    BY <1>1, <1>8, <2>1 DEF Truncate
<1>9. CASE Get(p)
  <2> DEFINE v == Without(view[p], {Resolve(p, view[p])})
  <2>0. index' = index /\ secrets' = secrets /\ call[p].op = "load"
    BY <1>9 DEF Get, stored, IInv, Located, LocatedAt
  <2>1. CASE GoOn(p, "truncate", v)
    <3>1. \A s \in DOMAIN v : minted[v[s]] = s
      BY <1>3
    <3> HIDE DEF v
    <3> QED
      BY <1>0, <1>2, <2>0, <2>1, <3>1
  <2> QED
    BY <1>1, <1>9, <2>0, <2>1 DEF Get
<1>10. CASE Set(p)
  <2> DEFINE u == view[p][Slot(p)]
  <2>0. index' = index /\ call[p].op = "save"
    BY <1>10 DEF Set, IInv, Located, LocatedAt
  <2>1. CASE /\ secrets' = With(secrets, u, call[p].creds)
             /\ GoOn(p, "truncate", view[p])
    <3>1. minted[u] = Slot(p)
      BY <1>0, <1>10 DEF Set, IInv, Located, LocatedAt
    <3>2. <<call[p].creds.account, call[p].creds.service>> = Slot(p)
      BY <1>0 DEF IInv, Owned
    <3> HIDE DEF u
    <3>3. \A w \in DOMAIN secrets' :
            <<secrets'[w].account, secrets'[w].service>> = minted[w]
      BY <1>0, <2>1, <3>1, <3>2 DEF With
    <3> QED
      BY <1>0, <1>2, <2>0, <2>1, <3>3
  <2> QED
    BY <1>1, <1>10, <2>0, <2>1 DEF Set
<1>11. CASE Forget(p)
  <2> DEFINE v == Without(view[p], {Slot(p)})
  <2>0. index' = index /\ call[p].op = "delete"
    BY <1>11 DEF Forget
  <2>1. CASE secrets' = Without(secrets, {view[p][Slot(p)]}) /\ GoOn(p, "truncate", v)
    <3>1. \A s \in DOMAIN v : minted[v[s]] = s
      BY <1>3
    <3>2. \A w \in DOMAIN secrets' :
            <<secrets'[w].account, secrets'[w].service>> = minted[w]
      BY <1>4, <2>1
    <3> HIDE DEF v
    <3> QED
      BY <1>2, <2>0, <2>1, <3>1, <3>2
  <2> QED
    BY <1>1, <1>11, <2>0, <2>1 DEF Forget
<1>12. CASE Sweep(p)
  <2>0. index' = index
    BY <1>12 DEF Sweep
  <2>1. \A w \in DOMAIN secrets' :
          <<secrets'[w].account, secrets'[w].service>> = minted[w]
    BY <1>0, <1>4, <1>12 DEF Sweep
  <2>2. CASE GoOn(p, "truncate", Swept(p))
    <3> DEFINE v == Swept(p)
    <3>1. \A s \in DOMAIN v : minted[v[s]] = s
      BY <1>3 DEF Swept
    <3>2. GoOn(p, "truncate", v) /\ Sessions(v, call[p].account) = {}
      BY <2>2 DEF Swept, Without, Sessions
    <3> HIDE DEF v
    <3> QED
      BY <1>2, <2>0, <2>1, <3>1, <3>2
  <2>3. CASE UNCHANGED <<pc, call, view, answer>>
    <3>1. pc[p] = "forget" /\ index' = index /\ minted' = minted
      BY <1>0, <1>12, <2>0 DEF Sweep
    <3>2. Located'
      BY <2>3 DEF IInv, Located, LocatedAt, Resolve, Slot, Fallback
    <3>3. Owned'
      BY <2>1, <2>3, <3>1 DEF IInv, Owned, Owns, Slot
    <3> QED
      BY <3>2, <3>3
  <2> QED
    BY <1>12, <2>2, <2>3 DEF Sweep
<1> QED
  BY <1>5, <1>6, <1>7, <1>8, <1>9, <1>10, <1>11, <1>12

LEMMA NextInv == IInv /\ [Next]_vars => IInv'
<1> SUFFICES ASSUME IInv, [Next]_vars PROVE IInv'
  OBVIOUS
<1>1. TypeOK /\ Located
  BY DEF IInv
<1>2. ASSUME NEW p \in Procs, NEW c \in Calls, Begin(p, c) PROVE IInv'
  BY <1>1, <1>2, BeginTyped, BeginInv DEF IInv
<1>3. ASSUME NEW p \in Procs, Step(p) PROVE IInv'
  <2>1. CASE Read(p)
    BY <1>1, <2>1, ReadTyped, ReadInv DEF IInv
  <2>2. CASE Get(p) \/ Set(p) \/ Forget(p)
    BY <1>1, <2>2, KeyringTyped, StepInv DEF IInv
  <2>3. CASE Sweep(p)
    BY <1>1, <2>3, SweepTyped, StepInv DEF IInv
  <2>4. CASE ReadBroken(p) \/ Truncate(p) \/ Write(p) \/ Crash(p)
    BY <1>1, <2>4, FileTyped, StepInv DEF IInv
  <2> QED
    BY <1>3, <2>1, <2>2, <2>3, <2>4 DEF Step
<1>4. CASE UNCHANGED vars
  <2>1. TypeOK'
    BY <1>1, <1>4 DEF TypeOK, StoredOK, LocalOK, Indexes, UUIDs, vars, stored, local
  <2>2. Located'
    BY <1>1, <1>4 DEF Located, LocatedAt, Resolve, Slot, Fallback, vars, local
  <2>3. Owned'
    BY <1>4 DEF IInv, Owned, Owns, Slot, vars, stored, local
  <2> QED
    BY <2>1, <2>2, <2>3 DEF IInv
<1> QED
  BY <1>2, <1>3, <1>4 DEF Next

LEMMA Invariance == Spec => []IInv
<1> QED
  BY InitInv, NextInv, PTL DEF Spec

(***************************************************************************)
(* The variables have their types, for any processes, accounts, services,  *)
(* earlier logins and bounds.                                              *)
(***************************************************************************)
THEOREM TypeCorrect == Spec => []TypeOK
<1>1. IInv => TypeOK
  BY DEF IInv
<1> QED
  BY <1>1, Invariance, PTL

-----------------------------------------------------------------------------
(***************************************************************************)
(* What the entry that Load looks up leads to.                             *)
(***************************************************************************)
Entry(p)  == Resolve(p, view[p])
Secret(p) == secrets[view[p][Entry(p)]]

(***************************************************************************)
(* A step that ends a call returns no session, or it is the Get of a Load  *)
(* and returns the secret of the entry it looked up.                       *)
(***************************************************************************)
LEMMA Returned ==
  ASSUME IInv, NEW p \in Procs, Step(p), pc'[p] = "idle"
  PROVE  \/ answer'[p].found = {}
         \/ /\ pc[p] = "get" /\ answer'[p].found = {Secret(p)}
            /\ view[p][Entry(p)] \in DOMAIN secrets
            /\ UNCHANGED <<stored, closed>>
<1>0. TypeOK
  BY DEF IInv
<1> USE DEF Answer, NoAnswer, Error, Missing, Ok
<1>1. CASE ReadBroken(p) \/ Crash(p)
  BY <1>0, <1>1, EndDoes DEF ReadBroken, Crash
<1>2. CASE Read(p)
  BY <1>0, <1>2, EndDoes, GoOnDoes
     DEF Read, ReadList, ReadLoad, ReadSave, ReadDelete, ReadDeleteAll
<1>3. CASE Get(p)
  <2>1. CASE /\ view[p][Entry(p)] \in DOMAIN secrets
             /\ End(p, Found(Secret(p)))
    <3>1. answer'[p] = Found(Secret(p))
      BY <1>0, <2>1, EndDoes
    <3>2. answer'[p].found = {Secret(p)}
      BY <3>1 DEF Found
    <3> QED
      BY <1>3, <2>1, <3>2 DEF Get
  <2>2. CASE GoOn(p, "truncate", Without(view[p], {Entry(p)}))
    BY <1>0, <2>2, GoOnDoes
  <2> QED
    BY <1>3, <2>1, <2>2 DEF Get, Entry, Secret
<1>4. CASE Set(p) \/ Forget(p)
  BY <1>0, <1>4, EndDoes, GoOnDoes DEF Set, Forget
<1>5. CASE Sweep(p)
  BY <1>0, <1>5, GoOnDoes DEF Sweep
<1>6. CASE Truncate(p) \/ Write(p)
  BY <1>0, <1>6, EndDoes, GoOnDoes DEF Truncate, Write, Done, Undone
<1> QED
  BY <1>1, <1>2, <1>3, <1>4, <1>5, <1>6 DEF Step

(***************************************************************************)
(* A step that ends the call of p is a step of p.                          *)
(***************************************************************************)
LEMMA OwnStep ==
  ASSUME IInv, [Next]_vars, NEW p \in Procs, pc[p] # "idle", pc'[p] = "idle"
  PROVE  Step(p)
<1>0. TypeOK
  BY DEF IInv
<1>1. ASSUME NEW q \in Procs, NEW c \in Calls, Begin(q, c) PROVE FALSE
  BY <1>0, <1>1 DEF Begin, TypeOK, LocalOK
<1>2. ASSUME NEW q \in Procs, q # p, Step(q) PROVE FALSE
  <2>1. \/ \E a : End(q, a)
        \/ \E l, v : GoOn(q, l, v)
        \/ pc' = pc
    BY <1>2 DEF Step, ReadBroken, Read, ReadList, ReadLoad, ReadSave, ReadDelete,
                ReadDeleteAll, Get, Set, Forget, Sweep, Truncate, Write, Crash
  <2> QED
    BY <1>0, <1>2, <2>1, EndDoes, GoOnDoes
<1> QED
  BY <1>1, <1>2 DEF Next, vars, local

(***************************************************************************)
(* A session never gets another session's tokens, whatever overlaps, fails *)
(* or dies.                                                                *)
(***************************************************************************)
THEOREM NoMixUp == Spec => OwnCredentials
<1> DEFINE Own == \A p \in Procs : pc[p] # "idle" /\ pc'[p] = "idle" =>
                     \A c \in answer'[p].found : Fits(p, c)
<1>1. ASSUME IInv, [Next]_vars PROVE Own
  <2> SUFFICES ASSUME NEW p \in Procs, pc[p] # "idle", pc'[p] = "idle",
                      NEW c \in answer'[p].found
               PROVE  Fits(p, c)
    OBVIOUS
  <2>1. /\ pc[p] = "get" /\ answer'[p].found = {Secret(p)}
        /\ view[p][Entry(p)] \in DOMAIN secrets
    BY <1>1, OwnStep, Returned
  <2>2. <<c.account, c.service>> = minted[view[p][Entry(p)]]
    BY <1>1, <2>1 DEF IInv, Owned, Secret
  <2>3. minted[view[p][Entry(p)]] = Entry(p)
    BY <1>1, <2>1 DEF IInv, Located, LocatedAt, Owned, Owns, Entry
  <2> QED
    BY <2>2, <2>3 DEF Entry, Resolve, Slot, Fallback, Fits
<1> QED
  BY <1>1, Invariance, PTL DEF Spec, OwnCredentials

-----------------------------------------------------------------------------
LEMMA InitOneByOne == Init => OneByOne
<1> SUFFICES ASSUME Init PROVE OneByOne
  OBVIOUS
<1>1. /\ \A p \in Procs : pc[p] = "idle" /\ DOMAIN view[p] = {}
      /\ \A a \in Accounts : closed[a] = 0
      /\ calls = 0
  BY DEF Init, Blank
<1>2. \A p \in Procs : Recent(view[p])
  BY <1>1 DEF Recent
<1>3. Recent(index)
  <2> SUFFICES ASSUME NEW s \in DOMAIN index, index[s] \in DOMAIN secrets
               PROVE  secrets[index[s]].n >= closed[s[1]]
    BY DEF Recent
  <2>1. secrets[index[s]].n = 0
    BY DEF Init, Creds
  <2>2. closed[s[1]] = 0
    BY InitTyped, <1>1 DEF TypeOK, StoredOK, Indexes, Slots
  <2> QED
    BY <2>1, <2>2
<1> QED
  BY <1>1, <1>2, <1>3 DEF OneByOne

LEMMA BeginOne ==
  ASSUME IInv, OneByOne, NEW p \in Procs, NEW c \in Calls, Begin(p, c), ~overlapped'
  PROVE  OneByOne'
<1>0. TypeOK /\ calls \in Nat /\ calls' = calls + 1
  BY BoundAssumption DEF IInv, TypeOK, Begin
<1>1. /\ \A q \in Procs : pc[q] = "idle" /\ DOMAIN view'[q] = {}
      /\ UNCHANGED <<index, secrets, closed, view>>
      /\ \A q \in Procs \ {p} : pc'[q] = "idle"
      /\ call'[p].creds.n = calls'
  BY <1>0 DEF OneByOne, Begin, TypeOK, LocalOK, stored, Creds
<1>2. \A a \in Accounts : closed'[a] <= calls' /\ closed'[a] <= calls' + 1
  BY <1>0, <1>1 DEF OneByOne, TypeOK
<1>3. Recent(index)' /\ \A q \in Procs : Recent(view[q])'
  BY <1>1 DEF OneByOne, Recent
<1> QED
  BY <1>1, <1>2, <1>3 DEF OneByOne

LEMMA EndOne ==
  ASSUME IInv, OneByOne, NEW p \in Procs, NEW a, End(p, a), pc[p] # "idle", calls' = calls,
         \A b \in Accounts : closed'[b] <= calls + 1, Recent(index)'
  PROVE  OneByOne'
<1>1. \A q \in Procs : pc'[q] = "idle" /\ DOMAIN view'[q] = {}
  BY EndDoes DEF IInv, OneByOne, Blank
<1> QED
  BY <1>1 DEF OneByOne, Recent

LEMMA GoOnOne ==
  ASSUME IInv, OneByOne, NEW p \in Procs, NEW l, NEW v, GoOn(p, l, v), pc[p] # "idle",
         l # "idle", UNCHANGED <<calls, closed>>, Recent(index)',
         \A s \in DOMAIN v : v[s] \in DOMAIN secrets' => secrets'[v[s]].n >= closed[s[1]]
  PROVE  OneByOne'
<1>1. /\ pc'[p] = l /\ view'[p] = v /\ call' = call
      /\ \A q \in Procs \ {p} : pc'[q] = "idle" /\ DOMAIN view'[q] = {}
  BY GoOnDoes DEF IInv, OneByOne
<1>2. \A q \in Procs : Recent(view[q])'
  BY <1>1 DEF Recent
<1>3. call'[p].creds.n = calls' /\ \A a \in Accounts : closed'[a] <= calls'
  BY <1>1 DEF OneByOne
<1> QED
  BY <1>1, <1>2, <1>3 DEF OneByOne

LEMMA StepOne ==
  ASSUME IInv, OneByOne, NEW p \in Procs, Step(p), ~overlapped'
  PROVE  OneByOne'
<1>0. /\ TypeOK /\ Located /\ pc[p] # "idle" /\ calls' = calls /\ calls \in Nat
      /\ call[p].account \in Accounts
  <2>1. TypeOK /\ Located /\ pc[p] # "idle" /\ calls' = calls
    BY DEF IInv, Step, ReadBroken, Read, Get, Set, Forget, Sweep, Truncate, Write, Crash
  <2> QED
    BY <2>1, InACall, BoundAssumption DEF TypeOK
<1>1. /\ \A a \in Accounts : closed[a] \in Nat /\ closed[a] <= calls + 1
      /\ \A a \in Accounts : closed[a] <= calls
      /\ call[p].creds.n = calls
  BY <1>0 DEF OneByOne, TypeOK
<1>2. Recent(index) /\ Recent(view[p])
  BY DEF OneByOne
<1>3. ASSUME NEW a, End(p, a), UNCHANGED <<secrets, closed>>,
             index' = index \/ index' = view[p]
      PROVE  OneByOne'
  <2>1. Recent(index)'
    BY <1>2, <1>3 DEF Recent
  <2> QED
    BY <1>0, <1>1, <1>3, <2>1, EndOne
<1>4. ASSUME NEW l, NEW v, GoOn(p, l, v), l # "idle",
             UNCHANGED <<index, secrets, closed>>,
             \A s \in DOMAIN v : v[s] \in DOMAIN secrets => secrets[v[s]].n >= closed[s[1]]
      PROVE  OneByOne'
  <2>1. Recent(index)'
    BY <1>2, <1>4 DEF Recent
  <2> QED
    BY <1>0, <1>4, <2>1, GoOnOne
<1>5. CASE ReadBroken(p) \/ Crash(p)
  BY <1>3, <1>5 DEF ReadBroken, Crash, stored
<1>6. CASE Read(p)
  <2>0. UNCHANGED <<index, secrets>>
    BY <1>6 DEF Read
  <2>1. CASE ReadList(p) \/ ReadLoad(p) \/ ReadDelete(p)
    BY <1>2, <1>3, <1>4, <2>0, <2>1 DEF ReadList, ReadLoad, ReadDelete, Recent
  <2>2. CASE ReadSave(p)
    <3>0. closed' = closed
      BY <2>2 DEF ReadSave
    <3>1. CASE GoOn(p, "set", index)
      BY <1>2, <1>4, <2>0, <3>0, <3>1 DEF Recent
    <3>2. CASE GoOn(p, "set", With(index, Slot(p), Len(minted) + 1))
      <4> DEFINE v == With(index, Slot(p), Len(minted) + 1)
      <4>1. Len(minted) + 1 \notin DOMAIN secrets
        BY <1>0 DEF TypeOK, StoredOK, UUIDs
      <4>2. \A s \in DOMAIN v :
              v[s] \in DOMAIN secrets => secrets[v[s]].n >= closed[s[1]]
        BY <1>2, <4>1 DEF With, Recent
      <4>3. GoOn(p, "set", v)
        BY <3>2
      <4> HIDE DEF v
      <4> QED
        BY <1>4, <2>0, <3>0, <4>2, <4>3
    <3> QED
      BY <2>2, <3>1, <3>2 DEF ReadSave
  <2>3. CASE ReadDeleteAll(p)
    <3>1. CASE Sessions(index, call[p].account) # {}
      BY <1>2, <1>4, <2>0, <2>3, <3>1 DEF ReadDeleteAll, Recent
    <3>2. CASE Sessions(index, call[p].account) = {}
      <4>1. End(p, Ok({})) /\ closed' = [closed EXCEPT ![call[p].account] = calls + 1]
        BY <2>3, <3>2 DEF ReadDeleteAll, Close
      <4>2. \A b \in Accounts : closed'[b] <= calls + 1
        BY <1>0, <1>1, <4>1 DEF TypeOK
      <4>3. Recent(index)'
        BY <1>0, <1>2, <2>0, <3>2, <4>1
           DEF Recent, Sessions, TypeOK, StoredOK, Indexes, Slots
      <4> QED
        BY <1>0, <4>1, <4>2, <4>3, EndOne
    <3> QED
      BY <3>1, <3>2
  <2> QED
    BY <1>6, <2>1, <2>2, <2>3 DEF Read
<1>7. \A D : \A s \in DOMAIN Without(view[p], D) :
        Without(view[p], D)[s] \in DOMAIN secrets =>
           secrets[Without(view[p], D)[s]].n >= closed[s[1]]
  BY <1>2 DEF Without, Recent
<1>8. CASE Get(p)
  <2> DEFINE v == Without(view[p], {Resolve(p, view[p])})
  <2>0. UNCHANGED <<index, secrets, closed>>
    BY <1>8 DEF Get, stored
  <2>1. CASE GoOn(p, "truncate", v)
    <3>1. \A s \in DOMAIN v : v[s] \in DOMAIN secrets => secrets[v[s]].n >= closed[s[1]]
      BY <1>7
    <3> HIDE DEF v
    <3> QED
      BY <1>4, <2>0, <2>1, <3>1
  <2> QED
    BY <1>3, <1>8, <2>0, <2>1 DEF Get
<1>9. CASE Set(p)
  <2> DEFINE u == view[p][Slot(p)]
  <2>0. UNCHANGED <<index, closed>>
    BY <1>9 DEF Set
  <2>1. CASE /\ secrets' = With(secrets, u, call[p].creds)
             /\ GoOn(p, "truncate", view[p])
    <3> HIDE DEF u
    <3>1. /\ \A w \in DOMAIN secrets' : w = u \/ w \in DOMAIN secrets
          /\ \A w \in DOMAIN secrets' :
                secrets'[w] = IF w = u THEN call[p].creds ELSE secrets[w]
      BY <2>1 DEF With
    <3>2. \A s \in DOMAIN view[p] :
            view[p][s] \in DOMAIN secrets' => secrets'[view[p][s]].n >= closed[s[1]]
      BY <1>0, <1>1, <1>2, <3>1 DEF Recent, TypeOK, LocalOK, Indexes, Slots
    <3>3. Recent(index)'
      BY <1>0, <1>1, <1>2, <2>0, <3>1 DEF Recent, TypeOK, StoredOK, Indexes, Slots
    <3> QED
      BY <1>0, <2>0, <2>1, <3>2, <3>3, GoOnOne
  <2> QED
    BY <1>3, <1>9, <2>0, <2>1 DEF Set
<1>10. ASSUME NEW v, NEW E, GoOn(p, "truncate", v), secrets' = Without(secrets, E),
              UNCHANGED <<index, closed>>,
              \A s \in DOMAIN v : v[s] \in DOMAIN secrets => secrets[v[s]].n >= closed[s[1]]
       PROVE  OneByOne'
  <2>1. \A w \in DOMAIN secrets' : w \in DOMAIN secrets /\ secrets'[w] = secrets[w]
    BY <1>10 DEF Without
  <2>2. Recent(index)'
    BY <1>2, <1>10, <2>1 DEF Recent
  <2> QED
    BY <1>0, <1>10, <2>1, <2>2, GoOnOne
<1>11. CASE Forget(p)
  <2> DEFINE v == Without(view[p], {Slot(p)})
  <2>0. UNCHANGED <<index, closed>>
    BY <1>11 DEF Forget
  <2>1. CASE secrets' = Without(secrets, {view[p][Slot(p)]}) /\ GoOn(p, "truncate", v)
    <3>1. \A s \in DOMAIN v : v[s] \in DOMAIN secrets => secrets[v[s]].n >= closed[s[1]]
      BY <1>7
    <3> HIDE DEF v
    <3> QED
      BY <1>10, <2>0, <2>1, <3>1
  <2> QED
    BY <1>3, <1>11, <2>0, <2>1 DEF Forget
<1>12. CASE Sweep(p)
  <2>0. UNCHANGED <<index, closed>>
    BY <1>12 DEF Sweep
  <2>1. secrets' = secrets \/ \E u : secrets' = Without(secrets, {u})
    BY <1>12 DEF Sweep
  <2>2. \A w \in DOMAIN secrets' : w \in DOMAIN secrets /\ secrets'[w] = secrets[w]
    BY <2>1 DEF Without
  <2>3. Recent(index)' /\ Recent(view[p])
    BY <1>2, <2>0, <2>2 DEF Recent
  <2>4. CASE GoOn(p, "truncate", Swept(p))
    <3> DEFINE v == Swept(p)
    <3>1. \A s \in DOMAIN v : v[s] \in DOMAIN secrets => secrets[v[s]].n >= closed[s[1]]
      BY <1>7 DEF Swept
    <3>2. GoOn(p, "truncate", v)
      BY <2>4
    <3> HIDE DEF v
    <3>3. \A s \in DOMAIN v : v[s] \in DOMAIN secrets' => secrets'[v[s]].n >= closed[s[1]]
      BY <2>2, <3>1
    <3> QED
      BY <1>0, <2>0, <2>3, <3>2, <3>3, GoOnOne
  <2>5. CASE UNCHANGED <<pc, call, view, answer>>
    <3>1. \A q \in Procs : Recent(view[q])'
      BY <2>0, <2>2, <2>5 DEF OneByOne, Recent
    <3> QED
      BY <1>0, <2>0, <2>3, <2>5, <3>1 DEF OneByOne
  <2> QED
    BY <1>12, <2>4, <2>5 DEF Sweep
<1>13. CASE Truncate(p)
  <2>0. UNCHANGED <<index, secrets, closed>>
    BY <1>13 DEF Truncate
  <2>1. CASE GoOn(p, "write", view[p])
    BY <1>2, <1>4, <2>0, <2>1 DEF Recent
  <2> QED
    BY <1>3, <1>13, <2>0, <2>1 DEF Truncate
<1>14. CASE Write(p)
  <2>0. secrets' = secrets /\ \E a : End(p, a)
    BY <1>14 DEF Write
  <2>1. CASE closed' = closed
    BY <1>3, <1>14, <2>1 DEF Write
  <2>2. CASE closed' # closed
    <3>1. /\ call[p].op = "deleteAll" /\ index' = view[p]
          /\ closed' = [closed EXCEPT ![call[p].account] = calls + 1]
      BY <1>14, <2>2 DEF Write, Close
    <3>2. Sessions(view[p], call[p].account) = {}
      BY <1>0, <1>14, <3>1 DEF Write, Located, LocatedAt
    <3>3. \A b \in Accounts : closed'[b] <= calls + 1
      BY <1>0, <1>1, <3>1 DEF TypeOK
    <3>4. ASSUME NEW s \in DOMAIN view[p], view[p][s] \in DOMAIN secrets
          PROVE  secrets[view[p][s]].n >= closed'[s[1]]
      <4>1. s[1] # call[p].account /\ s[1] \in Accounts
        BY <1>0, <3>2 DEF Sessions, TypeOK, LocalOK, Indexes, Slots
      <4> QED
        BY <1>0, <1>2, <3>1, <3>4, <4>1 DEF Recent, TypeOK
    <3>5. Recent(index)'
      BY <2>0, <3>1, <3>4 DEF Recent
    <3> QED
      BY <1>0, <2>0, <3>3, <3>5, EndOne
  <2> QED
    BY <2>1, <2>2
<1> QED
  BY <1>5, <1>6, <1>8, <1>9, <1>11, <1>12, <1>13, <1>14 DEF Step

LEMMA InitLInv == Init => LInv
  BY InitInv, InitOneByOne DEF LInv

LEMMA NextLInv == LInv /\ [Next]_vars => LInv'
<1> SUFFICES ASSUME LInv, [Next]_vars, ~overlapped' PROVE OneByOne'
  BY NextInv DEF LInv
<1>0. IInv
  BY DEF LInv
<1>1. ASSUME NEW p \in Procs, NEW c \in Calls, Begin(p, c) PROVE OneByOne'
  <2>1. ~overlapped
    BY <1>1 DEF Begin
  <2> QED
    BY <1>0, <1>1, <2>1, BeginOne DEF LInv
<1>2. ASSUME NEW p \in Procs, Step(p) PROVE OneByOne'
  <2>1. ~overlapped
    BY <1>2 DEF Step, ReadBroken, Read, Get, Set, Forget, Sweep, Truncate, Write, Crash
  <2> QED
    BY <1>0, <1>2, <2>1, StepOne DEF LInv
<1>3. CASE UNCHANGED vars
  <2>1. OneByOne
    BY <1>3 DEF LInv, vars
  <2> QED
    BY <1>3, <2>1 DEF OneByOne, Recent, vars, stored, local
<1> QED
  BY <1>1, <1>2, <1>3 DEF Next

LEMMA LogoutInvariance == Spec => []LInv
<1> QED
  BY InitLInv, NextLInv, PTL DEF Spec

(***************************************************************************)
(* Once a logout has written the index, what was saved for the account     *)
(* before can no longer be loaded, whatever the keyring refused and        *)
(* whichever processes died, as long as calls do not overlap.              *)
(***************************************************************************)
THEOREM LogoutFinal == Spec => LogoutStands
<1> DEFINE Gone == \A p \in Procs : pc[p] # "idle" /\ pc'[p] = "idle" /\ ~overlapped =>
                      \A c \in answer'[p].found : c.n >= closed[c.account]
<1>1. ASSUME LInv, [Next]_vars PROVE Gone
  <2> SUFFICES ASSUME NEW p \in Procs, pc[p] # "idle", pc'[p] = "idle", ~overlapped,
                      NEW c \in answer'[p].found
               PROVE  c.n >= closed[c.account]
    OBVIOUS
  <2>0. IInv /\ OneByOne
    BY <1>1 DEF LInv
  <2>1. /\ pc[p] = "get" /\ answer'[p].found = {Secret(p)}
        /\ view[p][Entry(p)] \in DOMAIN secrets
    BY <1>1, <2>0, OwnStep, Returned
  <2>2. Entry(p) \in DOMAIN view[p]
    BY <2>0, <2>1 DEF IInv, Located, LocatedAt, Entry
  <2>3. <<c.account, c.service>> = Entry(p)
    BY <2>0, <2>1, <2>2 DEF IInv, Owned, Owns, Secret
  <2>4. c.n >= closed[Entry(p)[1]]
    BY <2>0, <2>1, <2>2 DEF OneByOne, Recent, Secret
  <2> QED
    BY <2>3, <2>4
<1> QED
  BY <1>1, LogoutInvariance, PTL DEF Spec, LogoutStands

-----------------------------------------------------------------------------
LEMMA InitFaithful == Init => Faithful
<1> SUFFICES ASSUME Init PROVE Faithful
  OBVIOUS
<1>1. AtRest(index)
  BY HeldAssumption DEF Init, AtRest
<1>2. \A p \in Procs : pc[p] = "idle" /\ ~failed[p]
  BY DEF Init
<1>3. \A p \in Procs : StageOK(p)
  BY <1>2 DEF StageOK, Reading, Setting, Sweeping, Writing
<1> QED
  BY <1>1, <1>2, <1>3 DEF Init, Faithful

(***************************************************************************)
(* With one call at most, only the file and the keyring matter once it is  *)
(* over, and besides them only the call while it goes on.                  *)
(***************************************************************************)
LEMMA EndFaithful ==
  ASSUME IInv, OneByOne, Faithful, NEW p \in Procs, NEW a, End(p, a), pc[p] # "idle",
         file' = "whole", AtRest(index)'
  PROVE  Faithful'
<1>1. \A q \in Procs : pc'[q] = "idle"
  BY EndDoes DEF IInv, OneByOne
<1>2. \A q \in Procs : ~failed'[q]
  BY DEF IInv, TypeOK, LocalOK, End, Faithful, StageOK
<1>3. \A q \in Procs : StageOK(q)'
  BY <1>1, <1>2 DEF StageOK, Reading, Setting, Sweeping, Writing
<1> QED
  BY <1>1, <1>3 DEF Faithful

LEMMA GoOnFaithful ==
  ASSUME IInv, OneByOne, Faithful, NEW p \in Procs, NEW l, NEW v, GoOn(p, l, v),
         pc[p] # "idle", l # "idle", failed' = failed,
         file' = IF l = "write" THEN "empty" ELSE "whole",
         StageOK(p)', Taking(p)' \/ AtRest(index)'
  PROVE  Faithful'
<1>1. pc'[p] = l /\ \A q \in Procs \ {p} : pc'[q] = "idle"
  BY GoOnDoes DEF IInv, OneByOne
<1>2. ASSUME NEW q \in Procs \ {p} PROVE StageOK(q)'
  BY <1>1, <1>2 DEF Faithful, StageOK, Reading, Setting, Sweeping, Writing
<1> QED
  BY <1>1, <1>2 DEF Faithful

LEMMA BeginFaithful ==
  ASSUME IInv, Faithful, NEW p \in Procs, NEW c \in Calls, Begin(p, c), ~overlapped'
  PROVE  Faithful'
<1>1. \A q \in Procs : pc[q] = "idle"
  BY DEF Begin
<1>2. \A q \in Procs : pc'[q] \in {"idle", "read"} /\ ~failed'[q]
  BY <1>1 DEF IInv, TypeOK, LocalOK, Begin, Faithful, StageOK
<1>3. \A q \in Procs : StageOK(q)'
  BY <1>2 DEF StageOK, Reading, Setting, Sweeping, Writing
<1>4. file' = "whole" /\ AtRest(index)'
  BY <1>1 DEF Faithful, Taking, Begin, stored, AtRest
<1> QED
  BY <1>2, <1>3, <1>4 DEF Faithful

(***************************************************************************)
(* What is known of the one call there is.                                 *)
(***************************************************************************)
LEMMA OneCall ==
  ASSUME IInv, OneByOne, Faithful, NEW p \in Procs, pc[p] # "idle"
  PROVE  /\ \A q \in Procs \ {p} : pc[q] = "idle"
         /\ file = IF pc[p] = "write" THEN "empty" ELSE "whole"
         /\ Taking(p) \/ AtRest(index)
         /\ ~failed[p] /\ StageOK(p)
<1>1. \A q \in Procs \ {p} : pc[q] = "idle"
  BY DEF OneByOne
<1>2. ~failed[p] /\ StageOK(p)
  BY DEF Faithful, StageOK
<1>3. Taking(p) \/ AtRest(index)
  BY <1>1 DEF Faithful, Taking
<1>4. file = IF pc[p] = "write" THEN "empty" ELSE "whole"
  BY <1>1 DEF Faithful
<1> QED
  BY <1>1, <1>2, <1>3, <1>4

LEMMA ReadFaithful ==
  ASSUME IInv, OneByOne, Faithful, NEW p \in Procs, Read(p)
  PROVE  Faithful'
<1>0. pc[p] # "idle" /\ TypeOK
  BY DEF Read, IInv
<1>1. AtRest(index) /\ file = "whole" /\ ~failed[p]
  BY <1>0, OneCall DEF Read, Taking
<1>2. AtRest(index)' /\ file' = "whole" /\ UNCHANGED <<index, secrets>>
  BY <1>1 DEF Read, AtRest
<1>3. ASSUME NEW a, End(p, a) PROVE Faithful'
  BY <1>0, <1>2, <1>3, EndFaithful
<1>4. ASSUME NEW l \in {"get", "set", "forget"}, NEW v, GoOn(p, l, v),
             failed' = failed, StageOK(p)'
      PROVE  Faithful'
  BY <1>0, <1>2, <1>4, GoOnFaithful
<1>5. CASE ReadList(p)
  BY <1>3, <1>5 DEF ReadList
<1>6. CASE ReadLoad(p)
  <2>1. CASE GoOn(p, "get", index) /\ UNCHANGED <<todo, failed>>
    <3>1. StageOK(p)'
      BY <1>0, <1>1, <1>2, <2>1, GoOnDoes
         DEF StageOK, Reading, Setting, Sweeping, Writing
    <3> QED
      BY <1>4, <2>1, <3>1
  <2> QED
    BY <1>3, <1>6, <2>1 DEF ReadLoad
<1>7. CASE ReadSave(p)
  <2>0. UNCHANGED <<todo, failed>>
    BY <1>7 DEF ReadSave
  <2>1. ASSUME NEW v, GoOn(p, "set", v),
               \A s \in DOMAIN index : s \in DOMAIN v /\ v[s] = index[s],
               \A s \in DOMAIN v : s \in DOMAIN index \/ s = Slot(p)
        PROVE  Faithful'
    <3>1. pc'[p] = "set" /\ view'[p] = v /\ call' = call /\ ~failed'[p]
      BY <1>0, <1>1, <2>0, <2>1, GoOnDoes
    <3>2. Setting(p)'
      BY <1>2, <2>1, <3>1 DEF Setting, Slot
    <3>3. StageOK(p)'
      BY <3>1, <3>2 DEF StageOK, Reading, Sweeping, Writing
    <3> QED
      BY <1>4, <2>0, <2>1, <3>3
  <2>2. CASE GoOn(p, "set", index)
    BY <2>1, <2>2
  <2>3. CASE /\ Slot(p) \notin DOMAIN index
             /\ GoOn(p, "set", With(index, Slot(p), Len(minted) + 1))
    <3> DEFINE v == With(index, Slot(p), Len(minted) + 1)
    <3>1. /\ \A s \in DOMAIN index : s \in DOMAIN v /\ v[s] = index[s]
          /\ \A s \in DOMAIN v : s \in DOMAIN index \/ s = Slot(p)
      BY <2>3 DEF With
    <3>2. GoOn(p, "set", v)
      BY <2>3
    <3> HIDE DEF v
    <3> QED
      BY <2>1, <3>1, <3>2
  <2> QED
    BY <1>7, <2>2, <2>3 DEF ReadSave
<1>8. CASE ReadDelete(p)
  <2>1. CASE GoOn(p, "forget", index) /\ UNCHANGED <<todo, failed>>
    <3>1. call[p].op = "delete"
      BY <1>8 DEF ReadDelete
    <3>2. StageOK(p)'
      BY <1>0, <1>1, <1>2, <2>1, <3>1, GoOnDoes
         DEF StageOK, Reading, Setting, Sweeping, Writing
    <3> QED
      BY <1>4, <2>1, <3>2
  <2> QED
    BY <1>3, <1>8, <2>1 DEF ReadDelete
<1>9. CASE ReadDeleteAll(p)
  <2> DEFINE own == Sessions(index, call[p].account)
  <2>1. CASE own # {}
    <3>1. /\ todo' = [todo EXCEPT ![p] = {index[s] : s \in own}]
          /\ GoOn(p, "forget", index) /\ failed' = failed
          /\ call[p].op = "deleteAll"
      BY <1>9, <2>1 DEF ReadDeleteAll
    <3>2. /\ pc'[p] = "forget" /\ view'[p] = index /\ call' = call /\ ~failed'[p]
          /\ todo'[p] = {index[s] : s \in own}
      BY <1>0, <1>1, <3>1, GoOnDoes DEF TypeOK, LocalOK
    <3>3. Sweeping(p)'
      BY <1>1, <1>2, <3>2 DEF Sweeping, AtRest, Sessions
    <3>4. StageOK(p)'
      BY <1>2, <3>1, <3>2, <3>3 DEF StageOK, Reading, Setting, Writing
    <3> QED
      BY <1>4, <3>1, <3>4
  <2> QED
    BY <1>3, <1>9, <2>1 DEF ReadDeleteAll
<1> QED
  BY <1>5, <1>6, <1>7, <1>8, <1>9 DEF Read

(***************************************************************************)
(* As long as nothing fails, Get finds what the index led it to.           *)
(***************************************************************************)
LEMMA GetFinds ==
  ASSUME IInv, OneByOne, Faithful, NEW p \in Procs, Get(p), faults' = faults, faults \in Nat
  PROVE  /\ End(p, Found(Secret(p)))
         /\ view[p] = index /\ AtRest(index) /\ file = "whole"
         /\ Entry(p) \in DOMAIN index
<1>1. pc[p] = "get"
  BY DEF Get
<1>2. AtRest(index) /\ file = "whole" /\ StageOK(p)
  BY <1>1, OneCall DEF Taking
<1>3. view[p] = index
  BY <1>1, <1>2 DEF StageOK, Reading
<1>4. Entry(p) \in DOMAIN index
  BY <1>1, <1>3 DEF IInv, Located, LocatedAt, Entry
<1>5. view[p][Entry(p)] \in DOMAIN secrets
  BY <1>2, <1>3, <1>4 DEF AtRest
<1> QED
  BY <1>2, <1>3, <1>4, <1>5 DEF Get, Fault, Entry, Secret

LEMMA GetFaithful ==
  ASSUME IInv, OneByOne, Faithful, NEW p \in Procs, Get(p), faults' = faults, faults \in Nat
  PROVE  Faithful'
<1>1. pc[p] # "idle" /\ UNCHANGED stored
  BY DEF Get
<1>2. AtRest(index)' /\ file' = "whole"
  BY <1>1, GetFinds DEF stored, AtRest
<1> QED
  BY <1>1, <1>2, GetFinds, EndFaithful

(***************************************************************************)
(* What Set does: the secret under the slot's UUID, and no other slot's.   *)
(***************************************************************************)
LEMMA SetDoes ==
  ASSUME IInv, OneByOne, Faithful, NEW p \in Procs, Set(p), faults' = faults, faults \in Nat
  PROVE  /\ pc[p] = "set" /\ call[p].op = "save" /\ file = "whole"
         /\ GoOn(p, "truncate", view[p]) /\ UNCHANGED <<index, file, failed>>
         /\ \A s \in Slots : Val(view[p], s)' =
                IF s = Slot(p) THEN call[p].creds ELSE Val(index, s)
         /\ \A s \in Slots : Val(index, s)' =
                IF s = Slot(p) /\ s \in DOMAIN index THEN call[p].creds ELSE Val(index, s)
         /\ AtRest(view[p])'
<1>0. TypeOK /\ pc[p] = "set" /\ call[p].op = "save" /\ Slot(p) \in DOMAIN view[p]
  BY DEF IInv, Located, LocatedAt, Set
<1>1. AtRest(index) /\ file = "whole" /\ Setting(p)
  BY <1>0, OneCall DEF Taking, StageOK
<1>2. /\ secrets' = With(secrets, view[p][Slot(p)], call[p].creds)
      /\ GoOn(p, "truncate", view[p]) /\ UNCHANGED <<index, file, failed>>
  BY DEF Set, Fault
<1>3. view'[p] = view[p]
  BY <1>0, <1>2, GoOnDoes
<1> DEFINE u == view[p][Slot(p)]
<1>4. /\ \A w : w \in DOMAIN secrets' <=> w = u \/ w \in DOMAIN secrets
      /\ \A w \in DOMAIN secrets' :
            secrets'[w] = IF w = u THEN call[p].creds ELSE secrets[w]
  BY <1>2 DEF With
<1>5. \A s \in DOMAIN view[p] : view[p][s] = u => s = Slot(p)
  BY <1>0 DEF IInv, Owned, Owns
<1>6. /\ \A s \in DOMAIN index : s \in DOMAIN view[p] /\ view[p][s] = index[s]
      /\ \A s \in DOMAIN view[p] : s \in DOMAIN index \/ s = Slot(p)
  BY <1>0, <1>1 DEF Setting
<1> HIDE DEF u
<1>7. ASSUME NEW s \in Slots
      PROVE  Val(view[p], s)' = IF s = Slot(p) THEN call[p].creds ELSE Val(index, s)
  <2>1. CASE s = Slot(p)
    BY <1>0, <1>3, <1>4, <2>1 DEF Val, u
  <2>2. CASE s # Slot(p)
    BY <1>3, <1>4, <1>5, <1>6, <2>2 DEF Val
  <2> QED
    BY <2>1, <2>2
<1>8. ASSUME NEW s \in Slots
      PROVE  Val(index, s)' =
                IF s = Slot(p) /\ s \in DOMAIN index THEN call[p].creds ELSE Val(index, s)
  <2>1. CASE s = Slot(p) /\ s \in DOMAIN index
    BY <1>2, <1>4, <1>6, <2>1 DEF Val, u
  <2>2. CASE ~(s = Slot(p) /\ s \in DOMAIN index)
    BY <1>2, <1>4, <1>5, <1>6, <2>2 DEF Val
  <2> QED
    BY <2>1, <2>2
<1>9. AtRest(view[p])'
  BY <1>1, <1>3, <1>4, <1>6 DEF AtRest, u
<1> QED
  BY <1>0, <1>1, <1>2, <1>7, <1>8, <1>9

LEMMA SetFaithful ==
  ASSUME IInv, OneByOne, Faithful, NEW p \in Procs, Set(p), faults' = faults, faults \in Nat
  PROVE  Faithful'
<1>1. /\ pc[p] = "set" /\ call[p].op = "save" /\ file' = "whole" /\ failed' = failed
      /\ GoOn(p, "truncate", view[p]) /\ AtRest(view[p])'
      /\ \A s \in Slots : Val(view[p], s)' = Val(index, s)' \/ s = Slot(p)
      /\ \A s \in Slots : s = Slot(p) => Val(view[p], s)' = call[p].creds
  BY SetDoes
<1>2. pc'[p] = "truncate" /\ call' = call /\ ~failed'[p] /\ Slot(p) \in Slots
  BY <1>1, GoOnDoes, OneCall, InACall DEF IInv
<1>3. Writing(p)'
  BY <1>1, <1>2 DEF Writing, Slot
<1>4. StageOK(p)'
  BY <1>2, <1>3 DEF StageOK, Reading, Setting, Sweeping
<1>5. Taking(p)'
  BY <1>2 DEF Taking
<1> QED
  BY <1>1, <1>4, <1>5, GoOnFaithful

(***************************************************************************)
(* What Forget does: the secret of the slot goes, and no other slot's.     *)
(***************************************************************************)
LEMMA ForgetDoes ==
  ASSUME IInv, OneByOne, Faithful, NEW p \in Procs, Forget(p), faults' = faults, faults \in Nat
  PROVE  /\ pc[p] = "forget" /\ call[p].op = "delete" /\ file = "whole"
         /\ GoOn(p, "truncate", Without(view[p], {Slot(p)}))
         /\ UNCHANGED <<index, file, failed>>
         /\ \A s \in Slots : /\ Val(view[p], s)' = Val(index, s)'
                             /\ Val(index, s)' =
                                  IF s = Slot(p) THEN NoCreds ELSE Val(index, s)
         /\ AtRest(view[p])' /\ Slot(p) \notin DOMAIN view'[p]
<1>0. /\ TypeOK /\ pc[p] = "forget" /\ call[p].op = "delete"
      /\ Slot(p) \in DOMAIN view[p]
  BY DEF IInv, Located, LocatedAt, Forget
<1>1. AtRest(index) /\ file = "whole" /\ view[p] = index
  BY <1>0, OneCall DEF Taking, StageOK, Reading
<1>2. /\ secrets' = Without(secrets, {index[Slot(p)]})
      /\ GoOn(p, "truncate", Without(view[p], {Slot(p)}))
      /\ UNCHANGED <<index, file, failed>>
  BY <1>0, <1>1 DEF Forget, Fault, AtRest
<1>3. view'[p] = Without(index, {Slot(p)})
  BY <1>0, <1>1, <1>2, GoOnDoes
<1>4. /\ \A s : s \in DOMAIN view'[p] <=> s \in DOMAIN index /\ s # Slot(p)
      /\ \A s \in DOMAIN view'[p] : view'[p][s] = index[s]
      /\ \A w : w \in DOMAIN secrets' <=> w \in DOMAIN secrets /\ w # index[Slot(p)]
      /\ \A w \in DOMAIN secrets' : secrets'[w] = secrets[w]
  BY <1>2, <1>3 DEF Without
<1>5. \A s \in DOMAIN index : index[s] = index[Slot(p)] => s = Slot(p)
  BY <1>0, <1>1 DEF IInv, Owned, Owns
<1>6. ASSUME NEW s \in Slots
      PROVE  /\ Val(view[p], s)' = Val(index, s)'
             /\ Val(index, s)' = IF s = Slot(p) THEN NoCreds ELSE Val(index, s)
  BY <1>2, <1>4, <1>5 DEF Val
<1>7. AtRest(view[p])'
  BY <1>1, <1>4, <1>5 DEF AtRest
<1> QED
  BY <1>0, <1>1, <1>2, <1>4, <1>6, <1>7

LEMMA ForgetFaithful ==
  ASSUME IInv, OneByOne, Faithful, NEW p \in Procs, Forget(p), faults' = faults, faults \in Nat
  PROVE  Faithful'
<1> DEFINE v == Without(view[p], {Slot(p)})
<1>1. /\ pc[p] = "forget" /\ call[p].op = "delete" /\ file' = "whole" /\ failed' = failed
      /\ GoOn(p, "truncate", v) /\ AtRest(view[p])' /\ Slot(p) \notin DOMAIN view'[p]
      /\ \A s \in Slots : Val(view[p], s)' = Val(index, s)'
  BY ForgetDoes
<1> HIDE DEF v
<1>2. pc'[p] = "truncate" /\ call' = call /\ ~failed'[p]
  BY <1>1, GoOnDoes, OneCall DEF IInv
<1>3. Writing(p)'
  BY <1>1, <1>2 DEF Writing, Slot
<1>4. StageOK(p)'
  BY <1>2, <1>3 DEF StageOK, Reading, Setting, Sweeping
<1>5. Taking(p)'
  BY <1>2 DEF Taking
<1> QED
  BY <1>1, <1>4, <1>5, GoOnFaithful

(***************************************************************************)
(* What a step of Sweep does: the secret of one slot of the account goes.  *)
(***************************************************************************)
LEMMA SweepDoes ==
  ASSUME IInv, OneByOne, Faithful, NEW p \in Procs, Sweep(p), faults' = faults, faults \in Nat
  PROVE  /\ pc[p] = "forget" /\ call[p].op = "deleteAll" /\ file = "whole"
         /\ view[p] = index /\ UNCHANGED <<index, file, failed>>
         /\ \/ todo'[p] = {} /\ GoOn(p, "truncate", Swept(p))
            \/ todo'[p] # {} /\ UNCHANGED <<pc, call, view, answer>>
         /\ \A q \in Procs \ {p} : todo'[q] = todo[q]
         /\ todo'[p] \subseteq todo[p]
         /\ \E s \in Sessions(index, call[p].account) :
              \A t \in Slots :
                 Val(index, t)' = IF t = s THEN NoCreds ELSE Val(index, t)
         /\ \A s \in DOMAIN index : index'[s] \in DOMAIN secrets' <=>
               s[1] # call[p].account \/ index[s] \in todo'[p]
<1>0. TypeOK /\ pc[p] = "forget" /\ call[p].op = "deleteAll"
  BY DEF IInv, Sweep
<1>1. file = "whole" /\ view[p] = index /\ Sweeping(p)
  BY <1>0, OneCall DEF StageOK, Reading
<1>2. PICK u \in todo[p] :
         /\ todo' = [todo EXCEPT ![p] = @ \ {u}]
         /\ \/ /\ u \in DOMAIN secrets
               /\ secrets' = Without(secrets, {u})
               /\ UNCHANGED <<failed, faults>>
            \/ /\ \/ u \notin DOMAIN secrets /\ UNCHANGED faults
                  \/ u \in DOMAIN secrets /\ Fault
               /\ failed' = [failed EXCEPT ![p] = TRUE]
               /\ UNCHANGED secrets
  BY DEF Sweep
<1>3. PICK s \in Sessions(index, call[p].account) : index[s] = u
  BY <1>0, <1>1, <1>2 DEF Sweeping
<1>4. s \in DOMAIN index /\ s[1] = call[p].account
  BY <1>3 DEF Sessions
<1>5. u \in DOMAIN secrets
  BY <1>0, <1>1, <1>2, <1>3, <1>4 DEF Sweeping
<1>6. /\ secrets' = Without(secrets, {u}) /\ failed' = failed
      /\ index' = index /\ file' = file
  BY <1>2, <1>5 DEF Fault, Sweep
<1>7. \A q \in Procs : todo'[q] = IF q = p THEN todo[p] \ {u} ELSE todo[q]
  BY <1>0, <1>2 DEF TypeOK, LocalOK
<1>8. /\ \A w : w \in DOMAIN secrets' <=> w \in DOMAIN secrets /\ w # u
      /\ \A w \in DOMAIN secrets' : secrets'[w] = secrets[w]
  BY <1>6 DEF Without
<1>9. \A t \in DOMAIN index : index[t] = u => t = s
  BY <1>3, <1>4 DEF IInv, Owned, Owns
<1>10. \A t \in Slots : Val(index, t)' = IF t = s THEN NoCreds ELSE Val(index, t)
  BY <1>3, <1>6, <1>8, <1>9 DEF Val
<1>11. ASSUME NEW t \in DOMAIN index
       PROVE  index'[t] \in DOMAIN secrets' <=>
                 t[1] # call[p].account \/ index[t] \in todo'[p]
  <2>1. index[t] \in DOMAIN secrets <=> t[1] # call[p].account \/ index[t] \in todo[p]
    BY <1>0, <1>1 DEF Sweeping
  <2> QED
    BY <1>4, <1>6, <1>7, <1>8, <1>9, <2>1
<1>12. IF todo'[p] = {} THEN GoOn(p, "truncate", Swept(p))
                        ELSE UNCHANGED <<pc, call, view, answer>>
  BY DEF Sweep
<1> QED
  BY <1>0, <1>1, <1>3, <1>6, <1>7, <1>10, <1>11, <1>12

LEMMA SweepFaithful ==
  ASSUME IInv, OneByOne, Faithful, NEW p \in Procs, Sweep(p), faults' = faults, faults \in Nat
  PROVE  Faithful'
<1>0. TypeOK /\ pc[p] # "idle"
  BY SweepDoes DEF IInv
<1>1. /\ pc[p] = "forget" /\ call[p].op = "deleteAll" /\ file' = "whole"
      /\ view[p] = index /\ UNCHANGED <<index, failed>>
      /\ \A q \in Procs \ {p} : pc[q] = "idle" /\ todo'[q] = todo[q]
      /\ \A s \in DOMAIN index : index'[s] \in DOMAIN secrets' <=>
            s[1] # call[p].account \/ index[s] \in todo'[p]
      /\ todo'[p] \subseteq todo[p]
  BY <1>0, SweepDoes, OneCall
<1>2. ~failed'[p]
  BY <1>0, <1>1, OneCall
<1>3. CASE todo'[p] = {} /\ GoOn(p, "truncate", Swept(p))
  <2> DEFINE v == Swept(p)
  <2>1. /\ \A s : s \in DOMAIN v <=> s \in DOMAIN index /\ s[1] # call[p].account
        /\ \A s \in DOMAIN v : v[s] = index[s]
    BY <1>1 DEF Swept, Without, Sessions
  <2>2. GoOn(p, "truncate", v)
    BY <1>3
  <2> HIDE DEF v
  <2>3. pc'[p] = "truncate" /\ view'[p] = v /\ call' = call
    BY <1>0, <2>2, GoOnDoes
  <2>4. AtRest(view[p])'
    BY <1>1, <2>1, <2>3 DEF AtRest
  <2>5. \A s \in Slots : Val(view[p], s)' = Val(index, s)'
    BY <1>1, <1>3, <2>1, <2>3 DEF Val
  <2>6. Writing(p)'
    BY <1>1, <2>3, <2>4, <2>5 DEF Writing
  <2>7. StageOK(p)' /\ Taking(p)'
    BY <1>2, <2>3, <2>6 DEF StageOK, Reading, Setting, Sweeping, Taking
  <2> QED
    BY <1>0, <1>1, <2>2, <2>7, GoOnFaithful
<1>4. CASE UNCHANGED <<pc, call, view, answer>>
  <2>1. StageOK(p)
    BY <1>0, OneCall
  <2>2. Sweeping(p)'
    BY <1>1, <1>4, <2>1 DEF StageOK, Sweeping, Sessions
  <2>3. StageOK(p)'
    BY <1>1, <1>2, <1>4, <2>2 DEF StageOK, Reading, Setting, Writing
  <2>4. \A q \in Procs \ {p} : StageOK(q)'
    BY <1>1, <1>4 DEF Faithful, StageOK, Reading, Setting, Sweeping, Writing
  <2>5. Taking(p)'
    BY <1>1, <1>4 DEF Taking
  <2>6. \A q \in Procs : pc'[q] # "write"
    BY <1>1, <1>4
  <2> QED
    BY <1>1, <2>3, <2>4, <2>5, <2>6 DEF Faithful
<1> QED
  BY <1>3, <1>4, SweepDoes

LEMMA TruncateFaithful ==
  ASSUME IInv, OneByOne, Faithful, NEW p \in Procs, Truncate(p),
         faults' = faults, faults \in Nat
  PROVE  Faithful'
<1>1. /\ TypeOK /\ pc[p] = "truncate" /\ file' = "empty" /\ failed' = failed
      /\ GoOn(p, "write", view[p]) /\ UNCHANGED <<index, secrets>>
  BY DEF IInv, Truncate, Fault
<1>2. pc'[p] = "write" /\ view'[p] = view[p] /\ call' = call
  BY <1>1, GoOnDoes
<1>3. StageOK(p) /\ ~failed[p]
  BY <1>1, OneCall
<1>4. Writing(p)'
  BY <1>1, <1>2, <1>3 DEF StageOK, Writing, Val, AtRest, Slot
<1>5. StageOK(p)' /\ Taking(p)'
  BY <1>1, <1>2, <1>3, <1>4 DEF StageOK, Reading, Setting, Sweeping, Taking
<1> QED
  BY <1>1, <1>5, GoOnFaithful

(***************************************************************************)
(* Write puts down the index its call has made.                            *)
(***************************************************************************)
LEMMA WriteDoes ==
  ASSUME IInv, OneByOne, Faithful, NEW p \in Procs, Write(p), faults' = faults, faults \in Nat
  PROVE  /\ pc[p] = "write" /\ Writing(p) /\ file' = "whole"
         /\ index' = view[p] /\ secrets' = secrets
         /\ End(p, Ok({})) /\ AtRest(index)'
<1>1. /\ pc[p] = "write" /\ file' \in Written /\ End(p, Done(p))
      /\ index' = view[p] /\ secrets' = secrets
  BY DEF Write, Fault
<1>2. file = "empty" /\ StageOK(p) /\ ~failed[p]
  BY <1>1, OneCall
<1>3. file' = "whole"
  BY <1>1, <1>2 DEF Written
<1>4. Writing(p)
  BY <1>2 DEF StageOK
<1>5. call[p].op \in {"save", "delete", "deleteAll"} /\ AtRest(view[p])
  BY <1>1, <1>4 DEF Writing
<1>6. Done(p) = Ok({})
  BY <1>2, <1>5 DEF Done
<1>7. AtRest(index)'
  BY <1>1, <1>5 DEF AtRest
<1> QED
  BY <1>1, <1>3, <1>4, <1>6, <1>7

LEMMA WriteFaithful ==
  ASSUME IInv, OneByOne, Faithful, NEW p \in Procs, Write(p), faults' = faults, faults \in Nat
  PROVE  Faithful'
<1>1. pc[p] # "idle"
  BY DEF Write
<1> QED
  BY <1>1, WriteDoes, EndFaithful

LEMMA StepFaithful ==
  ASSUME IInv, OneByOne, Faithful, NEW p \in Procs, Step(p), faults' = faults
  PROVE  Faithful' /\ ~ReadBroken(p) /\ ~Crash(p)
<1>0. faults \in Nat
  BY BoundAssumption DEF IInv, TypeOK
<1>1. ~Crash(p)
  BY <1>0 DEF Crash, Fault
<1>2. ~ReadBroken(p)
  BY OneCall DEF ReadBroken
<1> QED
  BY <1>0, <1>1, <1>2, ReadFaithful, GetFaithful, SetFaithful, ForgetFaithful,
     SweepFaithful, TruncateFaithful, WriteFaithful DEF Step

LEMMA InitMInv == Init => MInv
  BY InitLInv, InitFaithful DEF MInv

LEMMA StepCounts ==
  ASSUME NEW p \in Procs, Step(p)
  PROVE  /\ overlapped' = overlapped /\ pc[p] # "idle"
         /\ faults' = faults \/ faults' = faults + 1
  BY DEF Step, ReadBroken, Read, Get, Set, Forget, Sweep, Truncate, Write, Crash, Fault

LEMMA StayCalm ==
  ASSUME TypeOK, [Next]_vars, Calm'
  PROVE  Calm /\ faults' = faults
<1>1. faults \in Nat
  BY BoundAssumption DEF TypeOK
<1>2. ASSUME NEW p \in Procs, Step(p) PROVE Calm /\ faults' = faults
  BY <1>1, <1>2, StepCounts DEF Calm
<1>3. ASSUME NEW p \in Procs, NEW c \in Calls, Begin(p, c) PROVE Calm /\ faults' = faults
  BY <1>3 DEF Begin, Calm
<1>4. CASE UNCHANGED vars
  BY <1>4 DEF vars, Calm
<1> QED
  BY <1>2, <1>3, <1>4 DEF Next

LEMMA NextMInv == MInv /\ [Next]_vars => MInv'
<1> SUFFICES ASSUME MInv, [Next]_vars, Calm' PROVE Faithful'
  BY NextLInv DEF MInv
<1>1. TypeOK /\ IInv
  BY DEF MInv, LInv, IInv
<1>2. Calm /\ faults' = faults /\ ~overlapped'
  BY <1>1, StayCalm DEF Calm
<1>3. OneByOne /\ Faithful
  BY <1>2 DEF MInv, LInv, Calm
<1>4. ASSUME NEW p \in Procs, NEW c \in Calls, Begin(p, c) PROVE Faithful'
  BY <1>1, <1>2, <1>3, <1>4, BeginFaithful
<1>5. ASSUME NEW p \in Procs, Step(p) PROVE Faithful'
  BY <1>1, <1>2, <1>3, <1>5, StepFaithful
<1>6. CASE UNCHANGED vars
  BY <1>3, <1>6 DEF vars, stored, local, Faithful, StageOK, Reading, Setting, Sweeping,
                    Writing, Taking, AtRest, Val, Slot
<1> QED
  BY <1>4, <1>5, <1>6 DEF Next

LEMMA CalmInvariance == Spec => []MInv
<1> QED
  BY InitMInv, NextMInv, PTL DEF Spec

-----------------------------------------------------------------------------
(***************************************************************************)
(* The map the callers see.                                                *)
(***************************************************************************)
Seen == [s \in Slots |-> Val(Content, s)]

LEMMA WorkIf ==
  ASSUME NEW p \in Procs, call[p].op # "idle", call' = call,
         Seen' \in Map!Effect(call[p], Seen)
  PROVE  Map!Work(p)
  BY DEF Map!Work, Seen, Val

LEMMA ReturnIf ==
  ASSUME TypeOK, NEW p \in Procs, NEW a, End(p, a), call[p].op # "idle", Seen' = Seen,
         Map!Agrees(call[p], a, Seen)
  PROVE  Map!Return(p)
<1>1. call' = [call EXCEPT ![p] = call'[p]] /\ call'[p].op = "idle" /\ answer'[p] = a
  BY DEF TypeOK, LocalOK, End, NoCall
<1>2. Map!Agrees(call[p], answer'[p], Seen')
  BY <1>1
<1> QED
  BY <1>1, <1>2 DEF Map!Return, Seen, Val

LEMMA SeenWhole ==
  /\ file = "whole" => Content = index
  /\ file' = "whole" => Content' = index'
  BY DEF Content

LEMMA SeenWriting ==
  ASSUME NEW p \in Procs, pc[p] = "write", file = "empty",
         \A q \in Procs \ {p} : pc[q] # "write"
  PROVE  Content = view[p]
<1>1. Writers = {p}
  BY DEF Writers
<1> QED
  BY <1>1 DEF Content

LEMMA SeenWritingNext ==
  ASSUME NEW p \in Procs, pc'[p] = "write", file' = "empty",
         \A q \in Procs \ {p} : pc'[q] # "write"
  PROVE  Content' = view'[p]
<1>1. Writers' = {p}
  BY DEF Writers
<1> QED
  BY <1>1 DEF Content

(***************************************************************************)
(* What the keyring holds can be told from nothing.                        *)
(***************************************************************************)
LEMMA CredsAreSome ==
  ASSUME TypeOK
  PROVE  /\ \A c \in AllCreds : c # NoCreds
         /\ \A u \in DOMAIN secrets : secrets[u] # NoCreds
<1>1. ASSUME NEW c \in AllCreds PROVE c # NoCreds
  <2>1. "n" \in DOMAIN c
    BY <1>1 DEF AllCreds
  <2>2. "n" \notin DOMAIN NoCreds
    BY DEF NoCreds
  <2> QED
    BY <2>1, <2>2
<1> QED
  BY <1>1 DEF TypeOK, StoredOK

(***************************************************************************)
(* What a slot of the map holds, and which accounts it lists, while every  *)
(* entry of the index has its secret.                                      *)
(***************************************************************************)
LEMMA SeenAtRest ==
  ASSUME TypeOK, Content = index, AtRest(index)
  PROVE  /\ \A s \in Slots : s \in DOMAIN index => /\ Seen[s] = secrets[index[s]]
                                                  /\ Seen[s] # NoCreds
         /\ \A s \in Slots : s \notin DOMAIN index => Seen[s] = NoCreds
         /\ {s[1] : s \in {t \in Slots : Seen[t] # NoCreds}} = {s[1] : s \in DOMAIN index}
<1>1. ASSUME NEW s \in Slots, s \in DOMAIN index
      PROVE  Seen[s] = secrets[index[s]] /\ Seen[s] # NoCreds
  BY <1>1, CredsAreSome DEF Seen, Val, AtRest
<1>2. ASSUME NEW s \in Slots, s \notin DOMAIN index PROVE Seen[s] = NoCreds
  BY <1>2 DEF Seen, Val
<1>3. {t \in Slots : Seen[t] # NoCreds} = DOMAIN index
  BY <1>1, <1>2 DEF TypeOK, StoredOK, Indexes
<1> QED
  BY <1>1, <1>2, <1>3

LEMMA SeenUnchanged ==
  ASSUME Content' = Content, secrets' = secrets
  PROVE  Seen' = Seen
  BY DEF Seen, Val

LEMMA ReadMaps ==
  ASSUME IInv, OneByOne, Faithful, NEW p \in Procs, Read(p)
  PROVE  Map!Return(p) \/ UNCHANGED <<Seen, call, answer>>
<1>0. TypeOK /\ pc[p] # "idle" /\ Slot(p) \in Slots /\ Fallback(p) \in Slots
  BY InACall DEF Read, IInv
<1>1. AtRest(index) /\ Content = index /\ Content' = index /\ secrets' = secrets
  BY <1>0, OneCall, SeenWhole DEF Read, Taking
<1>2. Seen' = Seen
  BY <1>1, SeenUnchanged
<1>3. /\ \A s \in Slots : s \in DOMAIN index => Seen[s] # NoCreds
      /\ \A s \in Slots : s \notin DOMAIN index => Seen[s] = NoCreds
      /\ {s[1] : s \in {t \in Slots : Seen[t] # NoCreds}} = {s[1] : s \in DOMAIN index}
  BY <1>0, <1>1, SeenAtRest
<1>4. ASSUME NEW a, End(p, a), call[p].op \in Ops, Map!Agrees(call[p], a, Seen)
      PROVE  Map!Return(p)
  BY <1>0, <1>2, <1>4, ReturnIf DEF Ops
<1>5. ASSUME NEW l, NEW v, GoOn(p, l, v) PROVE UNCHANGED <<Seen, call, answer>>
  BY <1>2, <1>5 DEF GoOn
<1>6. call[p].op \in Ops
  BY <1>0, InACall
<1>7. CASE ReadList(p)
  <2> DEFINE a == Ok({s[1] : s \in DOMAIN index})
  <2>1. a.kind = "ok" /\ a.names = {s[1] : s \in DOMAIN index}
    BY DEF Ok, Answer
  <2>2. Map!Agrees(call[p], a, Seen)
    BY <1>3, <1>7, <2>1 DEF ReadList, Map!Agrees
  <2> QED
    BY <1>4, <1>6, <1>7, <2>2 DEF ReadList
<1>8. CASE ReadLoad(p)
  <2>1. CASE GoOn(p, "get", index)
    BY <1>5, <2>1
  <2>2. CASE Resolve(p, index) \notin DOMAIN index /\ End(p, Missing)
    <3>1. Slot(p) \notin DOMAIN index /\ Fallback(p) \notin DOMAIN index
      BY <2>2 DEF Resolve
    <3>2. Seen[Slot(p)] = NoCreds /\ Seen[Fallback(p)] = NoCreds
      BY <1>0, <1>3, <3>1
    <3>3. Map!Agrees(call[p], Missing, Seen)
      BY <1>8, <3>2 DEF ReadLoad, Map!Agrees, Map!Slot, Map!Fallback, Slot, Fallback,
                        Missing, Answer
    <3> QED
      BY <1>4, <1>6, <2>2, <3>3
  <2> QED
    BY <1>8, <2>1, <2>2 DEF ReadLoad
<1>9. CASE ReadSave(p)
  BY <1>5, <1>9 DEF ReadSave
<1>10. CASE ReadDelete(p)
  <2>1. CASE GoOn(p, "forget", index)
    BY <1>5, <2>1
  <2>2. CASE Slot(p) \notin DOMAIN index /\ End(p, Ok({}))
    <3>1. Map!Agrees(call[p], Ok({}), Seen)
      BY <1>0, <1>3, <1>10, <2>2 DEF ReadDelete, Map!Agrees, Map!Slot, Slot, Ok, Answer
    <3> QED
      BY <1>4, <1>6, <2>2, <3>1
  <2> QED
    BY <1>10, <2>1, <2>2 DEF ReadDelete
<1>11. CASE ReadDeleteAll(p)
  <2>1. CASE GoOn(p, "forget", index)
    BY <1>5, <2>1
  <2>2. CASE Sessions(index, call[p].account) = {} /\ End(p, Ok({}))
    <3>1. \A s \in Map!Mine(call[p]) : Seen[s] = NoCreds
      BY <1>3, <2>2 DEF Map!Mine, Sessions
    <3>2. Map!Agrees(call[p], Ok({}), Seen)
      BY <1>11, <3>1 DEF ReadDeleteAll, Map!Agrees, Ok, Answer
    <3> QED
      BY <1>4, <1>6, <2>2, <3>2
  <2> QED
    BY <1>11, <2>1, <2>2 DEF ReadDeleteAll
<1> QED
  BY <1>7, <1>8, <1>9, <1>10, <1>11 DEF Read

LEMMA GetMaps ==
  ASSUME IInv, OneByOne, Faithful, NEW p \in Procs, Get(p), faults' = faults, faults \in Nat
  PROVE  Map!Return(p)
<1>0. /\ TypeOK /\ pc[p] = "get" /\ pc[p] # "idle" /\ call[p].op = "load"
      /\ Slot(p) \in Slots /\ Fallback(p) \in Slots
  BY InACall DEF Get, IInv, Located, LocatedAt
<1>1. /\ End(p, Found(Secret(p))) /\ view[p] = index /\ AtRest(index) /\ file = "whole"
      /\ Entry(p) \in DOMAIN index
  BY GetFinds
<1>2. Content = index /\ Content' = index /\ secrets' = secrets
  BY <1>1, SeenWhole DEF Get, stored
<1>3. Seen' = Seen
  BY <1>2, SeenUnchanged
<1>4. /\ \A s \in Slots : s \in DOMAIN index => /\ Seen[s] = secrets[index[s]]
                                               /\ Seen[s] # NoCreds
      /\ \A s \in Slots : s \notin DOMAIN index => Seen[s] = NoCreds
  BY <1>0, <1>1, <1>2, SeenAtRest
<1>5. Found(Secret(p)).found = {secrets[index[Entry(p)]]}
  BY <1>1 DEF Found, Answer, Secret
<1>6. IF Seen[Slot(p)] # NoCreds
      THEN Entry(p) = Slot(p)
      ELSE Entry(p) = Fallback(p) /\ Seen[Fallback(p)] # NoCreds
  BY <1>0, <1>1, <1>4 DEF Entry, Resolve
<1>7. IF Seen[Slot(p)] # NoCreds
      THEN Found(Secret(p)).found = {Seen[Slot(p)]}
      ELSE /\ Seen[Fallback(p)] # NoCreds
           /\ Found(Secret(p)).found = {Seen[Fallback(p)]}
  BY <1>0, <1>1, <1>4, <1>5, <1>6
<1>8. Map!Agrees(call[p], Found(Secret(p)), Seen)
  BY <1>0, <1>7 DEF Map!Agrees, Map!Slot, Map!Fallback, Slot, Fallback
<1> QED
  BY <1>0, <1>1, <1>3, <1>8, ReturnIf

(***************************************************************************)
(* Set, Forget and a step of Sweep change one slot of the call, or none.   *)
(***************************************************************************)
LEMMA SetMaps ==
  ASSUME IInv, OneByOne, Faithful, NEW p \in Procs, Set(p), faults' = faults, faults \in Nat
  PROVE  Map!Work(p) \/ UNCHANGED <<Seen, call, answer>>
<1>1. /\ call[p].op = "save" /\ file' = "whole" /\ file = "whole" /\ index' = index
      /\ GoOn(p, "truncate", view[p])
      /\ \A s \in Slots : Val(index, s)' =
             IF s = Slot(p) /\ s \in DOMAIN index THEN call[p].creds ELSE Val(index, s)
  BY SetDoes
<1>2. call' = call /\ answer' = answer
  BY <1>1 DEF GoOn
<1>3. Content = index /\ Content' = index'
  BY <1>1, SeenWhole
<1>4. Seen' = [s \in Slots |-> Val(index, s)'] /\ Seen = [s \in Slots |-> Val(index, s)]
  BY <1>3 DEF Seen, Val
<1>5. CASE Slot(p) \in DOMAIN index
  <2>1. Seen' = [Seen EXCEPT ![Slot(p)] = call[p].creds]
    BY <1>1, <1>4, <1>5
  <2>2. Seen' \in Map!Effect(call[p], Seen)
    BY <1>1, <2>1 DEF Map!Effect, Map!Slot, Slot
  <2> QED
    BY <1>1, <1>2, <2>2, WorkIf
<1>6. CASE Slot(p) \notin DOMAIN index
  <2>1. Seen' = Seen
    BY <1>1, <1>4, <1>6
  <2> QED
    BY <1>2, <2>1
<1> QED
  BY <1>5, <1>6

LEMMA ForgetMaps ==
  ASSUME IInv, OneByOne, Faithful, NEW p \in Procs, Forget(p), faults' = faults, faults \in Nat
  PROVE  Map!Work(p)
<1>1. /\ call[p].op = "delete" /\ file' = "whole" /\ file = "whole" /\ index' = index
      /\ GoOn(p, "truncate", Without(view[p], {Slot(p)}))
      /\ \A s \in Slots : Val(index, s)' = IF s = Slot(p) THEN NoCreds ELSE Val(index, s)
  BY ForgetDoes
<1>2. call' = call
  BY <1>1 DEF GoOn
<1>3. Content = index /\ Content' = index'
  BY <1>1, SeenWhole
<1>4. Seen' = [s \in Slots |-> Val(index, s)'] /\ Seen = [s \in Slots |-> Val(index, s)]
  BY <1>3 DEF Seen, Val
<1>5. Seen' = [Seen EXCEPT ![Slot(p)] = NoCreds]
  BY <1>1, <1>4
<1>6. Seen' \in Map!Effect(call[p], Seen)
  BY <1>1, <1>5 DEF Map!Effect, Map!Slot, Slot
<1> QED
  BY <1>1, <1>2, <1>6, WorkIf

LEMMA SweepMaps ==
  ASSUME IInv, OneByOne, Faithful, NEW p \in Procs, Sweep(p), faults' = faults, faults \in Nat
  PROVE  Map!Work(p)
<1>1. /\ call[p].op = "deleteAll" /\ file' = "whole" /\ file = "whole" /\ index' = index
      /\ GoOn(p, "truncate", Swept(p)) \/ UNCHANGED <<pc, call, view, answer>>
  BY SweepDoes
<1>2. PICK s \in Sessions(index, call[p].account) :
         \A t \in Slots : Val(index, t)' = IF t = s THEN NoCreds ELSE Val(index, t)
  BY SweepDoes
<1>3. call' = call
  BY <1>1 DEF GoOn
<1>4. Content = index /\ Content' = index'
  BY <1>1, SeenWhole
<1>5. Seen' = [t \in Slots |-> Val(index, t)'] /\ Seen = [t \in Slots |-> Val(index, t)]
  BY <1>4 DEF Seen, Val
<1>6. Seen' = [Seen EXCEPT ![s] = NoCreds]
  BY <1>2, <1>5
<1>7. s \in Map!Mine(call[p])
  BY <1>2 DEF Map!Mine, Sessions, IInv, TypeOK, StoredOK, Indexes
<1>8. Seen' \in Map!Effect(call[p], Seen)
  BY <1>1, <1>6, <1>7 DEF Map!Effect
<1> QED
  BY <1>1, <1>3, <1>8, WorkIf

(***************************************************************************)
(* A new mapping counts from when the file is truncated: no other call     *)
(* comes between, and this one does not fail.                              *)
(***************************************************************************)
LEMMA TruncateMaps ==
  ASSUME IInv, OneByOne, Faithful, NEW p \in Procs, Truncate(p),
         faults' = faults, faults \in Nat
  PROVE  Map!Work(p) \/ UNCHANGED <<Seen, call, answer>>
<1>1. /\ TypeOK /\ pc[p] = "truncate" /\ pc[p] # "idle" /\ file' = "empty"
      /\ GoOn(p, "write", view[p]) /\ secrets' = secrets
  BY DEF IInv, Truncate, Fault
<1>2. /\ pc'[p] = "write" /\ view'[p] = view[p] /\ call' = call /\ answer' = answer
      /\ \A q \in Procs \ {p} : pc'[q] = pc[q]
  BY <1>1, GoOnDoes
<1>3. /\ file = "whole" /\ Writing(p) /\ Slot(p) \in Slots
      /\ \A q \in Procs \ {p} : pc[q] = "idle"
  BY <1>1, OneCall, InACall DEF StageOK
<1>4. Content = index
  BY <1>3, SeenWhole
<1>5. Content' = view[p]
  BY <1>1, <1>2, <1>3, SeenWritingNext
<1>6. Seen = [s \in Slots |-> Val(index, s)] /\ Seen' = [s \in Slots |-> Val(view[p], s)]
  BY <1>1, <1>4, <1>5 DEF Seen, Val
<1>7. CASE call[p].op = "save"
  <2>1. Seen' = [Seen EXCEPT ![Slot(p)] = call[p].creds]
    BY <1>1, <1>3, <1>6, <1>7 DEF Writing
  <2>2. Seen' \in Map!Effect(call[p], Seen)
    BY <1>7, <2>1 DEF Map!Effect, Map!Slot, Slot
  <2> QED
    BY <1>2, <1>7, <2>2, WorkIf
<1>8. CASE call[p].op # "save"
  BY <1>1, <1>2, <1>3, <1>6, <1>8 DEF Writing
<1> QED
  BY <1>7, <1>8

LEMMA WriteMaps ==
  ASSUME IInv, OneByOne, Faithful, NEW p \in Procs, Write(p), faults' = faults, faults \in Nat
  PROVE  Map!Return(p)
<1>1. /\ TypeOK /\ pc[p] = "write" /\ pc[p] # "idle" /\ Writing(p) /\ file' = "whole"
      /\ index' = view[p] /\ secrets' = secrets /\ End(p, Ok({}))
  BY WriteDoes DEF IInv
<1>2. /\ file = "empty" /\ Slot(p) \in Slots /\ call[p].creds \in AllCreds
      /\ \A q \in Procs \ {p} : pc[q] # "write"
  BY <1>1, OneCall, InACall
<1>3. Content = view[p] /\ Content' = view[p]
  BY <1>1, <1>2, SeenWriting, SeenWhole
<1>4. Seen' = Seen /\ Seen = [s \in Slots |-> Val(view[p], s)]
  BY <1>1, <1>3 DEF Seen, Val
<1>5. Ok({}).kind = "ok"
  BY DEF Ok, Answer
<1>6. CASE call[p].op = "save"
  <2>1. Seen[Slot(p)] = call[p].creds
    BY <1>1, <1>2, <1>4, <1>6 DEF Writing
  <2>2. Map!Agrees(call[p], Ok({}), Seen)
    BY <1>5, <1>6, <2>1 DEF Map!Agrees, Map!Slot, Slot
  <2> QED
    BY <1>1, <1>4, <1>6, <2>2, ReturnIf
<1>7. CASE call[p].op = "delete"
  <2>1. Seen[Slot(p)] = NoCreds
    BY <1>1, <1>2, <1>4, <1>7 DEF Writing, Val
  <2>2. Map!Agrees(call[p], Ok({}), Seen)
    BY <1>5, <1>7, <2>1 DEF Map!Agrees, Map!Slot, Slot
  <2> QED
    BY <1>1, <1>4, <1>7, <2>2, ReturnIf
<1>8. CASE call[p].op = "deleteAll"
  <2>1. Sessions(view[p], call[p].account) = {}
    BY <1>1, <1>8 DEF IInv, Located, LocatedAt
  <2>2. \A s \in Map!Mine(call[p]) : Seen[s] = NoCreds
    BY <1>4, <2>1 DEF Map!Mine, Sessions, Val
  <2>3. Map!Agrees(call[p], Ok({}), Seen)
    BY <1>5, <1>8, <2>2 DEF Map!Agrees
  <2> QED
    BY <1>1, <1>4, <1>8, <2>3, ReturnIf
<1> QED
  BY <1>1, <1>6, <1>7, <1>8 DEF Writing

LEMMA BeginMaps ==
  ASSUME IInv, Faithful, NEW p \in Procs, NEW c \in Calls, Begin(p, c), ~overlapped'
  PROVE  Map!Invoke(p)
<1>1. /\ \A q \in Procs : pc[q] = "idle" /\ call[q] = NoCall
      /\ UNCHANGED <<file, index, secrets>>
  BY DEF Begin, stored, IInv, TypeOK, LocalOK
<1>2. file = "whole"
  BY <1>1 DEF Faithful
<1>3. Seen' = Seen
  BY <1>1, <1>2, SeenWhole, SeenUnchanged
<1>4. call' = [call EXCEPT ![p] = call'[p]] /\ call'[p].op = c.op
  BY DEF Begin, IInv, TypeOK, LocalOK
<1>5. call'[p].op # "idle"
  BY <1>4 DEF Calls, Ops
<1>6. \A q \in Procs : call[q].op = "idle"
  BY <1>1 DEF NoCall
<1> QED
  BY <1>3, <1>4, <1>5, <1>6 DEF Map!Invoke, Seen, Val

(***************************************************************************)
(* As long as calls do not overlap and nothing fails, the file and the     *)
(* keyring are one map: every call changes only its own slots and answers  *)
(* what the map says.  The store implements SessionMap, for any processes, *)
(* accounts, services, earlier logins and bounds.                          *)
(***************************************************************************)
THEOREM StoreIsAMap == Spec => IsAMap
<1>1. Init => Map!Init
  <2> SUFFICES ASSUME Init PROVE Map!Init
    OBVIOUS
  <2>1. \A p \in Procs : call[p].op = "idle"
    BY DEF Init, NoCall
  <2>2. ~overlapped /\ faults = 0
    BY DEF Init
  <2> QED
    BY <2>1, <2>2 DEF Map!Init
<1>2. MInv /\ [Next]_vars => [Map!Next]_(Map!vars)
  <2> SUFFICES ASSUME MInv, [Next]_vars PROVE [Map!Next]_(Map!vars)
    OBVIOUS
  <2>1. CASE ~Calm'
    BY <2>1 DEF Calm, Map!Next
  <2>2. CASE Calm'
    <3>1. IInv /\ TypeOK /\ faults \in Nat
      BY BoundAssumption DEF MInv, LInv, IInv, TypeOK
    <3>2. Calm /\ faults' = faults
      BY <2>2, <3>1, StayCalm
    <3>3. OneByOne /\ Faithful
      BY <3>2 DEF MInv, LInv, Calm
    <3>4. ASSUME UNCHANGED <<Seen, call, answer>> PROVE UNCHANGED Map!vars
      BY <2>2, <3>2, <3>4 DEF Map!vars, Seen, Val, Calm
    <3>5. ASSUME NEW p \in Procs, Map!Invoke(p) \/ Map!Work(p) \/ Map!Return(p)
          PROVE  Map!Next
      BY <2>2, <3>5 DEF Map!Next, Calm
    <3>6. ASSUME NEW p \in Procs, NEW c \in Calls, Begin(p, c) PROVE Map!Next
      BY <2>2, <3>1, <3>3, <3>5, <3>6, BeginMaps DEF Calm
    <3>7. ASSUME NEW p \in Procs, Step(p)
          PROVE  Map!Next \/ UNCHANGED Map!vars
      <4>1. ~ReadBroken(p) /\ ~Crash(p)
        BY <3>1, <3>2, <3>3, <3>7, StepFaithful
      <4> QED
        BY <3>1, <3>2, <3>3, <3>4, <3>5, <3>7, <4>1, ReadMaps, GetMaps, SetMaps,
           ForgetMaps, SweepMaps, TruncateMaps, WriteMaps DEF Step
    <3>8. CASE UNCHANGED vars
      <4>1. UNCHANGED <<Seen, call, answer>>
        BY <3>8 DEF vars, stored, local, Seen, Val, Content, Writers
      <4> QED
        BY <3>4, <4>1
    <3> QED
      BY <3>6, <3>7, <3>8 DEF Next
  <2> QED
    BY <2>1, <2>2
<1> QED
  BY <1>1, <1>2, CalmInvariance, PTL DEF Spec, IsAMap, Map!Spec
=============================================================================
