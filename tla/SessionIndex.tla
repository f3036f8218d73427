---------------------------- MODULE SessionIndex ----------------------------
(***************************************************************************)
(* The session store of internal/keyring: an index file that maps          *)
(* (account, service) to a UUID, and the system keyring that maps a UUID   *)
(* to credentials.  Every program of a user (the command line, the mount   *)
(* daemon) and every goroutine of one works on the same file and keyring,  *)
(* without a lock: a call reads the whole file, does its keyring work, and *)
(* writes the whole file back, truncating it first.                        *)
(*                                                                         *)
(* A read, a keyring call, the truncation and the write are one step each; *)
(* the calls of other processes, a failure or the death of the process may *)
(* come between any two of them.                                           *)
(***************************************************************************)
EXTENDS Naturals, Sequences

CONSTANTS
    Procs,          \* whoever uses the store
    Accounts,
    Services,       \* account, drive, lumo, cookie, and the wildcard
    Wildcard,       \* "*"
    Held,           \* the slots that earlier logins filled, in their order
    MaxCalls,       \* bound: calls
    MaxFaults       \* bound: keyring and file errors, and processes that die

Slots == Accounts \X Services

ASSUME WildcardAssumption == Wildcard \in Services
ASSUME HeldAssumption ==
    /\ Held \in Seq(Slots)
    /\ \A i, j \in 1 .. Len(Held) : Held[i] = Held[j] => i = j
ASSUME BoundAssumption == MaxCalls \in Nat /\ MaxFaults \in Nat

VARIABLES
    file,       \* the index file: "whole", "empty" (truncated) or "garbled"
    index,      \* what it holds when it is whole: slot -> UUID
    secrets,    \* the keyring: UUID -> credentials
    minted,     \* the UUIDs made so far, 1 .. Len(minted), with the slot each was made for
    pc,         \* process -> where it is in its call
    call,       \* process -> the call
    view,       \* process -> the index as it read and then changed it
    todo,       \* process -> DeleteAllSessions: the UUIDs it still has to delete
    failed,     \* process -> DeleteAllSessions: a deletion has failed
    answer,     \* process -> what its last call returned
    calls, faults,
    overlapped, \* history: two calls have been in progress at once
    closed      \* history: account -> a session with a smaller number is logged out

stored == <<file, index, secrets, minted>>
local  == <<pc, call, view, todo, failed, answer>>
vars   == <<stored, local, calls, faults, overlapped, closed>>

Ops == {"load", "save", "delete", "deleteAll", "list"}

(***************************************************************************)
(* Credentials are told apart by the number of the call that saved them;   *)
(* those of earlier logins have number 0.                                  *)
(***************************************************************************)
Creds(slot, n) == [account |-> slot[1], service |-> slot[2], n |-> n]
AllCreds == [account : Accounts, service : Services, n : Nat]

UUIDs  == 1 .. Len(minted)
Blank  == [i \in {} |-> 0]                         \* the empty index
Without(f, D) == [x \in DOMAIN f \ D |-> f[x]]
With(f, x, v) == [y \in DOMAIN f \cup {x} |-> IF y = x THEN v ELSE f[y]]

NoCall    == [op |-> "idle"]
Answer(k, found, names) == [kind |-> k, found |-> found, names |-> names]
NoAnswer  == Answer("none", {}, {})
Ok(names) == Answer("ok", {}, names)
Error     == Answer("error", {}, {})
Missing   == Answer("missing", {}, {})             \* api.ErrKeyNotFound
Found(c)  == Answer("session", {c}, {})

Slot(p)     == <<call[p].account, call[p].service>>
Fallback(p) == <<call[p].account, Wildcard>>
Sessions(i, account) == {s \in DOMAIN i : s[1] = account}

\* Mutant: the wildcard is not tried.
ResolveExact(p, i) == Slot(p)

(***************************************************************************)
(* The entry of index i that Load uses: the exact service, else "*".       *)
(***************************************************************************)
Resolve(p, i) == IF Slot(p) \in DOMAIN i THEN Slot(p) ELSE Fallback(p)

-----------------------------------------------------------------------------
Init ==
    /\ file = "whole"
    /\ index = [s \in {Held[i] : i \in 1 .. Len(Held)} |->
                    CHOOSE i \in 1 .. Len(Held) : Held[i] = s]
    /\ minted = Held
    /\ secrets = [u \in 1 .. Len(Held) |-> Creds(Held[u], 0)]
    /\ pc = [p \in Procs |-> "idle"]
    /\ call = [p \in Procs |-> NoCall]
    /\ view = [p \in Procs |-> Blank]
    /\ todo = [p \in Procs |-> {}]
    /\ failed = [p \in Procs |-> FALSE]
    /\ answer = [p \in Procs |-> NoAnswer]
    /\ calls = 0
    /\ faults = 0
    /\ overlapped = FALSE
    /\ closed = [a \in Accounts |-> 0]

(***************************************************************************)
(* A failure that the bound still allows.                                  *)
(***************************************************************************)
Fault == faults < MaxFaults /\ faults' = faults + 1

(***************************************************************************)
(* The call of p is over: p forgets what it was doing.                     *)
(***************************************************************************)
End(p, a) ==
    /\ pc' = [pc EXCEPT ![p] = "idle"]
    /\ call' = [call EXCEPT ![p] = NoCall]
    /\ view' = [view EXCEPT ![p] = Blank]
    /\ todo' = [todo EXCEPT ![p] = {}]
    /\ failed' = [failed EXCEPT ![p] = FALSE]
    /\ answer' = [answer EXCEPT ![p] = a]

(***************************************************************************)
(* p goes on to step l of its call with v as its copy of the index.        *)
(***************************************************************************)
GoOn(p, l, v) ==
    /\ pc' = [pc EXCEPT ![p] = l]
    /\ view' = [view EXCEPT ![p] = v]
    /\ UNCHANGED <<call, answer>>

Calls == [op : Ops, account : Accounts, service : Services]

Begin(p, c) ==
    /\ pc[p] = "idle"
    /\ calls < MaxCalls
    /\ calls' = calls + 1
    /\ overlapped' = (overlapped \/ \E q \in Procs : pc[q] # "idle")
    /\ pc' = [pc EXCEPT ![p] = "read"]
    /\ call' = [call EXCEPT ![p] =
                  [op |-> c.op, account |-> c.account, service |-> c.service,
                   creds |-> Creds(<<c.account, c.service>>, calls')]]
    /\ answer' = [answer EXCEPT ![p] = NoAnswer]
    /\ UNCHANGED <<stored, view, todo, failed, faults, closed>>

-----------------------------------------------------------------------------
(***************************************************************************)
(* readIndex, and what each operation does before its keyring call.  A     *)
(* file that is not valid JSON fails every operation.                      *)
(***************************************************************************)
ReadBroken(p) ==
    /\ pc[p] = "read"
    /\ file # "whole"
    /\ End(p, Error)
    /\ UNCHANGED <<stored, calls, faults, overlapped, closed>>

ReadList(p) ==
    /\ call[p].op = "list"
    /\ End(p, Ok({s[1] : s \in DOMAIN index}))
    /\ UNCHANGED <<minted, closed>>

ReadLoad(p) ==
    /\ call[p].op = "load"
    /\ IF Resolve(p, index) \in DOMAIN index
       THEN GoOn(p, "get", index) /\ UNCHANGED <<todo, failed>>
       ELSE End(p, Missing)
    /\ UNCHANGED <<minted, closed>>

\* Mutant: Save looks the UUID up as Load does, and so reuses the wildcard's.
ReadSaveOverWildcard(p) ==
    LET slot == Resolve(p, index) IN
    /\ call[p].op = "save"
    /\ IF slot \in DOMAIN index
       THEN GoOn(p, "set", With(index, Slot(p), index[slot])) /\ UNCHANGED minted
       ELSE /\ minted' = Append(minted, Slot(p))
            /\ GoOn(p, "set", With(index, Slot(p), Len(minted) + 1))
    /\ UNCHANGED <<todo, failed, closed>>

ReadSave(p) ==
    /\ call[p].op = "save"
    /\ IF Slot(p) \in DOMAIN index
       THEN GoOn(p, "set", index) /\ UNCHANGED minted
       ELSE /\ minted' = Append(minted, Slot(p))
            /\ GoOn(p, "set", With(index, Slot(p), Len(minted) + 1))
    /\ UNCHANGED <<todo, failed, closed>>

ReadDelete(p) ==
    /\ call[p].op = "delete"
    /\ IF Slot(p) \in DOMAIN index
       THEN GoOn(p, "forget", index) /\ UNCHANGED <<todo, failed>>
       ELSE End(p, Ok({}))
    /\ UNCHANGED <<minted, closed>>

(***************************************************************************)
(* closed records that a logout of the account has succeeded.              *)
(***************************************************************************)
Close(a) == closed' = [closed EXCEPT ![a] = calls + 1]

ReadDeleteAll(p) ==
    LET own == Sessions(index, call[p].account) IN
    /\ call[p].op = "deleteAll"
    /\ IF own # {}
       THEN /\ todo' = [todo EXCEPT ![p] = {index[s] : s \in own}]
            /\ GoOn(p, "forget", index)
            /\ UNCHANGED <<failed, closed>>
       ELSE End(p, Ok({})) /\ Close(call[p].account)
    /\ UNCHANGED minted

Read(p) ==
    /\ pc[p] = "read"
    /\ file = "whole"
    /\ ReadList(p) \/ ReadLoad(p) \/ ReadSave(p) \/ ReadDelete(p) \/ ReadDeleteAll(p)
    /\ UNCHANGED <<file, index, secrets, calls, faults, overlapped>>
-----------------------------------------------------------------------------
(***************************************************************************)
(* The keyring calls.  Load takes any failure of Get for a stale mapping   *)
(* and drops it from its copy of the index.                                *)
(***************************************************************************)
Get(p) ==
    LET slot == Resolve(p, view[p])
        u    == view[p][slot]
    IN  /\ pc[p] = "get"
        /\ \/ u \in DOMAIN secrets /\ End(p, Found(secrets[u])) /\ UNCHANGED faults
           \/ /\ \/ u \notin DOMAIN secrets /\ UNCHANGED faults
                 \/ u \in DOMAIN secrets /\ Fault
              /\ GoOn(p, "truncate", Without(view[p], {slot}))
              /\ UNCHANGED <<todo, failed>>
        /\ UNCHANGED <<stored, calls, overlapped, closed>>

Set(p) ==
    /\ pc[p] = "set"
    /\ \/ /\ secrets' = With(secrets, view[p][Slot(p)], call[p].creds)
          /\ GoOn(p, "truncate", view[p])
          /\ UNCHANGED <<todo, failed, faults>>
       \/ Fault /\ End(p, Error) /\ UNCHANGED secrets
    /\ UNCHANGED <<file, index, minted, calls, overlapped, closed>>

(***************************************************************************)
(* Delete gives up when the keyring refuses, a missing secret included.    *)
(***************************************************************************)
Forget(p) ==
    LET u == view[p][Slot(p)] IN
    /\ pc[p] = "forget"
    /\ call[p].op = "delete"
    /\ \/ /\ u \in DOMAIN secrets
          /\ secrets' = Without(secrets, {u})
          /\ GoOn(p, "truncate", Without(view[p], {Slot(p)}))
          /\ UNCHANGED <<todo, failed, faults>>
       \/ /\ \/ u \notin DOMAIN secrets /\ UNCHANGED faults
             \/ u \in DOMAIN secrets /\ Fault
          /\ End(p, Error)
          /\ UNCHANGED secrets
    /\ UNCHANGED <<file, index, minted, calls, overlapped, closed>>

\* Mutant: the sessions whose secret could not be deleted stay in the index.
SweptIfDeleted(p) ==
    Without(view[p], {s \in Sessions(view[p], call[p].account) :
                         view[p][s] \notin DOMAIN secrets'})

(***************************************************************************)
(* DeleteAllSessions goes on when the keyring refuses, and drops the whole *)
(* account from the index in the end.                                      *)
(***************************************************************************)
Swept(p) == Without(view[p], Sessions(view[p], call[p].account))

Sweep(p) ==
    /\ pc[p] = "forget"
    /\ call[p].op = "deleteAll"
    /\ \E u \in todo[p] :
         /\ todo' = [todo EXCEPT ![p] = @ \ {u}]
         /\ \/ /\ u \in DOMAIN secrets
               /\ secrets' = Without(secrets, {u})
               /\ UNCHANGED <<failed, faults>>
            \/ /\ \/ u \notin DOMAIN secrets /\ UNCHANGED faults
                  \/ u \in DOMAIN secrets /\ Fault
               /\ failed' = [failed EXCEPT ![p] = TRUE]
               /\ UNCHANGED secrets
    /\ IF todo'[p] = {} THEN GoOn(p, "truncate", Swept(p))
                        ELSE UNCHANGED <<pc, call, view, answer>>
    /\ UNCHANGED <<file, index, minted, calls, overlapped, closed>>
-----------------------------------------------------------------------------
(***************************************************************************)
(* writeIndex: os.WriteFile truncates the file and then writes it.  A      *)
(* write that finds what another process has written since lies over it,   *)
(* and what comes out is either this index or no JSON at all.  Load says   *)
(* ErrKeyNotFound whatever becomes of the write.                           *)
(***************************************************************************)
Done(p) == CASE call[p].op = "load" -> Missing
             [] call[p].op # "load" /\ failed[p] -> Error
             [] OTHER               -> Ok({})

Undone(p) == IF call[p].op = "load" THEN Missing ELSE Error

Truncate(p) ==
    /\ pc[p] = "truncate"
    /\ \/ /\ file' = "empty"
          /\ GoOn(p, "write", view[p])
          /\ UNCHANGED <<todo, failed, faults>>
       \/ Fault /\ End(p, Undone(p)) /\ UNCHANGED file
    /\ UNCHANGED <<index, secrets, minted, calls, overlapped, closed>>

Written == IF file = "empty" THEN {"whole"} ELSE {"whole", "garbled"}

Write(p) ==
    /\ pc[p] = "write"
    /\ \/ /\ file' \in Written
          /\ index' = view[p]
          /\ End(p, Done(p))
          /\ IF call[p].op = "deleteAll" THEN Close(call[p].account) ELSE UNCHANGED closed
          /\ UNCHANGED faults
       \/ /\ Fault
          /\ file' = "garbled"
          /\ End(p, Undone(p))
          /\ UNCHANGED <<index, closed>>
    /\ UNCHANGED <<secrets, minted, calls, overlapped>>

(***************************************************************************)
(* The process dies in the middle of a call.                               *)
(***************************************************************************)
Crash(p) ==
    /\ pc[p] # "idle"
    /\ Fault
    /\ End(p, NoAnswer)
    /\ UNCHANGED <<stored, calls, overlapped, closed>>

Step(p) == \/ ReadBroken(p) \/ Read(p)
           \/ Get(p) \/ Set(p) \/ Forget(p) \/ Sweep(p)
           \/ Truncate(p) \/ Write(p) \/ Crash(p)

Next == \E p \in Procs : Step(p) \/ \E c \in Calls : Begin(p, c)

Spec == Init /\ [][Next]_vars
-----------------------------------------------------------------------------
(***************************************************************************)
(* i maps slots to UUIDs.                                                  *)
(***************************************************************************)
Indexes(i) == DOMAIN i \subseteq Slots /\ \A s \in DOMAIN i : i[s] \in UUIDs

ActiveCalls == [op : Ops, account : Accounts, service : Services, creds : AllCreds]
Answers == [kind : {"none", "ok", "error", "missing", "session"},
            found : SUBSET AllCreds, names : SUBSET Accounts]

StoredOK ==
    /\ file \in {"whole", "empty", "garbled"}
    /\ minted \in Seq(Slots)
    /\ Indexes(index)
    /\ DOMAIN secrets \subseteq UUIDs
    /\ \A u \in DOMAIN secrets : secrets[u] \in AllCreds

Labels == {"idle", "read", "get", "set", "forget", "truncate", "write"}

LocalOK ==
    /\ pc \in [Procs -> Labels]
    /\ call \in [Procs -> ActiveCalls \cup {NoCall}]
    /\ \A p \in Procs : pc[p] = "idle" <=> call[p] = NoCall
    /\ DOMAIN view = Procs /\ \A p \in Procs : Indexes(view[p])
    /\ todo \in [Procs -> SUBSET UUIDs]
    /\ failed \in [Procs -> BOOLEAN]
    /\ answer \in [Procs -> Answers]

TypeOK ==
    /\ StoredOK
    /\ LocalOK
    /\ calls \in 0 .. MaxCalls /\ faults \in 0 .. MaxFaults
    /\ overlapped \in BOOLEAN
    /\ closed \in [Accounts -> Nat]

(***************************************************************************)
(* Whatever overlaps, fails or dies, a load returns credentials that were  *)
(* saved for the account it asked for, and for the service it asked for or *)
(* the wildcard: a session never gets another session's tokens.            *)
(***************************************************************************)
Fits(p, c) == c.account = call[p].account /\ c.service \in {call[p].service, Wildcard}

OwnCredentials ==
    [][\A p \in Procs : pc[p] # "idle" /\ pc'[p] = "idle" =>
           \A c \in answer'[p].found : Fits(p, c)]_vars

(***************************************************************************)
(* As long as calls do not overlap: once DeleteAllSessions has written the *)
(* index, no load returns a session of the account that was saved before,  *)
(* even when the keyring refused to delete its secret, and even after      *)
(* processes that died.                                                    *)
(***************************************************************************)
LogoutStands ==
    [][\A p \in Procs : pc[p] # "idle" /\ pc'[p] = "idle" /\ ~overlapped =>
           \A c \in answer'[p].found : c.n >= closed[c.account]]_vars

(***************************************************************************)
(* As long as calls do not overlap and nothing fails, the file and the     *)
(* keyring together are the map the callers see.                           *)
(***************************************************************************)
Writers == {p \in Procs : pc[p] = "write"}
Content == IF file = "whole" \/ Writers = {} THEN index
                                             ELSE view[CHOOSE p \in Writers : TRUE]
NoCreds == [service |-> "none"]                    \* no record of AllCreds

Map == INSTANCE SessionMap WITH
    None <- NoCreds,
    calm <- ~overlapped /\ faults = 0,
    map  <- [s \in Slots |->
               IF s \in DOMAIN Content /\ Content[s] \in DOMAIN secrets
               THEN secrets[Content[s]] ELSE NoCreds]

IsAMap == Map!Spec

(***************************************************************************)
(* As long as calls do not overlap, a load takes a mapping out of the      *)
(* index only when the keyring has no secret for it.                       *)
(***************************************************************************)
OnlyStaleCleaned ==
    [][\A p \in Procs : call[p].op = "load" /\ ~overlapped =>
           \A s \in DOMAIN index \ DOMAIN index' : index[s] \notin DOMAIN secrets]_vars
=============================================================================
