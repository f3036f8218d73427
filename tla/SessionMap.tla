----------------------------- MODULE SessionMap -----------------------------
(***************************************************************************)
(* What the session store promises its callers: a map from (account,       *)
(* service) to the credentials saved for it, used through calls.  A call   *)
(* may change only the entries it is about, and what it answers has to     *)
(* agree with the map at the moment it returns.                            *)
(*                                                                         *)
(* The promise is for calls that come one at a time and meet no failure:   *)
(* once calm is FALSE nothing is promised any more.                        *)
(***************************************************************************)
CONSTANTS
    Procs,      \* the callers: a program, or one of its goroutines
    Slots,      \* the pairs <<account, service>>
    Wildcard,   \* the service whose session stands in for any other
    None        \* no credentials

VARIABLES
    map,        \* slot -> credentials or None
    call,       \* caller -> the call it is in, [op |-> "idle", ...] outside of one
    answer,     \* caller -> what its last call returned
    calm        \* no two calls have overlapped and nothing has failed so far

vars == <<map, call, answer, calm>>

Mine(c) == {s \in Slots : s[1] = c.account}
Slot(c) == <<c.account, c.service>>
Fallback(c) == <<c.account, Wildcard>>

(***************************************************************************)
(* What call c may do to the map m, a slot at a time.                      *)
(***************************************************************************)
Effect(c, m) ==
    CASE c.op = "save"      -> {[m EXCEPT ![Slot(c)] = c.creds]}
      [] c.op = "delete"    -> {[m EXCEPT ![Slot(c)] = None]}
      [] c.op = "deleteAll" -> {[m EXCEPT ![s] = None] : s \in Mine(c)}
      [] OTHER              -> {}

(***************************************************************************)
(* Whether call c may return answer a when the map is m.  An exact session *)
(* hides the wildcard one; the accounts listed are those with a session.   *)
(***************************************************************************)
Agrees(c, a, m) ==
    CASE c.op = "load" ->
            IF m[Slot(c)] # None
            THEN a.found = {m[Slot(c)]}
            ELSE IF m[Fallback(c)] # None
                 THEN a.found = {m[Fallback(c)]}
                 ELSE a.kind = "missing"
      [] c.op = "save"      -> a.kind = "ok" /\ m[Slot(c)] = c.creds
      [] c.op = "delete"    -> a.kind = "ok" /\ m[Slot(c)] = None
      [] c.op = "deleteAll" -> a.kind = "ok" /\ \A s \in Mine(c) : m[s] = None
      [] c.op = "list"      -> /\ a.kind = "ok"
                               /\ a.names = {s[1] : s \in {t \in Slots : m[t] # None}}

Invoke(p) ==
    /\ \A q \in Procs : call[q].op = "idle"
    /\ call' = [call EXCEPT ![p] = call'[p]]
    /\ call'[p].op # "idle"
    /\ UNCHANGED map

Work(p) ==
    /\ call[p].op # "idle"
    /\ map' \in Effect(call[p], map)
    /\ UNCHANGED call

Return(p) ==
    /\ call[p].op # "idle"
    /\ map' \in Effect(call[p], map) \cup {map}
    /\ call' = [call EXCEPT ![p] = call'[p]]
    /\ call'[p].op = "idle"
    /\ Agrees(call[p], answer'[p], map')

Init ==
    /\ DOMAIN map = Slots
    /\ \A p \in Procs : call[p].op = "idle"
    /\ calm = TRUE

Next == \/ calm' /\ \E p \in Procs : Invoke(p) \/ Work(p) \/ Return(p)
        \/ ~calm'

Spec == Init /\ [][Next]_vars
=============================================================================
