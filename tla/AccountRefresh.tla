---------------------------- MODULE AccountRefresh ----------------------------
(***************************************************************************)
(* How the processes of one user share the account's rotating credential:  *)
(* RefreshAccountLocked (api/account/refresh_account.go) under the flock   *)
(* of refresh_lock.go, its callers (the refresh loop of proton-fuse and    *)
(* RestoreServiceSession of every program), and the refreshes that bypass  *)
(* the lock: the 401 path of the bearer client (auth_handler.go), that of  *)
(* the cookie client (RoundTrip of cookie_transport.go), which stores its  *)
(* cookies twice, and the refresh of old cookies in CookieSessionRestore.  *)
(*                                                                         *)
(* The server accepts one rotating credential at a time and replaces it on *)
(* every refresh. Credentials are numbered in that order; 0 is none. A     *)
(* program that starts makes the calls of one RestoreServiceSession.       *)
(***************************************************************************)
EXTENDS Naturals

CONSTANTS
  Daemon,     \* proton-fuse processes
  App,        \* other programs
  Free,       \* the holder of a lock nobody holds
  Settings,   \* environments: [cookie, locking, direct]
  MaxEvents,  \* bound: times the credential gets old or expires
  MaxStarts,  \* bound: starts of programs
  MaxFaults   \* bound: failed requests, lost answers, refused saves, deaths

Process == Daemon \cup App
ASSUME ProcessAssumption == Daemon \cap App = {} /\ Free \notin Process
(* cookie: the account was logged in with cookie authentication; locking:  *)
(* $XDG_RUNTIME_DIR is set and flock works; direct: a restore may have to  *)
(* refresh before it takes the lock.                                       *)
ASSUME SettingsAssumption ==
  Settings \subseteq [cookie : BOOLEAN, locking : BOOLEAN, direct : BOOLEAN]
ASSUME BoundAssumption == {MaxEvents, MaxStarts, MaxFaults} \subseteq Nat

VARIABLES
  env,      \* the setting of this behaviour
  stored,   \* the session stores: [tok |-> rotating credential, due |-> LastRefresh is old]
  live,     \* server: the credential it accepts
  expired,  \* server: access with the present credential is answered with 401
  undone,   \* history: a second save has put an older credential over a newer one
  lock,     \* who holds the flock
  pc,
  started,  \* startedWith: the credential of the configuration a process loaded
  wasDue,   \* that configuration was due for a refresh
  held,     \* the credential its requests use
  cur,      \* RefreshAccountLocked: the reloaded, then the rotated credential
  retried,  \* forkWithRefreshRetry has refreshed
  latched,  \* the accountDeauthed of a daemon
  outcome,
  events, starts, faults

server == <<live, expired>>
local == <<started, wasDue, held, cur, retried>>
vars == <<env, stored, server, undone, lock, pc, local, latched, outcome, events, starts, faults>>

Cookie == env.cookie
Locking == env.locking
Direct == env.direct

Store == {"account", "cookie"}
(* Where the rotating credential is kept: CookieLoginSave leaves no cookie *)
(* in the account store.                                                   *)
Home == IF Cookie THEN "cookie" ELSE "account"
(* The store a process hands to RefreshAccountLocked.                      *)
RefreshStore(p) == IF p \in Daemon THEN "account" ELSE Home

PC == {"idle", "check", "direct", "dsave", "again", "retry", "fork", "push", "cred",
       "lock", "reload", "refresh", "save"}
Record == [tok : Nat, due : BOOLEAN]
TypeOK ==
  /\ env \in Settings
  /\ stored \in [Store -> Record]
  /\ live \in Nat \ {0} /\ expired \in BOOLEAN /\ undone \in BOOLEAN
  /\ lock \in Process \cup {Free}
  /\ pc \in [Process -> PC]
  /\ started \in [Process -> Nat] /\ held \in [Process -> Nat] /\ cur \in [Process -> Nat]
  /\ wasDue \in [Process -> BOOLEAN] /\ retried \in [Process -> BOOLEAN]
  /\ latched \in [Process -> BOOLEAN]
  /\ outcome \in [Process -> {"none", "ok", "failed", "deauthed"}]
  /\ events \in 0..MaxEvents /\ starts \in 0..MaxStarts /\ faults \in 0..MaxFaults

Init ==
  /\ env \in Settings
  /\ stored = [s \in Store |-> [tok |-> IF s = Home THEN 1 ELSE 0, due |-> FALSE]]
  /\ live = 1 /\ expired = FALSE /\ undone = FALSE
  /\ lock = Free
  /\ pc = [p \in Process |-> "idle"]
  /\ started = [p \in Process |-> 0] /\ held = [p \in Process |-> 0]
  /\ cur = [p \in Process |-> 0]
  /\ wasDue = [p \in Process |-> FALSE] /\ retried = [p \in Process |-> FALSE]
  /\ latched = [p \in Process |-> FALSE]
  /\ outcome = [p \in Process |-> "none"]
  /\ events = 0 /\ starts = 0 /\ faults = 0

Goto(p, l) == pc' = [pc EXCEPT ![p] = l]
Same == UNCHANGED <<stored, server, undone, lock>>
Calls == UNCHANGED <<events, starts>>
Bounds == Calls /\ UNCHANGED faults
Fault == faults < MaxFaults /\ faults' = faults + 1
Finish(p, result) ==
  /\ Goto(p, "idle")
  /\ outcome' = [outcome EXCEPT ![p] = result]
  /\ latched' = [latched EXCEPT ![p] = @ \/ (p \in Daemon /\ result = "deauthed")]
Go(p, l) == Goto(p, l) /\ UNCHANGED <<outcome, latched>>
-----------------------------------------------------------------------------
(* Time passes: one hour makes a credential due, a day expires it.         *)
GetsOld ==
  /\ events < MaxEvents /\ events' = events + 1
  /\ stored' = [s \in Store |-> [stored[s] EXCEPT !.due = TRUE]]
  /\ UNCHANGED <<server, undone, lock, pc, local, latched, outcome, starts, faults>>
Expires ==
  /\ events < MaxEvents /\ events' = events + 1
  /\ expired' = TRUE
  /\ UNCHANGED <<stored, live, undone, lock, pc, local, latched, outcome, starts, faults>>

(* The server's answer to a refresh with credential tok.                   *)
Rotates(tok) == tok = live /\ live' = live + 1 /\ expired' = FALSE
Rejects(tok) == tok # live /\ tok # 0

-----------------------------------------------------------------------------
(* refreshAccountToken: every tick of the refresh loop, unless it latched. *)
Tick(d) ==
  /\ pc[d] = "idle" /\ ~latched[d]
  /\ stored["account"].due
  /\ started' = [started EXCEPT ![d] = stored["account"].tok]
  /\ Go(d, "lock")
  /\ UNCHANGED env
  /\ Same /\ Bounds /\ UNCHANGED <<wasDue, held, cur, retried>>

(* RestoreServiceSession loads the configuration.                          *)
Start(a) ==
  /\ pc[a] = "idle" /\ starts < MaxStarts /\ starts' = starts + 1
  /\ started' = [started EXCEPT ![a] = stored[Home].tok]
  /\ held' = [held EXCEPT ![a] = stored[Home].tok]
  /\ wasDue' = [wasDue EXCEPT ![a] = stored[Home].due]
  /\ retried' = [retried EXCEPT ![a] = FALSE]
  /\ outcome' = [outcome EXCEPT ![a] = "none"]
  /\ Goto(a, "check")
  /\ Same /\ UNCHANGED <<cur, latched, events, faults>>

(* The requests before the fork: GetUser of a bearer account, GetUser and  *)
(* GetAddresses of a cookie account, which the account cache may answer    *)
(* instead. proactiveRefresh follows for a bearer account.                 *)
AfterCheck(a) == IF ~Cookie /\ wasDue[a] THEN "lock" ELSE "fork"
Passes(a) ==
  /\ pc[a] = "check"
  /\ Direct => IF Cookie THEN ~wasDue[a] ELSE ~expired
  /\ Go(a, AfterCheck(a))
  /\ Same /\ Bounds /\ UNCHANGED local

(* Old cookies are refreshed before any request; a request answered with   *)
(* 401 makes the client refresh at once. Neither takes the lock.           *)
OldCookies(a) == Cookie /\ wasDue[a]
Unauthorized(a) ==
  /\ pc[a] = "check" /\ Direct
  /\ OldCookies(a) \/ expired \/ held[a] # live
  /\ Go(a, "direct")
  /\ Same /\ Bounds /\ UNCHANGED local
(* Only the bearer client takes a rejection for a deauthentication.        *)
Rejected == IF Cookie THEN "failed" ELSE "deauthed"
DirectRefresh(a) ==
  /\ pc[a] = "direct"
  /\ \/ /\ Rotates(held[a])
        /\ held' = [held EXCEPT ![a] = live + 1]
        /\ Go(a, "dsave") /\ UNCHANGED faults
     \/ Rotates(held[a]) /\ Fault /\ Finish(a, "failed") /\ UNCHANGED held
     \/ Rejects(held[a]) /\ Finish(a, Rejected) /\ UNCHANGED <<server, held, faults>>
     \/ Fault /\ Finish(a, "failed") /\ UNCHANGED <<server, held>>
  /\ Calls /\ UNCHANGED <<stored, undone, lock, started, wasDue, cur, retried>>

(* The auth handler, the cookie restore or RefreshCookies stores the new   *)
(* credential; an error of the store is logged and the program goes on:    *)
(* to its requests, to the retry of the refused one, or (RoundTrip) to     *)
(* persistCookieRefresh.                                                   *)
Stores(a) == stored' = [stored EXCEPT ![Home] = [tok |-> held[a], due |-> FALSE]]
AfterSave(a) == IF OldCookies(a) THEN "check" ELSE IF Cookie THEN "again" ELSE "retry"
DirectSave(a) ==
  /\ pc[a] = "dsave"
  /\ (Stores(a) /\ UNCHANGED faults) \/ (Fault /\ UNCHANGED stored)
  /\ wasDue' = [wasDue EXCEPT ![a] = @ /\ ~Cookie]
  /\ Go(a, AfterSave(a))
  /\ Calls /\ UNCHANGED <<server, undone, lock, started, held, cur, retried>>

(* persistCookieRefresh stores the cookies of the jar once more, whatever  *)
(* the store holds by now: a peer may have rotated them since.             *)
Overtaken(a) == pc[a] = "again" /\ held[a] < stored[Home].tok
SaveAgain(a) ==
  /\ pc[a] = "again"
  /\ \/ Stores(a) /\ undone' = (undone \/ Overtaken(a)) /\ UNCHANGED faults
     \/ Fault /\ UNCHANGED <<stored, undone>>
  /\ Go(a, "retry")
  /\ Calls /\ UNCHANGED <<server, lock, local>>

(* The refused request is made once more.                                  *)
Retry(a) ==
  /\ pc[a] = "retry"
  /\ \/ ~expired /\ Go(a, IF Cookie THEN "check" ELSE AfterCheck(a))
     \/ (expired \/ held[a] # live) /\ Finish(a, "failed")
  /\ Same /\ Bounds /\ UNCHANGED local

-----------------------------------------------------------------------------
(* The service session is fresh, or the fork begins; a cookie fork loads   *)
(* the cookies it uses.                                                    *)
Fork(a) ==
  /\ pc[a] = "fork"
  /\ \/ Finish(a, "ok") /\ UNCHANGED held
     \/ /\ Go(a, "push")
        /\ held' = [held EXCEPT ![a] = IF Cookie THEN stored["cookie"].tok ELSE @]
  /\ Same /\ Bounds /\ UNCHANGED <<started, wasDue, cur, retried>>

(* forkOnce: the push is accepted, or refused with 401 the first or the    *)
(* second time. An older credential may still be accepted.                 *)
Push(a) ==
  /\ pc[a] = "push"
  /\ \/ ~expired /\ Finish(a, "ok")
     \/ /\ expired \/ held[a] # live
        /\ IF retried[a] THEN Finish(a, "failed") ELSE Go(a, "cred")
  /\ Same /\ Bounds /\ UNCHANGED local

(* refreshCred: the bearer credential is the one of the loaded             *)
(* configuration, the cookie one is read from the store again.             *)
Cred(a) == started' = [started EXCEPT ![a] = IF Cookie THEN stored["cookie"].tok ELSE @]
RefreshCred(a) ==
  /\ pc[a] = "cred"
  /\ Cred(a)
  /\ retried' = [retried EXCEPT ![a] = TRUE]
  /\ Go(a, "lock")
  /\ Same /\ Bounds /\ UNCHANGED <<wasDue, held, cur>>

-----------------------------------------------------------------------------
(* RefreshAccountLocked. Without a lock it proceeds uncoordinated.         *)
Acquires(p) == IF Locking THEN lock = Free /\ lock' = p ELSE UNCHANGED lock
Acquire(p) ==
  /\ pc[p] = "lock"
  /\ Acquires(p)
  /\ Go(p, "reload")
  /\ UNCHANGED env
  /\ Bounds /\ UNCHANGED <<stored, server, undone, local>>
ReleaseForgotten(p) == UNCHANGED lock
Release(p) == lock' = IF lock = p THEN Free ELSE lock

(* It returned credentials: a fork is tried, for the second time with the  *)
(* new credential; proactiveRefresh throws them away.                      *)
Returns(p, tok) ==
  /\ Release(p)
  /\ IF p \in Daemon THEN Finish(p, "ok") /\ UNCHANGED held
     ELSE IF retried[p]
     THEN /\ Go(p, "push")
          /\ held' = [held EXCEPT ![p] = tok]
     ELSE Go(p, "fork") /\ UNCHANGED held

(* The store is read again under the lock: a peer may have refreshed.      *)
AdoptsNever(p) == FALSE
LatestIsStarted(p) == started[p]
Latest(p) == stored[RefreshStore(p)].tok
Adopts(p) == Latest(p) # started[p]
Reload(p) ==
  /\ pc[p] = "reload"
  /\ cur' = [cur EXCEPT ![p] = Latest(p)]
  /\ IF Adopts(p) THEN Returns(p, Latest(p))
     ELSE Go(p, "refresh") /\ UNCHANGED <<lock, held>>
  /\ Bounds /\ UNCHANGED <<stored, server, undone, started, wasDue, retried>>

(* NewClientWithRefresh or RefreshCookies: the credential rotates, or      *)
(* rotates and the answer is lost, or is rejected, or the request fails.   *)
Refresh(p) ==
  /\ pc[p] = "refresh"
  /\ \/ /\ Rotates(cur[p])
        /\ cur' = [cur EXCEPT ![p] = live + 1]
        /\ Go(p, "save") /\ UNCHANGED <<lock, faults>>
     \/ Rotates(cur[p]) /\ Fault /\ Finish(p, "failed") /\ Release(p) /\ UNCHANGED cur
     \/ /\ Rejects(cur[p]) /\ Finish(p, "deauthed")
        /\ Release(p) /\ UNCHANGED <<server, cur, faults>>
     \/ /\ (cur[p] = 0 /\ UNCHANGED faults) \/ Fault
        /\ Finish(p, "failed")
        /\ Release(p) /\ UNCHANGED <<server, cur>>
  /\ Calls /\ UNCHANGED <<stored, undone, started, wasDue, held, retried>>

(* The rotated credential is stored, with a fresh LastRefresh.             *)
RefreshedFromSession(p) == [tok |-> held[p], due |-> FALSE]
Refreshed(p) == [tok |-> cur[p], due |-> FALSE]
Save(p) ==
  /\ pc[p] = "save"
  /\ \/ /\ stored' = [stored EXCEPT ![RefreshStore(p)] = Refreshed(p)]
        /\ Returns(p, cur[p]) /\ UNCHANGED faults
     \/ Fault /\ Finish(p, "failed") /\ Release(p) /\ UNCHANGED <<stored, held>>
  /\ Calls /\ UNCHANGED <<server, undone, started, wasDue, cur, retried>>

(* A process dies: the kernel drops its lock, a daemon starts over.        *)
DropsLockNot(p) == UNCHANGED lock
DropsLock(p) == lock' = IF lock = p THEN Free ELSE lock
Crash(p) ==
  /\ pc[p] # "idle" /\ Fault
  /\ Goto(p, "idle")
  /\ outcome' = [outcome EXCEPT ![p] = "none"]
  /\ latched' = [latched EXCEPT ![p] = FALSE]
  /\ DropsLock(p)
  /\ Calls /\ UNCHANGED <<stored, server, undone, local>>

-----------------------------------------------------------------------------
RestoreStep(a) ==
  \/ Passes(a) \/ Unauthorized(a) \/ DirectRefresh(a) \/ DirectSave(a) \/ SaveAgain(a) \/ Retry(a)
  \/ Fork(a) \/ Push(a) \/ RefreshCred(a)
LockedStep(p) == Acquire(p) \/ Reload(p) \/ Refresh(p) \/ Save(p)
Step(p) == (LockedStep(p) \/ (p \in App /\ RestoreStep(p))) /\ UNCHANGED env

Next ==
  /\ \/ GetsOld \/ Expires
     \/ \E d \in Daemon : Tick(d)
     \/ \E a \in App : Start(a)
     \/ \E p \in Process : Step(p) \/ Crash(p)
  /\ UNCHANGED env

(* A call that was made goes on, the requests have timeouts; a flock that  *)
(* is released again and again is granted in the end; the ticker ticks.    *)
Fairness ==
  /\ \A p \in Process : WF_vars(Step(p)) /\ SF_vars(Acquire(p))
  /\ \A d \in Daemon : WF_vars(Tick(d))
SafetySpec == Init /\ [][Next]_vars
Spec == SafetySpec /\ Fairness

-----------------------------------------------------------------------------
(* Properties.                                                             *)

(* The account is not lost by the programs themselves: unless a process    *)
(* died, an answer was lost or a save was refused, or a second save of old *)
(* cookies has undone a peer's, the credential the server accepts is in    *)
(* the store, or in the hands of a process that is about to store it.      *)
Saving(p) ==
  \/ pc[p] = "save" /\ RefreshStore(p) = Home /\ cur[p] = live
  \/ pc[p] \in {"dsave", "again"} /\ held[p] = live
Recoverable == stored[Home].tok = live \/ \E p \in Process : Saving(p)
AccountNotLost == faults = 0 /\ ~undone => Recoverable

(* The same without the excuse: not so for cookies, whose refresh on a 401 *)
(* is stored twice (cookie_transport.go:109).                              *)
OneSaveIsEnough == faults = 0 => Recoverable

(* Nobody is told to log in again, and no daemon gives up refreshing,      *)
(* while the account could be used: when every refresh takes the lock,     *)
(* ErrAccountDeauthed is reported only when the credential the server      *)
(* accepts is gone.                                                        *)
Coordinated == Locking /\ ~Direct
Honest ==
  \A p \in Process :
    outcome'[p] = "deauthed" /\ outcome[p] # "deauthed" => ~Recoverable
NoFalseDeauth == [][Coordinated => Honest]_vars

(* "Cold-starting several apps at once cannot de-auth each other"          *)
(* (session_ops.go:287): the same wherever the lock works.                 *)
ColdStartIsSafe == [][Locking => Honest]_vars

(* The programs of a bearer account refresh together: the credential       *)
(* rotates once each time it got old or expired, however many of them      *)
(* start.                                                                  *)
OneRotationPerEvent == Coordinated /\ ~Cookie => live <= events + 1

(* A stored credential is replaced by an older one in one way only: by the *)
(* second save of a 401 refresh of cookies that a peer has overtaken.      *)
StoreNeverGoesBack ==
  [][\A s \in Store :
       stored'[s].tok < stored[s].tok => \E a \in App : Overtaken(a) /\ SaveAgain(a)]_vars

(* Every restore and every tick ends, whoever crashes with the lock.       *)
CallsReturn == \A p \in Process : pc[p] # "idle" ~> pc[p] = "idle"

(* The daemon of a bearer account keeps the shared credential fresh,       *)
(* unless the account is lost.                                             *)
DaemonKeepsFresh ==
  stored[Home].due /\ ~Cookie /\ Coordinated ~> ~stored[Home].due \/ ~Recoverable
=============================================================================
