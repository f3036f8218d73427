-------------------------------- MODULE Login --------------------------------
(***************************************************************************)
(* The life of the sessions of one account name: `proton account login`    *)
(* (bearer and --cookie-session), `proton account logout`, and the         *)
(* RestoreServiceSession of every other program, which reuses the saved    *)
(* session of its service or forks a new one from the account's.           *)
(*                                                                         *)
(* The programs share one session file with a slot for the account, one    *)
(* for its cookies and one per service, and read and write the slots one   *)
(* at a time. The server knows sessions by their UID; here UIDs are        *)
(* numbers and a session is dead, or takes bearer tokens, or cookies. How  *)
(* the tokens of a living session rotate is AccountRefresh's subject: here *)
(* a rotation matters for the slot it writes and for its time stamp.       *)
(***************************************************************************)
EXTENDS Naturals, FiniteSets

CONSTANTS
  Proc,         \* programs that may run at a time
  Service,      \* services sessions are forked for
  User,         \* people that log in
  Nobody,       \* the user of an anonymous session, the keys of no user
  None,         \* an empty slot, no session
  Worlds,       \* how behaviours start: [user, cookie, legacy]
  MaxSessions,  \* bound: sessions the server hands out
  MaxTime,      \* bound: stamps the clock gives
  MaxCommands,  \* bound: commands that are run
  MaxRotations, \* bound: tokens that expire in a program's hands
  MaxMishaps    \* bound: failed requests, refused saves, deaths, revocations

ASSUME ServiceAssumption == Service # {} /\ Service \cap {"account", "cookie", ""} = {}
ASSUME UserAssumption == Nobody \notin User /\ None \notin User
(* user: who is logged in (None: nobody); cookie: with cookie              *)
(* authentication; legacy: each service has a session saved by a version   *)
(* that kept no service name.                                              *)
ASSUME WorldAssumption ==
  Worlds \subseteq [user : User \cup {None}, cookie : BOOLEAN, legacy : BOOLEAN]
ASSUME LoginBoundAssumption ==
  /\ {MaxSessions, MaxTime, MaxCommands, MaxRotations, MaxMishaps} \subseteq Nat
  /\ MaxSessions > 0

VARIABLES
  slot,     \* the session file
  session,  \* server: the sessions it handed out
  now,      \* the clock: time of the last stamp
  doing, cmd,  \* what each program does
  acct,     \* acctConfig of a restore
  svc,      \* svcConfig of a restore that reuses the service's session
  mine,     \* the session a program uses, 0 for none
  key,      \* whose keys the program's key password opens
  answer,   \* how the last command of a program ended
  holder,   \* [user, uid, cookie] of the last login that was saved whole
  epoch,    \* logins and logouts that took effect
  since,    \* the epoch in which each program began
  late,     \* slots with what a program wrote that is not Current
  excused,  \* programs hit by a fault, or that read such a slot
  commands, rotations, mishaps

remote == <<session, now>>
file == <<slot, late>>
own == <<cmd, acct, svc, mine, key, since>>
ghost == <<holder, epoch, excused>>
count == <<commands, rotations, mishaps>>
loginVars == <<slot, session, now, doing, own, answer, holder, epoch, late, excused, count>>

Slot == {"account", "cookie"} \cup Service
UID == 1..MaxSessions

(* The SessionCredentials of a slot. auth is the session its tokens or     *)
(* cookies belong to, bearer whether there are tokens.                     *)
Credentials ==
  [uid : UID, auth : UID, bearer : BOOLEAN, key : User \cup {Nobody}, cookieAuth : BOOLEAN,
   service : Service \cup {""}, at : 0..MaxTime]
ASSUME NoneAssumption == None \notin Credentials
Command ==
  [op : {"login"}, user : User, cookie : BOOLEAN, service : {""}, force : {FALSE}]
    \cup [op : {"use"}, user : {Nobody}, cookie : {FALSE}, service : Service, force : {FALSE}]
    \cup [op : {"logout"}, user : {Nobody}, cookie : {FALSE}, service : {""}, force : BOOLEAN]
Doing == {"idle", "anon", "srp", "captcha", "retry", "twofa", "derive", "drop", "save", "bind",
          "load", "getuser", "renew", "service", "restore", "push", "cpush", "creload", "transit",
          "keep", "tag", "unlock", "running", "forked", "revoke", "forget", "purge"}

LoginTypeOK ==
  /\ slot \in [Slot -> Credentials \cup {None}]
  /\ session \in [UID -> [user : User \cup {Nobody}, parent : 0..MaxSessions,
                          mode : {"unborn", "bearer", "cookie", "dead"}]]
  /\ now \in 0..MaxTime
  /\ doing \in [Proc -> Doing]
  /\ cmd \in [Proc -> Command]
  /\ acct \in [Proc -> Credentials \cup {None}]
  /\ svc \in [Proc -> Credentials \cup {None}]
  /\ mine \in [Proc -> 0..MaxSessions]
  /\ key \in [Proc -> User \cup {Nobody}]
  /\ answer \in [Proc -> {"none", "ok", "error", "not logged in"}]
  /\ holder \in [user : User, uid : UID, cookie : BOOLEAN] \cup {None}
  /\ epoch \in Nat /\ since \in [Proc -> Nat] /\ late \subseteq Slot
  /\ excused \subseteq Proc
  /\ commands \in 0..MaxCommands /\ rotations \in 0..MaxRotations /\ mishaps \in 0..MaxMishaps
------------------------------------------------------------------------------
(* The server *)

Born == {u \in UID : session[u].mode # "unborn"}
CanCreate == Born # UID
Fresh == CHOOSE u \in UID : u \notin Born
Create(user, parent) ==
  session' = [session EXCEPT ![Fresh] = [user |-> user, parent |-> parent, mode |-> "bearer"]]
(* POST /core/v4/auth/cookies kills the bearer tokens of the session.      *)
ToCookies(u) == session' = [session EXCEPT ![u].mode = "cookie"]
(* Ending a session ends its forks (Independent: 0).                       *)
Ended(S, u) ==
  LET below == {v \in UID : S[v].parent = u /\ S[v].mode # "unborn"}
      deep == below \cup {v \in UID : S[v].parent \in below}
  IN [v \in UID |-> IF v = u \/ v \in deep THEN [S[v] EXCEPT !.mode = "dead"] ELSE S[v]]
Alive(u) == u # 0 /\ session[u].mode \in {"bearer", "cookie"}
------------------------------------------------------------------------------
(* The session file *)

(* A program that began after the last login or logout took effect and was *)
(* not misled by one that began before it.                                 *)
Current(p) == since[p] = epoch /\ p \notin excused
Write(p, s, c) ==
  /\ slot' = [slot EXCEPT ![s] = c]
  /\ late' = IF Current(p) THEN late \ {s} ELSE late \cup {s}
(* A write of what was just read, with some of it replaced; it may put the *)
(* cookies of one session beside the UID of another.                       *)
Update(p, s, c) ==
  /\ slot' = [slot EXCEPT ![s] = c]
  /\ late' = IF Current(p) /\ c.auth = c.uid THEN late ELSE late \cup {s}
Reads(p, s) == excused' = IF s \in late THEN excused \cup {p} ELSE excused

Stamp == now + 1
CanStamp == now < MaxTime
TakeStamp == now' = Stamp

(* SessionSave of session u, held as bearer tokens or as cookies.          *)
Saved(u, bearer, k) ==
  [uid |-> u, auth |-> u, bearer |-> bearer, key |-> k, cookieAuth |-> FALSE,
   service |-> "", at |-> Stamp]

IsStaleNever(account, service) == FALSE
(* IsStale: the account was refreshed after the service's session.         *)
IsStale(account, service) == account.at > service.at

shouldFork(c, a, s) == c = None \/ c.service # s \/ IsStale(a, c)
------------------------------------------------------------------------------
LoginInit ==
  /\ now = 0
  /\ \E w \in Worlds :
       LET c == [Saved(1, ~w.cookie, w.user) EXCEPT !.cookieAuth = w.cookie, !.at = 0]
           old == [c EXCEPT !.cookieAuth = FALSE, !.bearer = TRUE]
       IN /\ slot = [s \in Slot |->
               IF w.user = None THEN None
               ELSE CASE s = "account" -> c
                      [] s = "cookie" -> IF w.cookie THEN c ELSE None
                      [] OTHER -> IF w.legacy THEN old ELSE None]
          /\ session = [u \in UID |->
               IF u = 1 /\ w.user # None
               THEN [user |-> w.user, parent |-> 0, mode |-> IF w.cookie THEN "cookie" ELSE "bearer"]
               ELSE [user |-> Nobody, parent |-> 0, mode |-> "unborn"]]
          /\ holder = IF w.user = None THEN None ELSE [user |-> w.user, uid |-> 1, cookie |-> w.cookie]
  /\ doing = [p \in Proc |-> "idle"]
  /\ cmd = [p \in Proc |-> CHOOSE d \in Command : d.op = "use"]
  /\ acct = [p \in Proc |-> None]
  /\ svc = [p \in Proc |-> None]
  /\ mine = [p \in Proc |-> 0]
  /\ key = [p \in Proc |-> Nobody]
  /\ answer = [p \in Proc |-> "none"]
  /\ epoch = 0 /\ since = [p \in Proc |-> 0] /\ late = {}
  /\ excused = {}
  /\ commands = 0 /\ rotations = 0 /\ mishaps = 0

MoveTo(p, l) == doing' = [doing EXCEPT ![p] = l]
(* A command returns; what it held is gone with it.                        *)
Ends(p, a) ==
  /\ MoveTo(p, "idle")
  /\ answer' = [answer EXCEPT ![p] = a]
  /\ acct' = [acct EXCEPT ![p] = None]
  /\ svc' = [svc EXCEPT ![p] = None]
  /\ mine' = [mine EXCEPT ![p] = 0]
  /\ key' = [key EXCEPT ![p] = Nobody]
  /\ UNCHANGED <<cmd, since>>
Goes(p, l) == MoveTo(p, l) /\ UNCHANGED <<own, answer>>
Holds(p, l, u) == MoveTo(p, l) /\ mine' = [mine EXCEPT ![p] = u] /\ UNCHANGED <<cmd, acct, svc, key, since, answer>>

(* One person logs in and out, in one place at a time; other programs run  *)
(* beside it.                                                              *)
Begin(p, c) ==
  /\ doing[p] = "idle" /\ commands < MaxCommands
  /\ c.op # "use" => \A q \in Proc : doing[q] # "idle" => cmd[q].op = "use"
  /\ commands' = commands + 1
  /\ cmd' = [cmd EXCEPT ![p] = c]
  /\ since' = [since EXCEPT ![p] = epoch]
  /\ answer' = [answer EXCEPT ![p] = "none"]
  /\ excused' = excused \ {p}
  /\ MoveTo(p, CASE c.op = "login" -> IF c.cookie THEN "anon" ELSE "srp"
               [] c.op = "use" -> "load"
               [] OTHER -> "restore")
  /\ UNCHANGED <<remote, file, acct, svc, mine, key, holder, epoch, rotations, mishaps>>
------------------------------------------------------------------------------
(* login *)

(* CreateAnonSession, then TransitionToCookies of the session it got.      *)
Anon(p) ==
  /\ doing[p] = "anon" /\ CanCreate
  /\ Create(Nobody, 0)
  /\ Holds(p, "bind", Fresh)
  /\ UNCHANGED <<now, file, ghost, count>>
Bind(p) ==
  /\ doing[p] = "bind"
  /\ IF Alive(mine[p]) THEN ToCookies(mine[p]) /\ Goes(p, "srp")
     ELSE Ends(p, "error") /\ UNCHANGED session
  /\ UNCHANGED <<now, file, ghost, count>>

(* The server asks for a CAPTCHA: the user solves it, in a browser or by   *)
(* hand, and the same attempt is made once more.                           *)
AsksForCaptcha(p) ==
  /\ doing[p] = "srp"
  /\ Goes(p, "captcha")
  /\ UNCHANGED <<remote, file, ghost, count>>
SolveCaptcha(p) ==
  /\ doing[p] = "captcha"
  /\ Goes(p, "retry")
  /\ UNCHANGED <<remote, file, ghost, count>>
(* The password opens a bearer session, or gives the anonymous one its     *)
(* user.                                                                   *)
Authenticates(p) ==
  /\ doing[p] \in {"srp", "retry"}
  /\ \/ /\ ~cmd[p].cookie /\ CanCreate
        /\ Create(cmd[p].user, 0)
        /\ Holds(p, "twofa", Fresh)
     \/ /\ cmd[p].cookie /\ Alive(mine[p])
        /\ session' = [session EXCEPT ![mine[p]].user = cmd[p].user]
        /\ Goes(p, "twofa")
     \/ /\ cmd[p].cookie /\ ~Alive(mine[p])
        /\ Ends(p, "error")
        /\ UNCHANGED session
  /\ UNCHANGED <<now, file, ghost, count>>
SecondFactor(p) ==
  /\ doing[p] = "twofa"
  /\ IF Alive(mine[p]) THEN Goes(p, "derive") ELSE Ends(p, "error")
  /\ UNCHANGED <<remote, file, ghost, count>>

(* The salts of the keys, and the key password they give.                  *)
Derive(p) ==
  /\ doing[p] = "derive"
  /\ IF Alive(mine[p])
     THEN /\ MoveTo(p, "drop")
          /\ key' = [key EXCEPT ![p] = cmd[p].user]
          /\ UNCHANGED <<cmd, acct, svc, mine, since, answer>>
     ELSE Ends(p, "error")
  /\ UNCHANGED <<remote, file, ghost, count>>

(* The first of two writes: a bearer login deletes the cookies, a cookie   *)
(* login saves its own. The account gets the stamp of the cookies: a fork  *)
(* that another program saves between the two looks newer than the login.  *)
CookieCredentials(p) == [Saved(mine[p], FALSE, key[p]) EXCEPT !.cookieAuth = TRUE]
FirstWrite(p) ==
  /\ doing[p] = "drop"
  /\ holder' = None
  /\ IF cmd[p].cookie
     THEN CanStamp /\ TakeStamp /\ Write(p, "cookie", CookieCredentials(p))
          /\ acct' = [acct EXCEPT ![p] = CookieCredentials(p)]
     ELSE Write(p, "cookie", None) /\ UNCHANGED <<now, acct>>
  /\ MoveTo(p, "save")
  /\ UNCHANGED <<session, cmd, svc, mine, key, since, answer, epoch, excused, count>>
BearerAccountOnly(p) == Saved(mine[p], TRUE, key[p])
AccountCredentials(p) == IF cmd[p].cookie THEN acct[p] ELSE BearerAccountOnly(p)
SaveAccount(p) ==
  /\ doing[p] = "save" /\ CanStamp
  /\ TakeStamp
  /\ slot' = [slot EXCEPT !["account"] = AccountCredentials(p)]
  /\ epoch' = epoch + 1
  /\ late' = {s \in Slot \ {"account"} : slot[s] # None /\ slot[s].at > AccountCredentials(p).at}
  /\ holder' = [user |-> cmd[p].user, uid |-> mine[p], cookie |-> cmd[p].cookie]
  /\ Ends(p, "ok")
  /\ UNCHANGED <<session, excused, count>>
------------------------------------------------------------------------------
(* RestoreServiceSession *)

Load(p) ==
  /\ doing[p] = "load"
  /\ Reads(p, "account")
  /\ LET a == slot["account"] IN
       IF a = None THEN Ends(p, "not logged in")
       ELSE /\ acct' = [acct EXCEPT ![p] = a]
            /\ MoveTo(p, IF a.cookieAuth THEN "service" ELSE "getuser")
            /\ UNCHANGED <<cmd, svc, mine, key, since, answer>>
  /\ UNCHANGED <<remote, file, holder, epoch, count>>

Accepted(c, mode) ==
  c.bearer = (mode = "bearer") /\ c.auth = c.uid /\ session[c.uid].mode = mode
(* SessionFromCredentials of the account: one request with its tokens.     *)
GetUser(p) ==
  /\ doing[p] = "getuser"
  /\ IF Accepted(acct[p], "bearer") THEN Holds(p, "renew", acct[p].uid) ELSE Ends(p, "error")
  /\ UNCHANGED <<remote, file, ghost, count>>

(* RefreshAccountLocked on slot s with the credential of c in hand: taken  *)
(* as it is when the slot holds another one, else renewed.                 *)
RefreshAccount(p, s, c) ==
  /\ CanStamp /\ rotations < MaxRotations
  /\ rotations' = rotations + 1
  /\ IF slot[s] # None /\ slot[s].auth = c.auth
     THEN TakeStamp /\ Update(p, s, [slot[s] EXCEPT !.at = Stamp])
     ELSE UNCHANGED <<now, file>>
Refreshable(s, c) ==
  /\ slot[s] # None
  /\ slot[s].auth = c.auth => Accepted(slot[s], IF slot[s].bearer THEN "bearer" ELSE "cookie")
(* proactiveRefresh: not due, or due and done, or due and refused. The     *)
(* configuration in hand keeps its old stamp.                              *)
Renew(p) ==
  /\ doing[p] = "renew"
  /\ \/ Goes(p, "service") /\ UNCHANGED <<now, file, rotations, excused>>
     \/ /\ Reads(p, "account")
        /\ IF Refreshable("account", acct[p])
           THEN RefreshAccount(p, "account", acct[p]) /\ Goes(p, "service")
           ELSE Ends(p, "error") /\ UNCHANGED <<now, file, rotations>>
  /\ UNCHANGED <<session, holder, epoch, commands, mishaps>>

ServiceStep(p) ==
  /\ doing[p] = "service"
  /\ LET s == cmd[p].service
         fork == shouldFork(slot[s], acct[p], s)
     IN /\ IF fork THEN UNCHANGED excused ELSE Reads(p, s)
        /\ svc' = [svc EXCEPT ![p] = IF fork THEN None ELSE slot[s]]
        /\ MoveTo(p, IF ~fork THEN "restore"
                     ELSE IF acct[p].cookieAuth THEN "creload" ELSE "push")
  /\ UNCHANGED <<remote, file, cmd, acct, mine, key, since, answer, holder, epoch, count>>

(* The program runs with its session until it stops: restored from the     *)
(* slot, or forked just now.                                               *)
Up == {"running", "forked"}
Runs(p, l, u, k) ==
  /\ MoveTo(p, l)
  /\ mine' = [mine EXCEPT ![p] = u]
  /\ key' = [key EXCEPT ![p] = k]
  /\ answer' = [answer EXCEPT ![p] = "ok"]
  /\ UNCHANGED <<cmd, acct, svc, since>>
(* restoreExistingService: its tokens must pass and its key password fit.  *)
RestoreBearer(p) ==
  /\ doing[p] = "restore" /\ cmd[p].op = "use" /\ ~acct[p].cookieAuth
  /\ IF Accepted(svc[p], "bearer") /\ svc[p].key = session[svc[p].uid].user
     THEN Runs(p, "running", svc[p].uid, svc[p].key)
     ELSE Ends(p, "error")
  /\ UNCHANGED <<remote, file, ghost, count>>
(* restoreExistingCookieService: cookies that are old are refreshed first; *)
(* user and addresses are those cached for the account's UID, or fetched.  *)
RestoreCookie(p) ==
  /\ doing[p] = "restore" /\ cmd[p].op = "use" /\ acct[p].cookieAuth
  /\ LET c == svc[p]
         passes == Accepted(c, "cookie") /\ acct[p].key = session[c.uid].user
     IN \/ /\ passes
           /\ CanStamp /\ rotations < MaxRotations
           /\ rotations' = rotations + 1
           /\ TakeStamp /\ Write(p, cmd[p].service, [c EXCEPT !.at = Stamp])
           /\ Runs(p, "running", c.uid, acct[p].key)
        \/ /\ passes \/ acct[p].key = session[acct[p].uid].user
           /\ Runs(p, "running", c.uid, acct[p].key)
           /\ UNCHANGED <<now, file, rotations>>
        \/ /\ ~passes
           /\ Ends(p, "error")
           /\ UNCHANGED <<now, file, rotations>>
  /\ UNCHANGED <<session, ghost, commands, mishaps>>

(* ForkSessionWithKeyPass: a child of the account's session. When the push *)
(* is refused the account is refreshed, or another's refresh adopted, and  *)
(* the push made once more.                                                *)
Forks(p, l, u) ==
  /\ CanCreate
  /\ Create(session[u].user, u)
  /\ Holds(p, l, Fresh)
PushFork(p) ==
  /\ doing[p] = "push"
  /\ \/ /\ session[mine[p]].mode = "bearer"
        /\ Forks(p, "keep", mine[p])
        /\ UNCHANGED <<now, file, rotations, excused>>
     \/ /\ Refreshable("account", acct[p])
        /\ Reads(p, "account")
        /\ RefreshAccount(p, "account", acct[p])
        /\ mine[p] = acct[p].uid
        /\ Holds(p, "push", slot["account"].uid)
        /\ UNCHANGED session
     \/ /\ session[mine[p]].mode # "bearer"
        /\ Refreshable("account", acct[p]) => mine[p] # acct[p].uid
        /\ Reads(p, "account")
        /\ Ends(p, "error")
        /\ UNCHANGED <<remote, file, rotations>>
  /\ UNCHANGED <<holder, epoch, commands, mishaps>>

(* CookieSessionRestore, for a restore and for a logout.                   *)
CookieSessionRestore(p, a, l) ==
  LET c == slot["cookie"] IN
    \/ /\ c = None
       /\ IF cmd[p].op = "use" THEN Ends(p, "not logged in") ELSE Goes(p, l)
       /\ UNCHANGED <<now, file, rotations>>
    \/ /\ c # None /\ Accepted(c, "cookie") /\ a.key = session[c.uid].user
       /\ CanStamp /\ rotations < MaxRotations
       /\ rotations' = rotations + 1
       /\ TakeStamp /\ Update(p, "cookie", [c EXCEPT !.at = Stamp])
       /\ Holds(p, l, c.uid)
    \/ /\ c # None /\ a.key = session[c.uid].user
       /\ Holds(p, l, c.uid)
       /\ UNCHANGED <<now, file, rotations>>
    \/ /\ c # None /\ (~Accepted(c, "cookie") \/ a.key # session[c.uid].user)
       /\ IF cmd[p].force THEN Goes(p, l) ELSE Ends(p, "error")
       /\ UNCHANGED <<now, file, rotations>>
CookieReload(p) ==
  /\ doing[p] = "creload"
  /\ Reads(p, "cookie")
  /\ CookieSessionRestore(p, acct[p], "cpush")
  /\ UNCHANGED <<session, holder, epoch, commands, mishaps>>

CookiesUsable(p) == slot["cookie"] # None /\ ~IsStale(acct[p], slot["cookie"])
(* loadOrCreateCookieSession: when the cookies are gone by now, those of   *)
(* the session in hand are saved, without a key password.                  *)
CookieCreate(p) ==
  /\ doing[p] = "cpush" /\ CanStamp
  /\ ~CookiesUsable(p)
  /\ IF session[mine[p]].mode = "cookie"
     THEN TakeStamp /\ Write(p, "cookie", Saved(mine[p], FALSE, Nobody)) /\ Goes(p, "cpush")
     ELSE Ends(p, "error") /\ UNCHANGED <<now, file>>
  /\ UNCHANGED <<session, ghost, count>>
(* CookieFork: the child gets bearer tokens and is turned to cookies.      *)
CookiePush(p) ==
  /\ doing[p] = "cpush"
  /\ CookiesUsable(p)
  /\ LET c == slot["cookie"] IN
       IF Accepted(c, "cookie") THEN Forks(p, "transit", c.uid)
       ELSE Ends(p, "error") /\ UNCHANGED session
  /\ Reads(p, "cookie")
  /\ UNCHANGED <<now, file, holder, epoch, count>>
ChildToCookies(p) ==
  /\ doing[p] = "transit"
  /\ IF Alive(mine[p]) THEN ToCookies(mine[p]) /\ Goes(p, "keep")
     ELSE Ends(p, "error") /\ UNCHANGED session
  /\ UNCHANGED <<now, file, ghost, count>>

(* forkUnlockAndSave: the child is saved, then its slot is read again and  *)
(* saved with the name of the service, then its keys are opened.           *)
Keep(p) ==
  /\ doing[p] = "keep" /\ CanStamp
  /\ IF Alive(mine[p])
     THEN /\ TakeStamp
          /\ Write(p, cmd[p].service,
               Saved(mine[p], session[mine[p]].mode = "bearer", acct[p].key))
          /\ Goes(p, "tag")
     ELSE Ends(p, "error") /\ UNCHANGED <<now, file>>
  /\ UNCHANGED <<session, ghost, count>>
Tag(p) ==
  /\ doing[p] = "tag"
  /\ LET s == cmd[p].service IN
       IF slot[s] = None THEN UNCHANGED file
       ELSE Update(p, s, [slot[s] EXCEPT !.service = s, !.cookieAuth = ~acct[p].bearer])
  /\ Goes(p, "unlock")
  /\ UNCHANGED <<remote, ghost, count>>
Unlock(p) ==
  /\ doing[p] = "unlock"
  /\ IF Alive(mine[p]) /\ acct[p].key = session[mine[p]].user
     THEN Runs(p, "forked", mine[p], acct[p].key)
     ELSE Ends(p, "error")
  /\ UNCHANGED <<remote, file, ghost, count>>

(* The tokens of a running program expire: what the rotation writes into   *)
(* whatever the slot holds by now. NewAuthHandler writes tokens and UID,   *)
(* persistCookieRefresh cookies only. A fork's own cookies are not rotated.*)
Rotated(c, u, bearer) ==
  IF bearer THEN [c EXCEPT !.uid = u, !.auth = u, !.bearer = TRUE, !.at = Stamp]
  ELSE [c EXCEPT !.auth = u, !.bearer = FALSE, !.at = Stamp]
Rotate(p) ==
  /\ rotations < MaxRotations /\ CanStamp
  /\ \/ doing[p] \in Up /\ session[mine[p]].mode = "bearer"
     \/ doing[p] = "running" /\ session[mine[p]].mode = "cookie"
  /\ slot[cmd[p].service] # None
  /\ rotations' = rotations + 1
  /\ TakeStamp
  /\ Update(p, cmd[p].service,
       Rotated(slot[cmd[p].service], mine[p], session[mine[p]].mode = "bearer"))
  /\ Goes(p, doing[p])
  /\ UNCHANGED <<session, ghost, commands, mishaps>>
(* The account's session, too, while a restore has it.                     *)
RotateAccount(p) ==
  /\ rotations < MaxRotations /\ CanStamp
  /\ doing[p] \in {"renew", "service", "push"} /\ mine[p] # 0 /\ session[mine[p]].mode = "bearer"
  /\ slot["account"] # None
  /\ rotations' = rotations + 1
  /\ TakeStamp
  /\ Update(p, "account", Rotated(slot["account"], mine[p], TRUE))
  /\ Goes(p, doing[p])
  /\ UNCHANGED <<session, ghost, commands, mishaps>>
Stop(p) ==
  /\ doing[p] \in Up
  /\ Ends(p, answer[p])
  /\ UNCHANGED <<remote, file, ghost, count>>
------------------------------------------------------------------------------
(* logout *)

LogoutRestore(p) ==
  /\ doing[p] = "restore" /\ cmd[p].op = "logout"
  /\ IF slot["account"] # None /\ slot["account"].cookieAuth
     THEN Reads(p, "cookie") ELSE Reads(p, "account")
  /\ LET a == slot["account"] IN
       IF a # None /\ a.cookieAuth THEN CookieSessionRestore(p, a, "revoke")
       ELSE /\ IF a = None THEN Goes(p, "revoke")
               ELSE IF Accepted(a, "bearer") /\ a.key = session[a.uid].user
               THEN Holds(p, "revoke", a.uid)
               ELSE IF cmd[p].force THEN Goes(p, "revoke") ELSE Ends(p, "error")
            /\ UNCHANGED <<now, file, rotations>>
  /\ UNCHANGED <<session, holder, epoch, commands, mishaps>>

(* SessionRevoke: nothing to end, or ended with its forks, or a failure    *)
(* that stops the logout unless it is forced.                              *)
Revokes(p) ==
  IF mine[p] = 0 \/ Alive(mine[p]) \/ cmd[p].force THEN Goes(p, "forget") ELSE Ends(p, "error")
SessionRevoke(p) ==
  /\ doing[p] = "revoke"
  /\ epoch' = epoch + 1
  /\ session' = IF Alive(mine[p]) THEN Ended(session, mine[p]) ELSE session
  /\ Revokes(p)
  /\ holder' = IF cmd[p].force \/ p \in excused THEN None ELSE holder
  /\ UNCHANGED <<now, file, excused, count>>
Forget(p) ==
  /\ doing[p] = "forget"
  /\ Write(p, "cookie", None)
  /\ Goes(p, "purge")
  /\ UNCHANGED <<remote, ghost, count>>
PurgedAccount == [slot EXCEPT !["account"] = None]
Purged == [s \in Slot |-> None]
DeleteAllSessions(p) ==
  /\ doing[p] = "purge"
  /\ slot' = Purged /\ late' = {}
  /\ Ends(p, "ok")
  /\ UNCHANGED <<remote, ghost, count>>
------------------------------------------------------------------------------
(* Faults *)

Mishap == mishaps < MaxMishaps /\ mishaps' = mishaps + 1
(* A request fails or the session file refuses: the command ends, except   *)
(* where the code goes on: the name of the service, the cookies a login or *)
(* a logout deletes, and a forced logout.                                  *)
OnFailure(p) ==
  CASE doing[p] = "tag" -> "unlock"
    [] doing[p] = "drop" /\ ~cmd[p].cookie -> "save"
    [] doing[p] = "forget" -> "purge"
    [] doing[p] = "revoke" /\ cmd[p].force -> "forget"
    [] OTHER -> "idle"
Fails(p) ==
  /\ Mishap
  /\ doing[p] \notin Up \cup {"idle"}
  /\ excused' = excused \cup {p}
  /\ IF OnFailure(p) # "idle" THEN Goes(p, OnFailure(p)) ELSE Ends(p, IF doing[p] = "purge" THEN "ok" ELSE "error")
  /\ holder' = IF doing[p] = "drop" \/ (doing[p] = "revoke" /\ cmd[p].force) THEN None ELSE holder
  /\ epoch' = IF doing[p] = "revoke" THEN epoch + 1 ELSE epoch
  /\ UNCHANGED <<remote, file, commands, rotations>>
Dies(p) ==
  /\ Mishap
  /\ doing[p] # "idle"
  /\ Ends(p, "none")
  /\ UNCHANGED <<remote, file, ghost, commands, rotations>>
(* A session is ended from elsewhere: another device, the web site.        *)
EndsElsewhere(u) ==
  /\ Mishap
  /\ Alive(u)
  /\ session' = Ended(session, u)
  /\ excused' = excused \cup {p \in Proc : mine[p] # 0 /\ session'[mine[p]].mode = "dead"}
  /\ UNCHANGED <<now, file, doing, own, answer, holder, epoch, commands, rotations>>
------------------------------------------------------------------------------
Steps(p) ==
  \/ \E d \in Command : Begin(p, d)
  \/ Anon(p) \/ Bind(p) \/ AsksForCaptcha(p) \/ SolveCaptcha(p)
  \/ Authenticates(p) \/ SecondFactor(p) \/ Derive(p)
  \/ FirstWrite(p) \/ SaveAccount(p)
  \/ Load(p) \/ GetUser(p) \/ Renew(p) \/ ServiceStep(p)
  \/ RestoreBearer(p) \/ RestoreCookie(p)
  \/ PushFork(p) \/ CookieReload(p) \/ CookieCreate(p) \/ CookiePush(p) \/ ChildToCookies(p)
  \/ Keep(p) \/ Tag(p) \/ Unlock(p) \/ Rotate(p) \/ RotateAccount(p) \/ Stop(p)
  \/ LogoutRestore(p) \/ SessionRevoke(p) \/ Forget(p) \/ DeleteAllSessions(p)
  \/ Fails(p) \/ Dies(p)
LoginNext == (\E p \in Proc : Steps(p)) \/ \E u \in UID : EndsElsewhere(u)
LoginSpec == LoginInit /\ [][LoginNext]_loginVars
------------------------------------------------------------------------------
(* A login that was saved whole and whose session still lives.             *)
LoggedIn == holder # None /\ Alive(holder.uid)
Severed(u) == session[u].mode = "dead" /\ session[u].parent # 0 /\ Alive(session[u].parent)

(* After a login every program that starts gets a session of the person    *)
(* who logged in, whatever services were used before, by whom and in which *)
(* mode: the sessions they left are recognized as stale. Excused is a      *)
(* program that reads what one begun before the login wrote after it       *)
(* (session_ops.go:312, 336; cookie_session.go:514).                       *)
TheAccountInUse ==
  \A p \in Proc :
    (doing[p] \in Up /\ since[p] = epoch /\ p \notin excused /\ LoggedIn)
      => session[mine[p]].user = holder.user /\ key[p] = holder.user

(* After a login every program that starts gets its session, although      *)
(* earlier commands died between any two of their writes: no leftover of   *)
(* theirs stands in the way. Excused are a fault that hits the program     *)
(* itself, a slot written by a program begun before the login or with the  *)
(* cookies of one fork beside the UID of another (cookie_transport.go:135),*)
(* and a fork that was ended elsewhere while its parent lives.             *)
LoginRepairs ==
  \A p \in Proc :
    (answer[p] \in {"error", "not logged in"} /\ cmd[p].op = "use" /\ since[p] = epoch
       /\ p \notin excused /\ LoggedIn)
      => \E u \in UID : Severed(u)

(* A logout that reports success and met no fault has ended the session of *)
(* the login at the server, and left in the session file only what a       *)
(* program begun before it wrote afterwards (logout.go:56-84).             *)
LogoutIsComplete ==
  \A p \in Proc :
    (holder # None /\ cmd[p].op = "logout" /\ doing[p] = "idle" /\ answer[p] = "ok" /\ epoch = since[p] + 1
       /\ p \notin excused)
      => /\ \A s \in Slot : slot[s] # None => s \in late
         /\ ~LoggedIn

(* "refresh failed, will re-fork" (session_restore.go:211): a service      *)
(* session that died is replaced while the account's session lives.        *)
DeadForkIsReplaced ==
  \A p \in Proc :
    ~(answer[p] = "error" /\ cmd[p].op = "use" /\ since[p] = epoch /\ p \notin excused
        /\ LoggedIn)
==============================================================================
