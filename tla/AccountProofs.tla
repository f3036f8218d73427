---------------------------- MODULE AccountProofs ----------------------------
(***************************************************************************)
(* Proofs about the account's sessions, for any programs, services,        *)
(* people, bounds and failures: Login, the life of the sessions and of the *)
(* slots they are saved in, and AccountRefresh, the rotation of the        *)
(* account's credential.                                                   *)
(***************************************************************************)
EXTENDS Login, AccountRefresh, TLAPS

(***************************************************************************)
(* Login                                                                   *)
(***************************************************************************)

(***************************************************************************)
(* The steps of a command, and what it holds at each                       *)
(***************************************************************************)
Signing == {"bind", "srp", "captcha", "retry", "twofa", "derive", "drop", "save"}
Restoring == {"getuser", "renew", "service", "push", "creload", "cpush", "transit", "keep", "tag", "unlock"}
Ending == {"revoke", "forget", "purge"}

Track(p) ==
  /\ doing[p] \in Signing \cup {"anon"} => cmd[p].op = "login"
  /\ doing[p] \in {"anon", "bind"} => cmd[p].cookie
  /\ doing[p] \in Restoring \cup Up \cup {"load"} => cmd[p].op = "use"
  /\ doing[p] = "restore" => cmd[p].op \in {"use", "logout"}
  /\ doing[p] \in Ending => cmd[p].op = "logout"
  /\ doing[p] \in {"idle", "load"} => mine[p] = 0
  /\ doing[p] = "idle" => acct[p] = None
  /\ doing[p] \in Restoring \cup Up => acct[p] # None
  /\ doing[p] \in {"getuser", "renew", "push"} => ~acct[p].cookieAuth
  /\ doing[p] \in {"creload", "cpush", "transit"} => acct[p].cookieAuth
  /\ doing[p] \in {"renew", "push", "cpush", "transit", "keep", "tag", "unlock"} \cup Up => mine[p] # 0
  /\ doing[p] \in {"bind", "twofa", "derive", "drop", "save"} => mine[p] # 0
  /\ doing[p] \in {"srp", "captcha", "retry"} /\ cmd[p].cookie => mine[p] # 0
  /\ doing[p] = "service" => (acct[p].cookieAuth <=> mine[p] = 0)
  /\ doing[p] = "restore" /\ cmd[p].op = "use" => acct[p] # None /\ svc[p] # None
  /\ doing[p] = "save" /\ cmd[p].cookie => acct[p] # None
  /\ answer[p] # "none" => doing[p] \in Up \cup {"idle"}
  /\ since[p] <= epoch
  /\ doing[p] \in {"forget", "purge"} => since[p] < epoch
  /\ cmd[p].op = "logout" /\ answer[p] = "ok" => since[p] < epoch
OnTrack == \A p \in Proc : Track(p)

(* One person logs in or out at a time.                                    *)
Alone == \A p, q \in Proc :
  doing[p] # "idle" /\ doing[q] # "idle" /\ cmd[p].op # "use" /\ cmd[q].op # "use" => p = q

Local == LoginTypeOK /\ OnTrack /\ Alone

(* What a step of one program leaves to the others.                        *)
Unmoved(q) ==
  /\ doing'[q] = doing[q] /\ cmd'[q] = cmd[q] /\ acct'[q] = acct[q] /\ svc'[q] = svc[q]
  /\ mine'[q] = mine[q] /\ key'[q] = key[q] /\ since'[q] = since[q] /\ answer'[q] = answer[q]
Frame(p) == \A q \in Proc \ {p} : Unmoved(q)

LEMMA Numbers ==
  /\ MaxSessions \in Nat /\ MaxTime \in Nat /\ MaxCommands \in Nat
  /\ MaxRotations \in Nat /\ MaxMishaps \in Nat /\ MaxSessions > 0
  BY LoginBoundAssumption

LEMMA FreshUnborn ==
  ASSUME CanCreate
  PROVE  Fresh \in UID /\ session[Fresh].mode = "unborn" /\ Fresh # 0
<1>1. \E u \in UID : u \notin Born
  BY DEF CanCreate, Born
<1>2. Fresh \in UID /\ Fresh \notin Born
  BY <1>1 DEF Fresh
<1> QED BY <1>2, Numbers DEF Born, UID

(* The records that are written.                                           *)
LEMMA SavedType ==
  ASSUME LoginTypeOK, CanStamp, NEW u \in UID, NEW b \in BOOLEAN, NEW k \in User \cup {Nobody}
  PROVE  Saved(u, b, k) \in Credentials /\ [Saved(u, b, k) EXCEPT !.cookieAuth = TRUE] \in Credentials
<1>1. Stamp \in 0..MaxTime
  <2>1. now \in 0..MaxTime
    BY DEF LoginTypeOK
  <2> QED BY <2>1, Numbers DEF Stamp, CanStamp
<1>2. FALSE \in BOOLEAN /\ TRUE \in BOOLEAN /\ "" \in Service \cup {""}
  OBVIOUS
<1>3. Saved(u, b, k) \in Credentials
  BY <1>1, <1>2 DEF Saved, Credentials
<1>4. \A c \in Credentials : [c EXCEPT !.cookieAuth = TRUE] \in Credentials
  BY DEF Credentials
<1> QED BY <1>3, <1>4
LEMMA CopyType ==
  ASSUME LoginTypeOK, NEW c \in Credentials
  PROVE  /\ c.uid \in UID /\ c.auth \in UID /\ c.bearer \in BOOLEAN /\ c.key \in User \cup {Nobody}
         /\ c.cookieAuth \in BOOLEAN /\ c.at \in Nat /\ c # None
         /\ CanStamp => [c EXCEPT !.at = Stamp] \in Credentials
         /\ \A s \in Service, b \in BOOLEAN : [c EXCEPT !.service = s, !.cookieAuth = b] \in Credentials
         /\ CanStamp => \A u \in UID, b \in BOOLEAN : Rotated(c, u, b) \in Credentials
<1> USE Numbers, NoneAssumption
<1>1. c.uid \in UID /\ c.auth \in UID /\ c.bearer \in BOOLEAN /\ c.key \in User \cup {Nobody}
      /\ c.cookieAuth \in BOOLEAN /\ c.at \in Nat /\ c # None
  <2>1. c.at \in 0..MaxTime /\ c # None
    BY DEF Credentials
  <2>2. c.at \in Nat
    BY <2>1
  <2> QED BY <2>1, <2>2 DEF Credentials
<1>2. ASSUME CanStamp PROVE Stamp \in 0..MaxTime
  <2>1. now \in 0..MaxTime
    BY DEF LoginTypeOK
  <2> QED BY <1>2, <2>1 DEF Stamp, CanStamp
<1>3. CanStamp => [c EXCEPT !.at = Stamp] \in Credentials
  BY <1>2 DEF Credentials
<1>4. \A s \in Service, b \in BOOLEAN : [c EXCEPT !.service = s, !.cookieAuth = b] \in Credentials
  BY DEF Credentials
<1>5. ASSUME CanStamp, NEW u \in UID, NEW b \in BOOLEAN PROVE Rotated(c, u, b) \in Credentials
  BY <1>2, <1>5 DEF Credentials, Rotated
<1> QED BY <1>1, <1>3, <1>4, <1>5

(* Every step is a program's or that of a session ended elsewhere.         *)
LEMMA WriteType ==
  ASSUME LoginTypeOK, NEW p, NEW s \in Slot, NEW c \in Credentials \cup {None},
         Write(p, s, c) \/ Update(p, s, c)
  PROVE  slot' \in [Slot -> Credentials \cup {None}] /\ late' \subseteq Slot
  BY DEF Write, Update, LoginTypeOK
LEMMA SlotNames ==
  "account" \in Slot /\ "cookie" \in Slot /\ Service \subseteq Slot
  /\ "account" \notin Service /\ "cookie" \notin Service
  BY ServiceAssumption DEF Slot
LEMMA CommandType ==
  ASSUME NEW c \in Command
  PROVE  /\ c.op \in {"login", "use", "logout"} /\ c.cookie \in BOOLEAN /\ c.force \in BOOLEAN
         /\ c.op = "login" => c.user \in User
         /\ c.op = "use" => c.service \in Service /\ ~c.force
  BY DEF Command
LEMMA SessionType ==
  ASSUME LoginTypeOK, NEW u \in UID
  PROVE  /\ session[u].user \in User \cup {Nobody} /\ session[u].parent \in 0..MaxSessions
         /\ session[u].mode \in {"unborn", "bearer", "cookie", "dead"}
  BY DEF LoginTypeOK
LEMMA CreateType ==
  ASSUME LoginTypeOK, CanCreate, NEW n \in User \cup {Nobody}, NEW v \in 0..MaxSessions, Create(n, v)
  PROVE  session' \in [UID -> [user : User \cup {Nobody}, parent : 0..MaxSessions,
                               mode : {"unborn", "bearer", "cookie", "dead"}]]
  BY FreshUnborn DEF Create, LoginTypeOK
SessionRec ==
  [user : User \cup {Nobody}, parent : 0..MaxSessions, mode : {"unborn", "bearer", "cookie", "dead"}]
LEMMA RecordEdit ==
  ASSUME NEW r \in SessionRec
  PROVE  /\ [r EXCEPT !.mode = "cookie"] \in SessionRec
         /\ [r EXCEPT !.mode = "dead"] \in SessionRec
         /\ \A n \in User : [r EXCEPT !.user = n] \in SessionRec
  BY DEF SessionRec
LEMMA ModeType ==
  ASSUME LoginTypeOK, NEW u, ToCookies(u) \/ session' = Ended(session, u)
  PROVE  session' \in [UID -> [user : User \cup {Nobody}, parent : 0..MaxSessions,
                               mode : {"unborn", "bearer", "cookie", "dead"}]]
<1>1. session \in [UID -> SessionRec]
  BY DEF LoginTypeOK, SessionRec
<1>2. CASE ToCookies(u)
  <2>1. session' = [session EXCEPT ![u] = [session[u] EXCEPT !.mode = "cookie"]]
    BY <1>2 DEF ToCookies
  <2>2. u \in UID => [session[u] EXCEPT !.mode = "cookie"] \in SessionRec
    BY <1>1, RecordEdit
  <2>3. session' \in [UID -> SessionRec]
    BY <1>1, <2>1, <2>2
  <2> QED BY <2>3 DEF SessionRec
<1>3. CASE session' = Ended(session, u)
  <2>1. session' = [v \in UID |-> session'[v]]
    BY <1>3 DEF Ended
  <2>2. \A v \in UID : session'[v] \in {session[v], [session[v] EXCEPT !.mode = "dead"]}
    BY <1>3 DEF Ended
  <2>3. ASSUME NEW v \in UID PROVE session'[v] \in SessionRec
    <3>1. session[v] \in SessionRec
      BY <1>1
    <3>2. [session[v] EXCEPT !.mode = "dead"] \in SessionRec
      BY <3>1, RecordEdit
    <3> QED BY <2>2, <3>1, <3>2
  <2>4. session' \in [UID -> SessionRec]
    BY <2>1, <2>3
  <2> QED BY <2>4 DEF SessionRec
<1> QED BY <1>2, <1>3
LEMMA UserType ==
  ASSUME LoginTypeOK, NEW u, NEW n \in User, session' = [session EXCEPT ![u].user = n]
  PROVE  session' \in [UID -> [user : User \cup {Nobody}, parent : 0..MaxSessions,
                               mode : {"unborn", "bearer", "cookie", "dead"}]]
<1>1. session \in [UID -> SessionRec]
  BY DEF LoginTypeOK, SessionRec
<1>2. session' = [session EXCEPT ![u] = [session[u] EXCEPT !.user = n]]
  OBVIOUS
<1>3. u \in UID => [session[u] EXCEPT !.user = n] \in SessionRec
  BY <1>1, RecordEdit
<1>4. session' \in [UID -> SessionRec]
  BY <1>1, <1>2, <1>3
<1> QED BY <1>4 DEF SessionRec

(***************************************************************************)
(* What a program holds after each kind of step                            *)
(***************************************************************************)
OwnType ==
  /\ doing \in [Proc -> Doing] /\ cmd \in [Proc -> Command]
  /\ acct \in [Proc -> Credentials \cup {None}] /\ svc \in [Proc -> Credentials \cup {None}]
  /\ mine \in [Proc -> 0..MaxSessions] /\ key \in [Proc -> User \cup {Nobody}]
  /\ answer \in [Proc -> {"none", "ok", "error", "not logged in"}] /\ since \in [Proc -> Nat]
(* What no step but the first changes.                                     *)
SameCommand(p) == cmd'[p] = cmd[p] /\ since'[p] = since[p]
Kept(p) == SameCommand(p) /\ acct'[p] = acct[p] /\ svc'[p] = svc[p] /\ mine'[p] = mine[p] /\ key'[p] = key[p]
At(p, l) == doing'[p] = l

LEMMA Zero == 0 \in 0..MaxSessions /\ UID \subseteq 0..MaxSessions /\ 0 \notin UID
<1> SUFFICES ASSUME MaxSessions \in Nat
             PROVE  0 \in 0..MaxSessions /\ UID \subseteq 0..MaxSessions /\ 0 \notin UID
  BY Numbers
<1> QED BY DEF UID
LEMMA EndsOwn ==
  ASSUME OwnType, NEW p \in Proc, NEW a \in {"none", "ok", "error", "not logged in"}, Ends(p, a)
  PROVE  /\ OwnType' /\ Frame(p) /\ SameCommand(p) /\ At(p, "idle")
         /\ mine'[p] = 0 /\ acct'[p] = None /\ svc'[p] = None /\ key'[p] = Nobody /\ answer'[p] = a
<1>0. "idle" \in Doing
  BY DEF Doing
<1>1. doing' \in [Proc -> Doing] /\ cmd' \in [Proc -> Command] /\ since' \in [Proc -> Nat]
  BY <1>0 DEF Ends, MoveTo, OwnType
<1>2. /\ acct' \in [Proc -> Credentials \cup {None}] /\ svc' \in [Proc -> Credentials \cup {None}]
      /\ key' \in [Proc -> User \cup {Nobody}] /\ answer' \in [Proc -> {"none", "ok", "error", "not logged in"}]
  BY DEF Ends, OwnType
<1>3. mine' \in [Proc -> 0..MaxSessions]
  BY Zero DEF Ends, OwnType
<1>4. Frame(p)
  BY DEF Ends, MoveTo, Frame, Unmoved, OwnType
<1>5. SameCommand(p) /\ At(p, "idle") /\ mine'[p] = 0 /\ acct'[p] = None /\ svc'[p] = None /\ key'[p] = Nobody
      /\ answer'[p] = a
  BY DEF Ends, MoveTo, SameCommand, At, OwnType
<1> QED BY <1>1, <1>2, <1>3, <1>4, <1>5 DEF OwnType
LEMMA GoesOwn ==
  ASSUME OwnType, NEW p \in Proc, NEW l \in Doing, Goes(p, l)
  PROVE  OwnType' /\ Frame(p) /\ Kept(p) /\ At(p, l) /\ answer'[p] = answer[p]
  BY DEF Goes, MoveTo, own, OwnType, Frame, Unmoved, Kept, SameCommand, At
LEMMA HoldsOwn ==
  ASSUME OwnType, NEW p \in Proc, NEW l \in Doing, NEW u \in 0..MaxSessions, Holds(p, l, u)
  PROVE  /\ OwnType' /\ Frame(p) /\ SameCommand(p) /\ At(p, l) /\ answer'[p] = answer[p]
         /\ mine'[p] = u /\ acct'[p] = acct[p] /\ svc'[p] = svc[p] /\ key'[p] = key[p]
  BY DEF Holds, MoveTo, OwnType, Frame, Unmoved, SameCommand, At
LEMMA RunsOwn ==
  ASSUME OwnType, NEW p \in Proc, NEW l \in Up, NEW u \in 0..MaxSessions, NEW k \in User \cup {Nobody},
         Runs(p, l, u, k)
  PROVE  /\ OwnType' /\ Frame(p) /\ SameCommand(p) /\ At(p, l) /\ answer'[p] = "ok"
         /\ mine'[p] = u /\ acct'[p] = acct[p] /\ svc'[p] = svc[p] /\ key'[p] = k
<1>1. l \in Doing
  BY DEF Up, Doing
<1> QED BY <1>1 DEF Runs, MoveTo, OwnType, Frame, Unmoved, SameCommand, At

(* The steps of the others, and who is alone.                              *)
LEMMA OthersOnTrack ==
  ASSUME Local, NEW p \in Proc, Frame(p), epoch' \in {epoch, epoch + 1}, Track(p)', OwnType
  PROVE  OnTrack'
<1> SUFFICES ASSUME NEW q \in Proc, q # p PROVE Track(q)'
  BY DEF OnTrack
<1>1. Track(q) /\ since[q] \in Nat /\ epoch \in Nat
  BY DEF Local, OnTrack, OwnType, LoginTypeOK
<1>2. /\ doing'[q] = doing[q] /\ cmd'[q] = cmd[q] /\ acct'[q] = acct[q] /\ svc'[q] = svc[q]
      /\ mine'[q] = mine[q] /\ key'[q] = key[q] /\ since'[q] = since[q] /\ answer'[q] = answer[q]
  BY DEF Frame, Unmoved
<1>3. since[q] <= epoch => since[q] <= epoch'
  BY <1>1
<1>4. since[q] < epoch => since[q] < epoch'
  BY <1>1
<1> QED BY <1>1, <1>2, <1>3, <1>4 DEF Track
LEMMA StillAlone ==
  ASSUME Local, NEW p \in Proc, Frame(p), SameCommand(p), doing[p] # "idle"
  PROVE  Alone'
<1> SUFFICES ASSUME NEW q \in Proc, NEW r \in Proc, doing'[q] # "idle", doing'[r] # "idle",
                    cmd'[q].op # "use", cmd'[r].op # "use"
             PROVE  q = r
  BY DEF Alone
<1>1. \A x \in Proc : doing'[x] # "idle" => doing[x] # "idle" /\ cmd[x] = cmd'[x]
  BY DEF Frame, Unmoved, SameCommand
<1> QED BY <1>1 DEF Local, Alone

(***************************************************************************)
(* The invariant                                                           *)
(***************************************************************************)
Stamped ==
  /\ \A s \in Slot : slot[s] # None => slot[s].at <= now
  /\ \A p \in Proc : (acct[p] # None => acct[p].at <= now) /\ (svc[p] # None => svc[p].at <= now)

Unborn == \A u \in UID : session[u].mode = "unborn" => session[u].parent = 0
(* Nothing outlives the session it was forked from.                        *)
Heads(u) ==
  /\ session[u].mode # "unborn" /\ session[u].parent = 0
  /\ session[u].mode = "dead" => \A v \in UID : session[v].parent = u => session[v].mode = "dead"

(* A login in progress has a session of its own, nobody else's.            *)
LoginOf(p) ==
  /\ doing[p] \in Signing /\ mine[p] # 0 =>
       Heads(mine[p]) /\ (holder # None => mine[p] # holder.uid)
  /\ doing[p] \in Signing \ {"bind"} /\ mine[p] # 0 =>
       session[mine[p]].mode \in {"dead", IF cmd[p].cookie THEN "cookie" ELSE "bearer"}
  /\ doing[p] \in {"twofa", "derive", "drop", "save"} => session[mine[p]].user = cmd[p].user
  /\ doing[p] \in {"drop", "save"} => key[p] = cmd[p].user
  /\ doing[p] = "save" /\ cmd[p].cookie =>
       /\ acct[p].uid = mine[p] /\ acct[p].auth = mine[p] /\ acct[p].key = cmd[p].user
       /\ ~acct[p].bearer /\ acct[p].cookieAuth
       /\ slot["cookie"] # None /\ (slot["cookie"] = acct[p] \/ slot["cookie"].at > acct[p].at)
       /\ \A s \in Service : slot[s] # None => slot[s].at # acct[p].at
Logins == \A p \in Proc : LoginOf(p)

(* A fork is turned to cookies only below a session that has cookies.      *)
TurningOf(p) == doing[p] = "transit" =>
  session[mine[p]].parent # 0 /\ session[session[mine[p]].parent].mode \in {"cookie", "dead"}
Turning == \A p \in Proc : TurningOf(p)

(* What was saved last is what the server has.                             *)
Style == IF holder.cookie THEN "cookie" ELSE "bearer"
Held == holder # None =>
  /\ Heads(holder.uid)
  /\ session[holder.uid].user = holder.user /\ session[holder.uid].mode \in {"dead", Style}

(* A fork of the login, and a slot that holds one.                         *)
Child(u) == u # 0 /\ session[u].parent = holder.uid /\ session[u].user = holder.user
ChildOf(u) == Child(u) /\ session[u].mode \in {"dead", Style}
GoodCopy(c) == c.auth = c.uid /\ c.key = holder.user /\ c.bearer = ~holder.cookie /\ ChildOf(c.uid)
GoodAccount(c) ==
  /\ c.uid = holder.uid /\ c.auth = holder.uid /\ c.key = holder.user
  /\ c.cookieAuth = holder.cookie /\ (~holder.cookie => c.bearer)

AccountSlot == holder # None =>
  /\ LoggedIn => slot["account"] # None
  /\ slot["account"] # None =>
       slot["account"].key = holder.user /\ slot["account"].cookieAuth = holder.cookie
  /\ slot["account"] # None /\ "account" \notin late => GoodAccount(slot["account"])
CookieSlot == holder # None /\ holder.cookie /\ "cookie" \notin late =>
  /\ LoggedIn => slot["cookie"] # None
  /\ slot["cookie"] # None =>
       /\ slot["cookie"].uid = holder.uid /\ slot["cookie"].auth = holder.uid
       /\ ~slot["cookie"].bearer
(* A service's session at least as new as the account is one of its forks. *)
Trusted(t) == \A s \in Service :
  s \notin late /\ slot[s] # None /\ slot[s].service = s /\ slot[s].at >= t => GoodCopy(slot[s])
ServicesKept ==
  holder # None /\ "account" \notin late /\ slot["account"] # None => Trusted(slot["account"].at)

(* A program that began after the login works for it at every step.        *)
Reader(p) == Current(p) /\ cmd[p].op = "use" /\ holder # None
Severance == LoggedIn => \E u \in UID : session[u].mode = "dead" /\ session[u].parent = holder.uid
Work(p) ==
  /\ doing[p] \in {"renew", "push", "cpush"} => mine[p] = holder.uid
  /\ doing[p] = "service" => mine[p] \in {0, holder.uid}
  /\ doing[p] = "transit" => Child(mine[p]) /\ session[mine[p]].mode # "unborn"
  /\ doing[p] \in {"keep", "tag", "unlock"} \cup Up => ChildOf(mine[p])
  /\ doing[p] \in Up => key[p] = holder.user
  /\ doing[p] = "restore" => GoodCopy(svc[p])
  /\ doing[p] \in {"restore", "tag", "unlock"} \cup Up =>
       \/ cmd[p].service \in late \/ slot[cmd[p].service] = None
       \/ GoodCopy(slot[cmd[p].service])
ProgramOf(p) == Reader(p) =>
  /\ acct[p] # None => GoodAccount(acct[p]) /\ Trusted(acct[p].at)
  /\ Work(p)
  /\ answer[p] \in {"error", "not logged in"} => Severance
Programs == \A p \in Proc : ProgramOf(p)

LogoutOf(p) ==
  /\ doing[p] = "revoke" /\ p \notin excused /\ LoggedIn => mine[p] = holder.uid
  /\ doing[p] \in {"forget", "purge"} => ~LoggedIn
Logouts == \A p \in Proc : LogoutOf(p)
LoggedOut(p) ==
  (holder # None /\ cmd[p].op = "logout" /\ doing[p] = "idle" /\ answer[p] = "ok" /\ epoch = since[p] + 1
     /\ p \notin excused)
    => (\A s \in Slot : slot[s] # None => s \in late) /\ ~LoggedIn

Actors == Logins /\ Turning /\ Programs /\ Logouts /\ LogoutIsComplete
Shared == Stamped /\ Unborn /\ Held /\ AccountSlot /\ CookieSlot /\ ServicesKept
SessionsInv == Local /\ Shared /\ Actors

(***************************************************************************)
(* How sessions change                                                     *)
(***************************************************************************)
Ages ==
  /\ \A u \in UID : session[u].mode # "unborn" =>
       /\ session'[u].parent = session[u].parent /\ session'[u].mode # "unborn"
       /\ session[u].mode = "dead" => session'[u].mode = "dead"
       /\ session[u].mode = "cookie" => session'[u].mode \in {"cookie", "dead"}
       /\ session[u].parent # 0 => session'[u].user = session[u].user
  /\ \A u \in UID : Heads(u) => Heads(u)'
  /\ Unborn'
AgesHeld == holder # None =>
  /\ session'[holder.uid].user = session[holder.uid].user
  /\ session'[holder.uid].mode \in {"dead", session[holder.uid].mode}
  /\ \A u \in UID : ChildOf(u) => session'[u].mode \in {"dead", Style}
AgesFor(q) == doing[q] \in Signing /\ mine[q] # 0 =>
  /\ session'[mine[q]].user = session[mine[q]].user
  /\ session'[mine[q]].mode \in {"dead", session[mine[q]].mode}
Others(p) == \A q \in Proc \ {p} : AgesFor(q)

LEMMA AgesStay ==
  ASSUME Unborn, UNCHANGED session, NEW p
  PROVE  Ages /\ AgesHeld /\ Others(p)
<1>1. \A u \in UID : session'[u] = session[u]
  OBVIOUS
<1>2. \A u \in UID : Heads(u) => Heads(u)'
  BY DEF Heads
<1>3. Unborn'
  BY DEF Unborn
<1>4. Ages
  BY <1>2, <1>3 DEF Ages
<1>5. AgesHeld
  BY DEF AgesHeld, ChildOf
<1>6. Others(p)
  BY DEF Others, AgesFor
<1> QED BY <1>4, <1>5, <1>6

(* What the lemmas below need of a session function.                       *)
LEMMA Modes ==
  ASSUME LoginTypeOK, NEW u \in UID
  PROVE  /\ session[u].mode \in {"unborn", "bearer", "cookie", "dead"} /\ u # 0
         /\ Alive(u) => session[u].mode \in {"bearer", "cookie"}
         /\ ~Alive(u) => session[u].mode \in {"unborn", "dead"}
  BY SessionType, Zero DEF Alive
LEMMA MineBorn ==
  ASSUME SessionsInv, NEW q \in Proc, doing[q] \in Signing, mine[q] # 0
  PROVE  /\ mine[q] \in UID /\ session[mine[q]].mode # "unborn" /\ session[mine[q]].parent = 0
         /\ holder # None => mine[q] # holder.uid
<1>1. LoginOf(q)
  BY DEF SessionsInv, Actors, Logins
<1>2. mine[q] \in UID
  <2>1. mine[q] \in 0..MaxSessions
    BY DEF SessionsInv, Local, LoginTypeOK
  <2> QED BY <2>1, Numbers DEF UID
<1> QED BY <1>1, <1>2 DEF LoginOf, Heads
LEMMA HolderType ==
  ASSUME SessionsInv, holder # None
  PROVE  /\ holder.uid \in UID /\ holder.user \in User /\ holder.cookie \in BOOLEAN
         /\ Heads(holder.uid) /\ session[holder.uid].user = holder.user
         /\ session[holder.uid].mode \in {"dead", Style}
         /\ session[holder.uid].mode # "unborn" /\ session[holder.uid].parent = 0
         /\ Style \in {"cookie", "bearer"}
<1>1. holder.uid \in UID /\ holder.user \in User /\ holder.cookie \in BOOLEAN
  BY DEF SessionsInv, Local, LoginTypeOK
<1> QED BY <1>1 DEF SessionsInv, Shared, Held, Heads, Style

(* A session changes no other when it only makes a new one.                *)
LEMMA AgesCreate ==
  ASSUME SessionsInv, NEW p, CanCreate, NEW n, NEW v, Create(n, v), v = 0 \/ (v \in UID /\ Alive(v))
  PROVE  Ages /\ AgesHeld /\ Others(p)
<1>1. Fresh \in UID /\ session[Fresh].mode = "unborn"
  BY FreshUnborn
<1>2. LoginTypeOK /\ Unborn
  BY DEF SessionsInv, Local, Shared
<1>3. \A u \in UID : u # Fresh => session'[u] = session[u]
  BY <1>2 DEF Create, LoginTypeOK
<1>4. session'[Fresh].parent = v /\ session'[Fresh].mode = "bearer"
  BY <1>1, <1>2 DEF Create, LoginTypeOK
<1>5. \A u \in UID : session[u].mode # "unborn" => u # Fresh /\ session'[u] = session[u]
  BY <1>1, <1>3
<1>6. ASSUME NEW u \in UID, Heads(u) PROVE Heads(u)'
  <2>1. session'[u] = session[u]
    BY <1>5, <1>6 DEF Heads
  <2>2. ASSUME NEW w \in UID, session'[w].parent = u, session[u].mode = "dead" PROVE session'[w].mode = "dead"
    <3>1. w # Fresh
      BY <1>4, <2>2, Zero DEF Alive
    <3> QED BY <3>1, <1>3, <1>6, <2>2 DEF Heads
  <2> QED BY <2>1, <2>2, <1>6 DEF Heads
<1>7. Unborn'
  BY <1>1, <1>2, <1>3, <1>4 DEF Unborn
<1>8. Ages
  BY <1>5, <1>6, <1>7 DEF Ages
<1>9. AgesHeld
  <2> SUFFICES ASSUME holder # None PROVE AgesHeld
    BY DEF AgesHeld
  <2>1. session'[holder.uid] = session[holder.uid]
    BY HolderType, <1>5
  <2>2. ASSUME NEW u \in UID, ChildOf(u) PROVE session'[u].mode \in {"dead", Style}
    <3>1. session[u].mode \in {"dead", Style} /\ session[u].mode # "unborn"
      BY <2>2, HolderType DEF ChildOf
    <3> QED BY <3>1, <1>5
  <2> QED BY <2>1, <2>2 DEF AgesHeld
<1>10. Others(p)
  BY MineBorn, <1>5 DEF Others, AgesFor
<1> QED BY <1>8, <1>9, <1>10

(* A program turns a session it made to cookies.                           *)
LEMMA AgesCookies ==
  ASSUME SessionsInv, NEW p \in Proc, Alive(mine[p]), ToCookies(mine[p]), doing[p] \in {"bind", "transit"}
  PROVE  Ages /\ AgesHeld /\ Others(p)
<1> DEFINE m == mine[p]
<1>1. LoginTypeOK /\ Unborn /\ Alone /\ Turning /\ OnTrack
  BY DEF SessionsInv, Local, Shared, Actors
<1>2. m \in UID /\ session[m].mode \in {"bearer", "cookie"}
  <2>1. m \in 0..MaxSessions /\ m # 0
    BY <1>1 DEF LoginTypeOK, Alive
  <2> QED BY <2>1, Numbers DEF UID, Alive
<1>3. \A u \in UID : u # m => session'[u] = session[u]
  BY <1>1 DEF ToCookies, LoginTypeOK
<1>4. session'[m].mode = "cookie" /\ session'[m].user = session[m].user /\ session'[m].parent = session[m].parent
  BY <1>1, <1>2 DEF ToCookies, LoginTypeOK
<1>5. \A u \in UID : session'[u].parent = session[u].parent /\ session'[u].user = session[u].user
  BY <1>3, <1>4
<1>6. \A u \in UID : session'[u].mode = session[u].mode \/ (u = m /\ session'[u].mode = "cookie")
  BY <1>3, <1>4
<1>7. ASSUME NEW u \in UID, Heads(u) PROVE Heads(u)'
  <2>1. session'[u].mode = "dead" => session[u].mode = "dead"
    BY <1>6
  <2>2. session'[u].mode # "unborn"
    BY <1>6, <1>7 DEF Heads
  <2>3. \A w \in UID : session[w].mode = "dead" => session'[w].mode = "dead"
    BY <1>6, <1>2
  <2> QED BY <1>5, <1>7, <2>1, <2>2, <2>3 DEF Heads
<1>8. Unborn'
  BY <1>1, <1>2, <1>5, <1>6 DEF Unborn
<1>9. Ages
  BY <1>2, <1>5, <1>6, <1>7, <1>8 DEF Ages
<1>10. \A q \in Proc : q # p /\ doing[q] \in Signing /\ mine[q] # 0 => mine[q] # m
  <2> SUFFICES ASSUME NEW q \in Proc, q # p, doing[q] \in Signing, mine[q] # 0 PROVE mine[q] # m
    OBVIOUS
  <2>1. CASE doing[p] = "bind"
    <3>1. cmd[p].op = "login" /\ cmd[q].op = "login"
      BY <1>1, <2>1 DEF OnTrack, Track, Signing
    <3> QED BY <3>1, <2>1, <1>1 DEF Alone, Signing
  <2>2. CASE doing[p] = "transit"
    BY <2>2, <1>1, MineBorn DEF Turning, TurningOf
  <2> QED BY <2>1, <2>2
<1>11. holder # None => m # holder.uid
  <2> SUFFICES ASSUME holder # None PROVE m # holder.uid
    OBVIOUS
  <2>1. CASE doing[p] = "bind"
    BY <2>1, <1>2, MineBorn, Zero DEF Signing
  <2>2. CASE doing[p] = "transit"
    BY <2>2, <1>1, HolderType DEF Turning, TurningOf
  <2> QED BY <2>1, <2>2
<1>12. AgesHeld
  <2> SUFFICES ASSUME holder # None PROVE AgesHeld
    BY DEF AgesHeld
  <2>1. session'[holder.uid] = session[holder.uid]
    BY HolderType, <1>3, <1>11
  <2>2. ASSUME NEW u \in UID, ChildOf(u) PROVE session'[u].mode \in {"dead", Style}
    <3>1. CASE u # m
      BY <3>1, <2>2, <1>3 DEF ChildOf
    <3>2. CASE u = m
      <4>1. session[m].parent = holder.uid /\ holder.uid # 0 /\ session[m].mode \in {"dead", Style}
        BY <3>2, <2>2, HolderType, Zero DEF ChildOf, Child
      <4>2. doing[p] = "transit"
        BY <4>1, <1>2, MineBorn, Zero DEF Signing
      <4>3. session[holder.uid].mode \in {"cookie", "dead"}
        BY <4>1, <4>2, <1>1 DEF Turning, TurningOf
      <4>4. session[holder.uid].mode # "dead"
        BY <4>1, <1>2, HolderType DEF Heads
      <4>5. Style = "cookie"
        BY <4>3, <4>4, HolderType
      <4> QED BY <4>5, <3>2, <1>4
    <3> QED BY <3>1, <3>2
  <2> QED BY <2>1, <2>2 DEF AgesHeld
<1>13. Others(p)
  <2> SUFFICES ASSUME NEW q \in Proc, q # p, doing[q] \in Signing, mine[q] # 0
               PROVE  session'[mine[q]] = session[mine[q]]
    BY DEF Others, AgesFor
  <2> QED BY MineBorn, <1>3, <1>10
<1> QED BY <1>9, <1>12, <1>13

(* An anonymous session gets its user.                                     *)
LEMMA AgesUser ==
  ASSUME SessionsInv, NEW p \in Proc, Alive(mine[p]), NEW n, session' = [session EXCEPT ![mine[p]].user = n],
         doing[p] \in {"srp", "retry"}
  PROVE  Ages /\ AgesHeld /\ Others(p)
<1> DEFINE m == mine[p]
<1>1. LoginTypeOK /\ Unborn /\ Alone /\ OnTrack
  BY DEF SessionsInv, Local, Shared, Actors
<1>2. /\ m \in UID /\ session[m].mode \in {"bearer", "cookie"} /\ session[m].parent = 0
      /\ holder # None => m # holder.uid
  BY MineBorn DEF Alive, Signing
<1>3. \A u \in UID : u # m => session'[u] = session[u]
  BY <1>1 DEF LoginTypeOK
<1>4. session'[m].mode = session[m].mode /\ session'[m].parent = session[m].parent
  BY <1>1, <1>2 DEF LoginTypeOK
<1>5. \A u \in UID : session'[u].parent = session[u].parent /\ session'[u].mode = session[u].mode
  BY <1>3, <1>4
<1>6. \A u \in UID : Heads(u) => Heads(u)'
  BY <1>5 DEF Heads
<1>7. Unborn'
  BY <1>1, <1>5 DEF Unborn
<1>8. Ages
  BY <1>2, <1>3, <1>5, <1>6, <1>7 DEF Ages
<1>9. AgesHeld
  <2> SUFFICES ASSUME holder # None PROVE AgesHeld
    BY DEF AgesHeld
  <2>1. session'[holder.uid] = session[holder.uid]
    BY HolderType, <1>2, <1>3
  <2>2. \A u \in UID : ChildOf(u) => session'[u].mode \in {"dead", Style}
    BY <1>5 DEF ChildOf
  <2> QED BY <2>1, <2>2 DEF AgesHeld
<1>10. Others(p)
  <2> SUFFICES ASSUME NEW q \in Proc, q # p, doing[q] \in Signing, mine[q] # 0
               PROVE  session'[mine[q]] = session[mine[q]]
    BY DEF Others, AgesFor
  <2>1. cmd[p].op = "login" /\ cmd[q].op = "login"
    BY <1>1 DEF OnTrack, Track, Signing
  <2>2. FALSE
    BY <2>1, <1>1 DEF Alone, Signing
  <2> QED BY <2>2
<1> QED BY <1>8, <1>9, <1>10

(* Ending a session ends what was forked from it.                          *)
LEMMA AgesEnded ==
  ASSUME SessionsInv, NEW p, NEW u \in UID, session' = Ended(session, u)
  PROVE  Ages /\ AgesHeld /\ Others(p)
<1> DEFINE below == {v \in UID : session[v].parent = u /\ session[v].mode # "unborn"}
           deep == below \cup {v \in UID : session[v].parent \in below}
<1>1. LoginTypeOK /\ Unborn
  BY DEF SessionsInv, Local, Shared
<1>2. \A v \in UID : session'[v] = IF v = u \/ v \in deep THEN [session[v] EXCEPT !.mode = "dead"] ELSE session[v]
  BY DEF Ended
<1>3. \A v \in UID : session'[v].parent = session[v].parent /\ session'[v].user = session[v].user
  <2> SUFFICES ASSUME NEW v \in UID PROVE session'[v].parent = session[v].parent /\ session'[v].user = session[v].user
    OBVIOUS
  <2>1. session[v] \in [user : User \cup {Nobody}, parent : 0..MaxSessions,
                        mode : {"unborn", "bearer", "cookie", "dead"}]
    BY <1>1 DEF LoginTypeOK
  <2> QED BY <2>1, <1>2
<1>4. \A v \in UID : session'[v].mode = IF v = u \/ v \in deep THEN "dead" ELSE session[v].mode
  <2> SUFFICES ASSUME NEW v \in UID PROVE session'[v].mode = IF v = u \/ v \in deep THEN "dead" ELSE session[v].mode
    OBVIOUS
  <2>1. session[v] \in [user : User \cup {Nobody}, parent : 0..MaxSessions,
                        mode : {"unborn", "bearer", "cookie", "dead"}]
    BY <1>1 DEF LoginTypeOK
  <2> QED BY <2>1, <1>2
<1>5. \A v \in UID : session'[v].mode \in {"dead", session[v].mode}
  BY <1>4
<1>6. ASSUME NEW h \in UID, Heads(h) PROVE Heads(h)'
  <2>1. session'[h].mode # "unborn" /\ session'[h].parent = 0
    BY <1>3, <1>5, <1>6 DEF Heads
  <2>2. ASSUME session'[h].mode = "dead", NEW v \in UID, session'[v].parent = h PROVE session'[v].mode = "dead"
    <3>1. CASE session[h].mode = "dead"
      BY <3>1, <1>3, <1>5, <1>6, <2>2 DEF Heads
    <3>2. CASE session[h].mode # "dead"
      <4>1. h = u
        BY <3>2, <2>2, <1>4, <1>6, Zero DEF Heads
      <4>2. session[v].parent = u /\ u # 0
        BY <4>1, <2>2, <1>3, Zero
      <4>3. v \in below
        BY <4>2, <1>1 DEF Unborn
      <4> QED BY <4>3, <1>4
    <3> QED BY <3>1, <3>2
  <2> QED BY <2>1, <2>2 DEF Heads
<1>7. Unborn'
  BY <1>1, <1>3, <1>5 DEF Unborn
<1>8. Ages
  BY <1>3, <1>5, <1>6, <1>7 DEF Ages
<1>9. AgesHeld
  BY <1>3, <1>5, HolderType DEF AgesHeld, ChildOf
<1>10. Others(p)
  BY <1>3, <1>5, MineBorn DEF Others, AgesFor
<1> QED BY <1>8, <1>9, <1>10

(***************************************************************************)
(* What ages keeps what was known of it                                    *)
(***************************************************************************)
LEMMA Kin ==
  ASSUME SessionsInv, Ages, AgesHeld, holder' = holder, holder # None
  PROVE  /\ \A u \in UID : ChildOf(u) => ChildOf(u)'
         /\ \A u \in UID : Child(u) /\ session[u].mode # "unborn" => Child(u)' /\ session'[u].mode # "unborn"
         /\ \A c \in Credentials : GoodCopy(c) => GoodCopy(c)'
         /\ \A c \in Credentials : GoodAccount(c) => GoodAccount(c)'
         /\ LoggedIn' => LoggedIn
         /\ Held'
         /\ Severance => Severance'
<1>1. holder.uid \in UID /\ holder.uid # 0 /\ session[holder.uid].mode \in {"dead", Style}
      /\ session[holder.uid].mode # "unborn" /\ Style \in {"cookie", "bearer"} /\ Style' = Style
      /\ Heads(holder.uid) /\ session[holder.uid].user = holder.user
  BY HolderType, Zero DEF Style
<1>2. ASSUME NEW u \in UID, Child(u), session[u].mode # "unborn" PROVE Child(u)' /\ session'[u].mode # "unborn"
  BY <1>2, <1>1 DEF Ages, Child
<1>3. ASSUME NEW u \in UID, ChildOf(u) PROVE ChildOf(u)'
  <2>1. session[u].mode # "unborn" /\ Child(u)
    BY <1>1, <1>3 DEF ChildOf
  <2> QED BY <2>1, <1>1, <1>2, <1>3 DEF AgesHeld, ChildOf
<1>4. \A c \in Credentials : GoodCopy(c) => GoodCopy(c)'
  <2>1. \A c \in Credentials : c.uid \in UID
    BY DEF Credentials
  <2> QED BY <1>3, <2>1 DEF GoodCopy
<1>5. \A c \in Credentials : GoodAccount(c) => GoodAccount(c)'
  BY DEF GoodAccount
<1>6. LoggedIn' => LoggedIn
  BY <1>1 DEF LoggedIn, Alive, Ages
<1>7. Held'
  <2>1. Heads(holder.uid)'
    BY <1>1 DEF Ages
  <2> QED BY <2>1, <1>1 DEF Held, AgesHeld
<1>8. Severance => Severance'
  <2> SUFFICES ASSUME Severance, LoggedIn'
               PROVE  \E u \in UID : session'[u].mode = "dead" /\ session'[u].parent = holder.uid
    BY DEF Severance
  <2>1. PICK u \in UID : session[u].mode = "dead" /\ session[u].parent = holder.uid
    BY <1>6 DEF Severance
  <2> QED BY <2>1 DEF Ages
<1> QED BY <1>2, <1>3, <1>4, <1>5, <1>6, <1>7, <1>8

(***************************************************************************)
(* What the step of one program is to another                              *)
(***************************************************************************)
(* What a service's slot holds afterwards, while a login stands.           *)
Files == holder # None =>
  \A s \in Service :
    \/ s \in late' \/ slot'[s] = None
    \/ s \notin late /\ slot'[s] = slot[s]
    \/ slot'[s] \in Credentials /\ GoodCopy(slot[s])'
(* A logged out file gets nothing that is not late.                        *)
Cleared ==
  holder # None /\ ~LoggedIn /\ (\A s \in Slot : slot[s] # None => s \in late)
    => \A s \in Slot : slot'[s] # None => s \in late'
(* Stamps are new, but for the name of a service.                          *)
Newer ==
  /\ slot'["cookie"] = slot["cookie"] \/ (slot'["cookie"] \in Credentials /\ slot'["cookie"].at > now)
  /\ \A s \in Service :
       \/ slot'[s] = slot[s] \/ slot'[s] = None
       \/ slot'[s] \in Credentials /\ slot'[s].at > now
       \/ slot[s] # None /\ slot'[s].at = slot[s].at
Idler(q) == doing[q] = "idle" \/ cmd[q].op = "use"
Calmly == holder' = holder /\ epoch' = epoch
Undisturbed(q) ==
  /\ Unmoved(q) /\ AgesFor(q)
  /\ q \in excused => q \in excused'
  /\ \/ Calmly /\ Files /\ Cleared /\ (Idler(q) \/ Newer)
     \/ (holder' = None \/ epoch' = epoch + 1) /\ Idler(q)
ActorOf(q) == LoginOf(q) /\ TurningOf(q) /\ ProgramOf(q) /\ LogoutOf(q) /\ LoggedOut(q)

LEMMA SlotTypes ==
  ASSUME LoginTypeOK
  PROVE  /\ \A s \in Slot : slot[s] \in Credentials \cup {None}
         /\ \A p \in Proc : acct[p] \in Credentials \cup {None} /\ svc[p] \in Credentials \cup {None}
         /\ \A c \in Credentials : c.uid \in UID /\ c.auth \in UID /\ c.at \in Nat
         /\ \A p \in Proc : mine[p] \in 0..MaxSessions /\ (mine[p] # 0 => mine[p] \in UID)
         /\ now \in Nat
<1>1. \A c \in Credentials : c.uid \in UID /\ c.auth \in UID /\ c.at \in Nat
  BY CopyType
<1>2. now \in Nat
  <2>1. now \in 0..MaxTime
    BY DEF LoginTypeOK
  <2> QED BY <2>1, Numbers
<1>3. \A p \in Proc : mine[p] \in 0..MaxSessions /\ (mine[p] # 0 => mine[p] \in UID)
  <2>1. \A p \in Proc : mine[p] \in 0..MaxSessions
    BY DEF LoginTypeOK
  <2> QED BY <2>1, Numbers DEF UID
<1> QED BY <1>1, <1>2, <1>3 DEF LoginTypeOK

LEMMA StillTrusted ==
  ASSUME SessionsInv, Ages, AgesHeld, holder # None, holder' = holder, Files
  PROVE  \A t \in Nat : Trusted(t) => Trusted(t)'
<1> SUFFICES ASSUME NEW t \in Nat, Trusted(t), NEW s \in Service,
                    s \notin late', slot'[s] # None, slot'[s].service = s, slot'[s].at >= t
             PROVE  GoodCopy(slot[s])'
  BY DEF Trusted
<1>1. CASE s \notin late /\ slot'[s] = slot[s]
  <2>1. GoodCopy(slot[s])
    BY <1>1 DEF Trusted
  <2>2. slot[s] \in Credentials
    BY <1>1, SlotTypes, SlotNames DEF SessionsInv, Local
  <2>3. \A c \in Credentials : GoodCopy(c) => GoodCopy(c)'
    BY Kin
  <2> DEFINE c == slot[s]
  <2>4. PICK d \in Credentials : d = slot[s]
    BY <2>2
  <2>5. GoodCopy(d)'
    BY <2>1, <2>3, <2>4
  <2> QED BY <2>4, <2>5, <1>1 DEF GoodCopy
<1> QED BY <1>1 DEF Files

LEMMA OtherProgram ==
  ASSUME SessionsInv, NEW q \in Proc, Ages, AgesHeld, Undisturbed(q)
  PROVE  ProgramOf(q)'
<1> SUFFICES ASSUME Reader(q)' PROVE ProgramOf(q)'
  BY DEF ProgramOf, Work
<1>1. holder' = holder /\ epoch' = epoch /\ Files /\ Reader(q) /\ Unmoved(q) /\ holder # None
  <2>1. since[q] <= epoch /\ epoch \in Nat /\ since[q] \in Nat
    BY DEF SessionsInv, Local, OnTrack, Track, LoginTypeOK
  <2>2. holder' # None /\ since'[q] = epoch' /\ q \notin excused' /\ cmd'[q].op = "use"
    BY DEF Reader, Current
  <2>3. since'[q] = since[q] /\ cmd'[q] = cmd[q]
    BY DEF Undisturbed, Unmoved
  <2>4. epoch' # epoch + 1
    BY <2>1, <2>2, <2>3
  <2> QED BY <2>2, <2>3, <2>4 DEF Undisturbed, Calmly, Reader, Current
<1>2. ProgramOf(q)
  BY DEF SessionsInv, Actors, Programs
<1>t. LoginTypeOK /\ Track(q)
  BY DEF SessionsInv, Local, OnTrack
<1>3. acct'[q] # None => GoodAccount(acct[q])' /\ Trusted(acct[q].at)'
  <2> SUFFICES ASSUME acct[q] # None PROVE GoodAccount(acct[q])' /\ Trusted(acct[q].at)'
    BY <1>1 DEF Unmoved
  <2>1. PICK a \in Credentials : a = acct[q]
    BY <1>t, SlotTypes
  <2>2. GoodAccount(a)' /\ Trusted(a.at)'
    BY <1>1, <1>2, <1>t, <2>1, Kin, StillTrusted, SlotTypes DEF ProgramOf, Work
  <2>3. acct'[q] = a
    BY <1>1, <2>1 DEF Unmoved
  <2> QED BY <2>2, <2>3 DEF GoodAccount, Trusted
<1>4. mine'[q] = mine[q] /\ doing'[q] = doing[q] /\ key'[q] = key[q] /\ cmd'[q] = cmd[q] /\ answer'[q] = answer[q]
  BY <1>1 DEF Unmoved
<1>5. doing[q] \in {"renew", "push", "cpush"} => mine'[q] = holder'.uid
  BY <1>1, <1>2, <1>4 DEF ProgramOf, Work
<1>6. doing[q] = "service" => mine'[q] \in {0, holder'.uid}
  BY <1>1, <1>2, <1>4 DEF ProgramOf, Work
<1>7. doing[q] = "transit" => Child(mine[q])' /\ session'[mine'[q]].mode # "unborn"
  <2> SUFFICES ASSUME doing[q] = "transit" PROVE Child(mine[q])' /\ session'[mine'[q]].mode # "unborn"
    OBVIOUS
  <2>1. PICK u \in UID : u = mine[q]
    BY <1>t, SlotTypes DEF Track
  <2>2. Child(u)' /\ session'[u].mode # "unborn"
    BY <1>1, <1>2, <2>1, Kin DEF ProgramOf, Work
  <2> QED BY <2>1, <2>2, <1>4 DEF Child
<1>8. doing[q] \in {"keep", "tag", "unlock"} \cup Up => ChildOf(mine[q])'
  <2> SUFFICES ASSUME doing[q] \in {"keep", "tag", "unlock"} \cup Up PROVE ChildOf(mine[q])'
    OBVIOUS
  <2>1. PICK u \in UID : u = mine[q]
    BY <1>t, SlotTypes DEF Track
  <2>2. ChildOf(u)'
    BY <1>1, <1>2, <2>1, Kin DEF ProgramOf, Work
  <2> QED BY <2>1, <2>2, <1>4 DEF Child, ChildOf
<1>9. doing[q] \in Up => key'[q] = holder'.user
  BY <1>1, <1>2, <1>4 DEF ProgramOf, Work
<1>10. doing[q] = "restore" => GoodCopy(svc[q])'
  <2> SUFFICES ASSUME doing[q] = "restore" PROVE GoodCopy(svc[q])'
    OBVIOUS
  <2>1. PICK c \in Credentials : c = svc[q]
    BY <1>1, <1>t, SlotTypes DEF Track, Reader
  <2>2. GoodCopy(c)'
    BY <1>1, <1>2, <2>1, Kin DEF ProgramOf, Work
  <2>3. svc'[q] = c
    BY <1>1, <2>1 DEF Unmoved
  <2> QED BY <2>2, <2>3 DEF GoodCopy
<1>11. doing[q] \in {"restore", "tag", "unlock"} \cup Up =>
         \/ cmd'[q].service \in late' \/ slot'[cmd'[q].service] = None \/ GoodCopy(slot[cmd[q].service])'
  <2> SUFFICES ASSUME doing[q] \in {"restore", "tag", "unlock"} \cup Up
               PROVE  \/ cmd'[q].service \in late' \/ slot'[cmd'[q].service] = None
                      \/ GoodCopy(slot[cmd[q].service])'
    OBVIOUS
  <2>1. PICK s \in Service : s = cmd[q].service
    <3>1. cmd[q] \in Command
      BY <1>t DEF LoginTypeOK
    <3> QED BY <3>1, <1>1, CommandType DEF Reader
  <2>2. s \in late \/ slot[s] = None \/ GoodCopy(slot[s])
    BY <1>1, <1>2, <2>1 DEF ProgramOf, Work
  <2>3. s \in late' \/ slot'[s] = None \/ GoodCopy(slot[s])'
    <3>1. CASE s \notin late /\ slot'[s] = slot[s] /\ slot[s] # None
      <4>1. PICK d \in Credentials : d = slot[s]
        BY <3>1, <1>t, SlotTypes, SlotNames
      <4>2. GoodCopy(d)'
        BY <1>1, <2>2, <3>1, <4>1, Kin
      <4> QED BY <4>1, <4>2, <3>1 DEF GoodCopy
    <3> QED BY <3>1, <1>1 DEF Files
  <2>4. cmd'[q].service = s
    BY <2>1, <1>4
  <2> QED BY <2>3, <2>4 DEF GoodCopy
<1>12. answer'[q] \in {"error", "not logged in"} => Severance'
  BY <1>1, <1>2, <1>4, Kin DEF ProgramOf, Work
<1> QED BY <1>3, <1>4, <1>5, <1>6, <1>7, <1>8, <1>9, <1>10, <1>11, <1>12 DEF ProgramOf, Work

LEMMA OtherLogin ==
  ASSUME SessionsInv, NEW q \in Proc, Ages, Undisturbed(q)
  PROVE  LoginOf(q)'
<1>t. LoginTypeOK /\ Track(q) /\ LoginOf(q) /\ Stamped /\ Unmoved(q) /\ AgesFor(q)
  BY DEF SessionsInv, Local, OnTrack, Actors, Logins, Shared, Undisturbed
<1>u. doing'[q] = doing[q] /\ mine'[q] = mine[q] /\ cmd'[q] = cmd[q] /\ key'[q] = key[q] /\ acct'[q] = acct[q]
  BY <1>t DEF Unmoved
<1> SUFFICES ASSUME doing[q] \in Signing PROVE LoginOf(q)'
  <2>1. doing[q] \notin Signing => LoginOf(q)'
    BY <1>u DEF LoginOf, Signing
  <2> QED BY <2>1
<1>1. holder' = holder /\ Newer
  <2>1. ~Idler(q)
    BY <1>t DEF Idler, Track, Signing
  <2> QED BY <2>1 DEF Undisturbed, Calmly
<1>2. ASSUME mine[q] # 0
      PROVE  /\ Heads(mine[q])' /\ (holder # None => mine[q] # holder.uid)
             /\ session'[mine[q]].user = session[mine[q]].user
             /\ session'[mine[q]].mode \in {"dead", session[mine[q]].mode}
  <2>1. mine[q] \in UID /\ (holder # None => mine[q] # holder.uid) /\ Heads(mine[q])
    BY <1>2, <1>t, MineBorn DEF LoginOf
  <2>2. PICK m \in UID : m = mine[q]
    BY <2>1
  <2>3. Heads(m)'
    BY <2>1, <2>2 DEF Ages
  <2> QED BY <1>2, <1>t, <1>u, <2>1, <2>2, <2>3 DEF Heads, AgesFor
<1>3. doing[q] \in {"bind", "twofa", "derive", "drop", "save"} => mine[q] # 0
  BY <1>t DEF Track
<1>4. /\ doing'[q] \in Signing /\ mine'[q] # 0 =>
           Heads(mine[q])' /\ (holder' # None => mine'[q] # holder'.uid)
      /\ doing'[q] \in Signing \ {"bind"} /\ mine'[q] # 0 =>
           session'[mine'[q]].mode \in {"dead", IF cmd'[q].cookie THEN "cookie" ELSE "bearer"}
      /\ doing'[q] \in {"twofa", "derive", "drop", "save"} => session'[mine'[q]].user = cmd'[q].user
      /\ doing'[q] \in {"drop", "save"} => key'[q] = cmd'[q].user
  <2>1. doing[q] \in Signing /\ mine[q] # 0 => Heads(mine[q])' /\ (holder' # None => mine[q] # holder'.uid)
    BY <1>1, <1>2
  <2>2. doing[q] \in Signing \ {"bind"} /\ mine[q] # 0 =>
          session'[mine[q]].mode \in {"dead", IF cmd[q].cookie THEN "cookie" ELSE "bearer"}
    BY <1>2, <1>t DEF LoginOf
  <2>3. doing[q] \in {"twofa", "derive", "drop", "save"} => session'[mine[q]].user = cmd[q].user
    BY <1>2, <1>3, <1>t DEF LoginOf
  <2>4. doing[q] \in {"drop", "save"} => key[q] = cmd[q].user
    BY <1>t DEF LoginOf
  <2> QED BY <2>1, <2>2, <2>3, <2>4, <1>u
<1>5. ASSUME doing[q] = "save", cmd[q].cookie
      PROVE  /\ acct[q].uid = mine[q] /\ acct[q].auth = mine[q] /\ acct[q].key = cmd[q].user
             /\ ~acct[q].bearer /\ acct[q].cookieAuth
             /\ slot'["cookie"] # None /\ (slot'["cookie"] = acct[q] \/ slot'["cookie"].at > acct[q].at)
             /\ \A s \in Service : slot'[s] # None => slot'[s].at # acct[q].at
  <2>1. acct[q] \in Credentials /\ acct[q].at \in Nat /\ acct[q].at <= now /\ now \in Nat
    BY <1>5, <1>t, SlotTypes DEF Track, Stamped
  <2>2. slot'["cookie"] # None /\ (slot'["cookie"] = acct[q] \/ slot'["cookie"].at > acct[q].at)
    <3>1. CASE slot'["cookie"] = slot["cookie"]
      BY <3>1, <1>5, <1>t DEF LoginOf
    <3>2. CASE slot'["cookie"] \in Credentials /\ slot'["cookie"].at > now
      <4>1. slot'["cookie"].at \in Nat /\ slot'["cookie"] # None
        BY <3>2, CopyType, <1>t
      <4>2. slot'["cookie"].at > acct[q].at
        BY <2>1, <3>2, <4>1
      <4> QED BY <4>1, <4>2
    <3> QED BY <3>1, <3>2, <1>1 DEF Newer
  <2>3. ASSUME NEW s \in Service, slot'[s] # None PROVE slot'[s].at # acct[q].at
    <3>1. slot[s] # None => slot[s].at # acct[q].at
      BY <1>5, <1>t DEF LoginOf
    <3>2. slot'[s] \in Credentials /\ slot'[s].at > now => slot'[s].at # acct[q].at
      <4>1. slot'[s] \in Credentials => slot'[s].at \in Nat
        BY CopyType, <1>t
      <4> QED BY <2>1, <4>1
    <3> QED BY <3>1, <3>2, <2>3, <1>1 DEF Newer
  <2> QED BY <2>2, <2>3, <1>5, <1>t DEF LoginOf
<1> QED BY <1>4, <1>5, <1>u DEF LoginOf

LEMMA OtherTurning ==
  ASSUME SessionsInv, NEW q \in Proc, Ages, Unmoved(q)
  PROVE  TurningOf(q)'
<1> SUFFICES ASSUME doing[q] = "transit"
             PROVE  /\ session'[mine[q]].parent # 0
                    /\ session'[session'[mine[q]].parent].mode \in {"cookie", "dead"}
  BY DEF TurningOf, Unmoved
<1>1. LoginTypeOK /\ Track(q) /\ TurningOf(q) /\ Unborn
  BY DEF SessionsInv, Local, OnTrack, Actors, Turning, Shared
<1>2. mine[q] \in UID
  BY <1>1, SlotTypes DEF Track
<1>3. session[mine[q]].parent # 0 /\ session[session[mine[q]].parent].mode \in {"cookie", "dead"}
  BY <1>1 DEF TurningOf
<1>4. session[mine[q]].mode # "unborn"
  BY <1>1, <1>2, <1>3 DEF Unborn
<1>5. session[mine[q]].parent \in UID
  <2>1. session[mine[q]].parent \in 0..MaxSessions
    BY <1>1, <1>2, SessionType
  <2> QED BY <2>1, <1>3, Numbers DEF UID
<1> QED BY <1>2, <1>3, <1>4, <1>5 DEF Ages

LEMMA OtherLogout ==
  ASSUME SessionsInv, NEW q \in Proc, Ages, AgesHeld, Undisturbed(q)
  PROVE  LogoutOf(q)' /\ LoggedOut(q)'
<1>t. /\ LoginTypeOK /\ Track(q) /\ LogoutOf(q) /\ LoggedOut(q)
      /\ doing'[q] = doing[q] /\ mine'[q] = mine[q] /\ cmd'[q] = cmd[q] /\ answer'[q] = answer[q]
      /\ since'[q] = since[q] /\ (q \in excused => q \in excused')
  BY DEF SessionsInv, Local, OnTrack, Actors, Logouts, LogoutIsComplete, LoggedOut, Undisturbed, Unmoved
<1>1. LogoutOf(q)'
  <2> SUFFICES ASSUME doing[q] \in Ending, LoggedIn'
               PROVE  doing[q] = "revoke" /\ (q \notin excused' => mine'[q] = holder'.uid)
    BY <1>t DEF LogoutOf, Ending
  <2>1. ~Idler(q)
    BY <1>t DEF Idler, Track, Ending
  <2>2. holder' = holder /\ holder # None
    BY <2>1 DEF Undisturbed, Calmly, LoggedIn
  <2>3. LoggedIn
    BY <2>2, Kin
  <2> QED BY <1>t, <2>2, <2>3 DEF LogoutOf, Ending
<1>2. LoggedOut(q)'
  <2> SUFFICES ASSUME holder' # None, cmd[q].op = "logout", doing[q] = "idle", answer[q] = "ok", epoch' = since[q] + 1,
                      q \notin excused'
               PROVE  (\A s \in Slot : slot'[s] # None => s \in late') /\ ~LoggedIn'
    BY <1>t DEF LoggedOut
  <2>1. since[q] < epoch /\ epoch \in Nat /\ since[q] \in Nat
    BY <1>t DEF Track, LoginTypeOK
  <2>2. epoch' # epoch + 1
    BY <2>1
  <2>3. Calmly /\ Cleared
    BY <2>2 DEF Undisturbed
  <2>4. holder # None /\ (\A s \in Slot : slot[s] # None => s \in late) /\ ~LoggedIn
    BY <1>t, <2>3 DEF LoggedOut, Calmly
  <2> QED BY <2>3, <2>4, Kin DEF Cleared, Calmly
<1> QED BY <1>1, <1>2

LEMMA Bystander ==
  ASSUME SessionsInv, NEW q \in Proc, Ages, AgesHeld, Undisturbed(q)
  PROVE  ActorOf(q)'
<1>1. TurningOf(q)'
  BY OtherTurning DEF Undisturbed
<1> QED BY <1>1, OtherLogin, OtherProgram, OtherLogout DEF ActorOf

(***************************************************************************)
(* A step is what its program holds afterwards, and what the world is      *)
(***************************************************************************)
FileType == slot \in [Slot -> Credentials \cup {None}] /\ late \subseteq Slot
RemoteType == session \in [UID -> SessionRec] /\ now \in 0..MaxTime
GhostType ==
  /\ holder \in [user : User, uid : UID, cookie : BOOLEAN] \cup {None} /\ epoch \in Nat
  /\ excused \subseteq Proc
CountType == commands \in 0..MaxCommands /\ rotations \in 0..MaxRotations /\ mishaps \in 0..MaxMishaps
LEMMA Types == LoginTypeOK <=> OwnType /\ FileType /\ RemoteType /\ GhostType /\ CountType
  BY DEF LoginTypeOK, OwnType, FileType, RemoteType, GhostType, CountType, SessionRec

LEMMA TypesNext == OwnType' /\ FileType' /\ RemoteType' /\ GhostType' /\ CountType' => LoginTypeOK'
  BY DEF LoginTypeOK, OwnType, FileType, RemoteType, GhostType, CountType, SessionRec

SlotsStamped == \A s \in Slot : slot[s] # None => slot[s].at <= now
Hands(p) == (acct[p] # None => acct[p].at <= now) /\ (svc[p] # None => svc[p].at <= now)
World == SlotsStamped /\ Unborn /\ Held /\ AccountSlot /\ CookieSlot /\ ServicesKept
Sole(p) == doing[p] # "idle" /\ cmd[p].op # "use"

OwnOf(p) == OwnType' /\ Frame(p) /\ Track(p)' /\ Hands(p)' /\ ActorOf(p)'
WorldOf(p) ==
  /\ FileType' /\ RemoteType' /\ GhostType' /\ CountType' /\ World' /\ now <= now'
  /\ Ages /\ AgesHeld /\ Others(p)
  /\ \A q \in Proc \ {p} : q \in excused => q \in excused'
  /\ epoch' \in {epoch, epoch + 1}
  /\ \/ Calmly /\ Files /\ Cleared /\ (Newer \/ Sole(p))
     \/ (holder' = None \/ epoch' = epoch + 1) /\ Sole(p)

LEMMA IdleOthers ==
  ASSUME SessionsInv, NEW p \in Proc, NEW q \in Proc, q # p, Sole(p)
  PROVE  Idler(q)
BY DEF SessionsInv, Local, Alone, Sole, Idler

LEMMA StepKeeps ==
  ASSUME SessionsInv, NEW p \in Proc, OwnOf(p), WorldOf(p), Alone'
  PROVE  SessionsInv'
<1>1. LoginTypeOK'
  BY TypesNext DEF OwnOf, WorldOf
<1>t. OwnType /\ LoginTypeOK /\ Stamped /\ Local
  BY Types DEF SessionsInv, Local, Shared
<1>2. OnTrack'
  BY <1>t, OthersOnTrack DEF OwnOf, WorldOf
<1>3. Stamped'
  <2>1. \A q \in Proc : Hands(q)'
    <3> SUFFICES ASSUME NEW q \in Proc, q # p PROVE Hands(q)'
      BY DEF OwnOf
    <3>1. acct'[q] = acct[q] /\ svc'[q] = svc[q]
      BY DEF OwnOf, Frame, Unmoved
    <3>2. /\ acct[q] # None => acct[q].at \in Nat
          /\ svc[q] # None => svc[q].at \in Nat
          /\ now \in Nat
      BY <1>t, SlotTypes
    <3>3. now' \in Nat
      <4>1. now' \in 0..MaxTime
        BY <1>1 DEF LoginTypeOK
      <4> QED BY <4>1, Numbers
    <3>4. now <= now'
      BY DEF WorldOf
    <3>5. acct[q] # None => acct[q].at <= now'
      BY <1>t, <3>2, <3>3, <3>4 DEF Stamped
    <3>6. svc[q] # None => svc[q].at <= now'
      BY <1>t, <3>2, <3>3, <3>4 DEF Stamped
    <3> QED BY <3>1, <3>5, <3>6 DEF Hands
  <2> QED BY <2>1 DEF Stamped, Hands, WorldOf, World, SlotsStamped
<1>4. \A q \in Proc : ActorOf(q)'
  <2> SUFFICES ASSUME NEW q \in Proc, q # p PROVE ActorOf(q)'
    BY DEF OwnOf
  <2>1. Sole(p) => Idler(q)
    BY IdleOthers
  <2>2. Undisturbed(q)
    BY <2>1 DEF WorldOf, OwnOf, Frame, Undisturbed, Others
  <2> QED BY <2>2, Bystander DEF WorldOf
<1>5. Actors'
  BY <1>4 DEF Actors, ActorOf, Logins, Turning, Programs, Logouts, LogoutIsComplete, LoggedOut
<1> QED BY <1>1, <1>2, <1>3, <1>5 DEF SessionsInv, Local, Shared, WorldOf, World

(* Sessions may age, the file stays.                                       *)
LEMMA SharedKept ==
  ASSUME SessionsInv, UNCHANGED <<slot, late, now>>, holder' \in {None, holder}, Ages, AgesHeld
  PROVE  World'
<1>t. LoginTypeOK /\ World
  BY DEF SessionsInv, Local, Shared, World, Stamped, SlotsStamped
<1>1. SlotsStamped' /\ Unborn'
  BY <1>t DEF World, SlotsStamped, Ages
<1>2. Held' /\ AccountSlot' /\ CookieSlot' /\ ServicesKept'
  <2>1. CASE holder' = None
    BY <2>1 DEF Held, AccountSlot, CookieSlot, ServicesKept
  <2>2. CASE holder' = holder /\ holder # None
    <3>1. Held' /\ (LoggedIn' => LoggedIn)
      BY <2>2, Kin
    <3>2. AccountSlot'
      BY <2>2, <3>1, <1>t DEF World, AccountSlot, GoodAccount
    <3>3. CookieSlot'
      BY <2>2, <3>1, <1>t DEF World, CookieSlot
    <3>4. ServicesKept'
      <4> SUFFICES ASSUME "account" \notin late, slot["account"] # None PROVE Trusted(slot["account"].at)'
        BY DEF ServicesKept
      <4>1. slot["account"].at \in Nat
        BY <1>t, SlotTypes, SlotNames
      <4>2. Trusted(slot["account"].at)
        BY <1>t, <2>2 DEF World, ServicesKept
      <4>3. PICK t \in Nat : t = slot["account"].at
        BY <4>1
      <4>4. Files
        BY DEF Files
      <4>5. Trusted(t)'
        BY <4>2, <4>3, <4>4, <2>2, StillTrusted
      <4> QED BY <4>3, <4>5 DEF Trusted
    <3> QED BY <3>1, <3>2, <3>3, <3>4
  <2> QED BY <2>1, <2>2
<1> QED BY <1>1, <1>2 DEF World
LEMMA WorldAged ==
  ASSUME SessionsInv, NEW p, UNCHANGED <<slot, late, now>>,
         Ages, AgesHeld, Others(p), session' \in [UID -> SessionRec], CountType',
         excused' \subseteq Proc, \A q \in Proc \ {p} : q \in excused => q \in excused',
         holder' \in {None, holder}, epoch' \in {epoch, epoch + 1},
         Calmly \/ ((holder' = None \/ epoch' = epoch + 1) /\ Sole(p))
  PROVE  WorldOf(p)
<1>t. LoginTypeOK /\ FileType /\ RemoteType /\ GhostType
  BY Types DEF SessionsInv, Local
<1>1. FileType' /\ RemoteType' /\ GhostType' /\ now <= now'
  <2>1. now <= now
    BY <1>t, SlotTypes
  <2>2. epoch' \in Nat
    BY <1>t DEF GhostType
  <2> QED BY <1>t, <2>1, <2>2 DEF FileType, RemoteType, GhostType
<1>2. Files /\ Cleared /\ Newer
  BY DEF Files, Cleared, Newer
<1>3. World'
  BY SharedKept
<1> QED BY <1>1, <1>2, <1>3 DEF WorldOf
LEMMA WorldSessions ==
  ASSUME SessionsInv, NEW p, UNCHANGED <<slot, late, now, holder, epoch>>,
         Ages, AgesHeld, Others(p), session' \in [UID -> SessionRec], CountType',
         excused' \subseteq Proc, \A q \in Proc \ {p} : q \in excused => q \in excused'
  PROVE  WorldOf(p)
BY WorldAged DEF Calmly
LEMMA WorldQuiet ==
  ASSUME SessionsInv, NEW p, UNCHANGED <<session, slot, late, now, holder, epoch>>, CountType',
         excused' \subseteq Proc, \A q \in Proc \ {p} : q \in excused => q \in excused'
  PROVE  WorldOf(p)
<1>1. Unborn /\ session \in [UID -> SessionRec]
  BY Types DEF SessionsInv, Local, Shared, RemoteType
<1>2. Ages /\ AgesHeld /\ Others(p)
  BY <1>1, AgesStay
<1> QED BY <1>1, <1>2, WorldSessions

(* One slot gets new credentials.                                          *)
LEMMA WorldStored ==
  ASSUME SessionsInv, NEW p, NEW s \in Slot, NEW c \in Credentials,
         UNCHANGED <<session, holder, epoch>>, CountType',
         excused' \subseteq Proc, \A q \in Proc \ {p} : q \in excused => q \in excused',
         slot' = [slot EXCEPT ![s] = c], late' \in {late, late \cup {s}, late \ {s}},
         now' \in {now, now + 1}, now' \in 0..MaxTime, c.at <= now',
         c.at = now + 1 \/ (s \in Service /\ slot[s] # None /\ c.at = slot[s].at),
         s \in late' \/ LoggedIn \/ holder = None \/ (slot[s] # None /\ s \notin late),
         holder # None /\ s \in Service /\ s \notin late' => GoodCopy(c),
         holder # None /\ s = "cookie" /\ holder.cookie /\ s \notin late' =>
           c.uid = holder.uid /\ c.auth = holder.uid /\ ~c.bearer,
         s = "account" =>
           /\ slot[s] # None /\ c.key = slot[s].key /\ c.cookieAuth = slot[s].cookieAuth
           /\ s \in late => s \in late'
           /\ holder # None /\ s \notin late' => GoodAccount(c)
  PROVE  WorldOf(p)
<1>t. LoginTypeOK /\ FileType /\ RemoteType /\ GhostType /\ Stamped /\ World
  BY Types DEF SessionsInv, Local, Shared, World, Stamped, SlotsStamped
<1>n. /\ now \in Nat /\ now' \in Nat /\ c.at \in Nat /\ now <= now' /\ c # None
      /\ \A x \in Slot : slot[x] # None => slot[x].at \in Nat /\ slot[x].at <= now
  <2>1. now \in Nat /\ (\A x \in Slot : slot[x] # None => slot[x].at \in Nat)
    BY <1>t, SlotTypes
  <2>2. now' \in Nat
    BY Numbers
  <2>3. c.at \in Nat /\ c # None
    BY CopyType, <1>t
  <2>4. now <= now'
    BY <2>1
  <2> QED BY <2>1, <2>2, <2>3, <2>4, <1>t DEF World, SlotsStamped
<1>s. slot'[s] = c /\ (\A x \in Slot : x # s => slot'[x] = slot[x]) /\ (\A x : x # s => (x \in late' <=> x \in late))
  BY <1>t DEF FileType
<1>r. \A x \in Slot : x # s => slot'[x] = slot[x]
  BY <1>s
<1>a. Ages /\ AgesHeld /\ Others(p)
  BY <1>t, AgesStay DEF World
<1>1. FileType' /\ RemoteType' /\ GhostType'
  BY <1>t DEF FileType, RemoteType, GhostType
<1>2. Files
  <2> SUFFICES ASSUME holder # None, NEW x \in Service, x \notin late'
               PROVE  \/ slot'[x] = None \/ (x \notin late /\ slot'[x] = slot[x])
                      \/ slot'[x] \in Credentials /\ GoodCopy(slot[x])'
    BY DEF Files
  <2>1. CASE x = s
    <3>1. GoodCopy(c)'
      BY <2>1, <1>a, Kin
    <3> QED BY <3>1, <2>1, <1>s DEF GoodCopy
  <2>2. CASE x # s
    BY <2>2, <1>s, SlotNames
  <2> QED BY <2>1, <2>2
<1>3. Cleared
  BY <1>s DEF Cleared
<1>4. Newer
  <2>1. slot'["cookie"] = slot["cookie"] \/ (slot'["cookie"] \in Credentials /\ slot'["cookie"].at > now)
    <3>1. CASE s = "cookie"
      <4>1. c.at = now + 1
        BY <3>1, SlotNames
      <4>2. c.at > now
        BY <4>1, <1>n
      <4> QED BY <4>2, <3>1, <1>s
    <3>2. CASE s # "cookie"
      BY <3>2, <1>s, SlotNames
    <3> QED BY <3>1, <3>2
  <2>2. ASSUME NEW x \in Service
        PROVE  \/ slot'[x] = slot[x]
               \/ slot'[x] \in Credentials /\ slot'[x].at > now
               \/ slot[x] # None /\ slot'[x].at = slot[x].at
    <3>1. CASE x = s
      <4>1. c.at = now + 1 => c.at > now
        BY <1>n
      <4> QED BY <4>1, <3>1, <1>s
    <3>2. CASE x # s
      <4>1. x \in Slot
        BY SlotNames
      <4>2. slot'[x] = slot[x]
        BY <3>2, <4>1, <1>r
      <4> QED BY <4>2
    <3> QED BY <3>1, <3>2
  <2> QED BY <2>1, <2>2 DEF Newer
<1>5. SlotsStamped' /\ Unborn'
  <2>1. \A x \in Slot : slot'[x] # None => slot'[x].at <= now'
    <3> SUFFICES ASSUME NEW x \in Slot, slot'[x] # None PROVE slot'[x].at <= now'
      OBVIOUS
    <3>1. x # s => slot'[x] = slot[x] /\ slot[x].at <= now /\ slot[x].at \in Nat
      BY <1>s, <1>n
    <3>2. x # s => slot'[x].at <= now'
      BY <3>1, <1>n
    <3> QED BY <3>2, <1>s
  <2> QED BY <2>1, <1>a DEF SlotsStamped, Ages
<1>6. Held' /\ AccountSlot' /\ CookieSlot' /\ ServicesKept'
  <2>1. CASE holder = None
    BY <2>1 DEF Held, AccountSlot, CookieSlot, ServicesKept
  <2>2. CASE holder # None
    <3>1. Held' /\ (LoggedIn' => LoggedIn)
      BY <2>2, <1>a, Kin
    <3>2. AccountSlot'
      <4>1. CASE s = "account"
        <5>1. slot'["account"] = c /\ slot["account"] # None
          BY <4>1, <1>s
        <5>2. c.key = holder.user /\ c.cookieAuth = holder.cookie
          BY <4>1, <2>2, <5>1, <1>t DEF World, AccountSlot
        <5>3. "account" \notin late' => GoodAccount(c)
          BY <4>1, <2>2
        <5> QED BY <5>1, <5>2, <5>3, <2>2, <1>n DEF AccountSlot, GoodAccount
      <4>2. CASE s # "account"
        BY <4>2, <3>1, <1>s, <1>t, SlotNames DEF World, AccountSlot, GoodAccount
      <4> QED BY <4>1, <4>2
    <3>3. CookieSlot'
      <4>1. CASE s = "cookie"
        BY <4>1, <3>1, <2>2, <1>s, <1>n DEF CookieSlot
      <4>2. CASE s # "cookie"
        BY <4>2, <3>1, <1>s, <1>t, SlotNames DEF World, CookieSlot
      <4> QED BY <4>1, <4>2
    <3>4. ServicesKept'
      <4> SUFFICES ASSUME "account" \notin late', slot'["account"] # None PROVE Trusted(slot["account"].at)'
        BY DEF ServicesKept
      <4>1. slot["account"] # None /\ "account" \notin late
        BY <1>s, SlotNames
      <4>2. Trusted(slot["account"].at) /\ slot["account"].at \in Nat /\ slot["account"].at <= now
        BY <4>1, <1>t, <1>n, <2>2, SlotNames DEF World, ServicesKept
      <4>3. PICK t \in Nat : t = slot["account"].at
        BY <4>2
      <4>4. Trusted(t)'
        BY <4>2, <4>3, <1>2, <1>a, <2>2, StillTrusted
      <4>5. slot'["account"].at \in Nat /\ slot'["account"].at >= t
        <5>1. CASE s = "account"
          BY <5>1, <1>s, <1>n, <4>2, <4>3, SlotNames
        <5>2. CASE s # "account"
          BY <5>2, <1>s, <4>2, <4>3, SlotNames
        <5> QED BY <5>1, <5>2
      <4> SUFFICES ASSUME NEW x \in Service, x \notin late', slot'[x] # None, slot'[x].service = x,
                          slot'[x].at >= slot'["account"].at
                   PROVE  GoodCopy(slot[x])'
        BY DEF Trusted
      <4>6. slot'[x].at \in Nat
        BY <1>s, <1>n, SlotNames
      <4>7. slot'[x].at >= t
        BY <4>5, <4>6
      <4> QED BY <4>4, <4>7 DEF Trusted
    <3> QED BY <3>1, <3>2, <3>3, <3>4
  <2> QED BY <2>1, <2>2
<1>7. epoch' \in {epoch, epoch + 1} /\ Calmly
  BY DEF Calmly
<1> QED BY <1>n, <1>a, <1>1, <1>2, <1>3, <1>4, <1>5, <1>6, <1>7 DEF WorldOf, World

(***************************************************************************)
(* What a program holds after its own step                                 *)
(***************************************************************************)
LEMMA AnyOp ==
  ASSUME SessionsInv, NEW p \in Proc
  PROVE  /\ cmd[p] \in Command /\ cmd[p].op \in {"login", "use", "logout"}
         /\ cmd[p].op = "login" => cmd[p].user \in User
         /\ cmd[p].op = "use" => cmd[p].service \in Service /\ ~cmd[p].force
         /\ cmd[p].cookie \in BOOLEAN
BY CommandType DEF SessionsInv, Local, LoginTypeOK
LEMMA Facts ==
  ASSUME SessionsInv, NEW p \in Proc
  PROVE  /\ LoginTypeOK /\ OwnType /\ FileType /\ RemoteType /\ GhostType /\ CountType
         /\ Track(p) /\ ActorOf(p) /\ Stamped /\ World /\ Alone
BY Types DEF SessionsInv, Local, OnTrack, Shared, Stamped, SlotsStamped, World, Actors, Logins, Turning,
   Programs, Logouts, LogoutIsComplete, LoggedOut, ActorOf
LEMMA UseActor ==
  ASSUME NEW p \in Proc, Track(p)', cmd'[p].op = "use", TurningOf(p)', ProgramOf(p)'
  PROVE  ActorOf(p)'
BY DEF Track, ActorOf, LoginOf, LogoutOf, LoggedOut, Signing, Ending
LEMMA LoginActor ==
  ASSUME NEW p \in Proc, Track(p)', cmd'[p].op = "login", LoginOf(p)'
  PROVE  ActorOf(p)'
BY DEF Track, ActorOf, TurningOf, ProgramOf, Work, Reader, LogoutOf, LoggedOut, Restoring, Ending
LEMMA LogoutActor ==
  ASSUME NEW p \in Proc, Track(p)', cmd'[p].op = "logout", LogoutOf(p)', LoggedOut(p)'
  PROVE  ActorOf(p)'
BY DEF Track, ActorOf, TurningOf, ProgramOf, Work, Reader, LoginOf, Restoring, Signing
LEMMA Later ==
  ASSUME NEW i \in Nat, NEW j \in Nat, NEW k \in {j, j + 1}
  PROVE  (i <= j => i <= k) /\ (i < j => i < k) /\ k \in Nat
OBVIOUS
LEMMA EndsOf ==
  ASSUME SessionsInv, NEW p \in Proc, NEW a \in {"none", "ok", "error", "not logged in"}, Ends(p, a),
         epoch' \in {epoch, epoch + 1},
         cmd[p].op = "logout" => a # "ok",
         Reader(p)' /\ a \in {"error", "not logged in"} => Severance'
  PROVE  OwnOf(p) /\ SameCommand(p)
<1>1. /\ OwnType' /\ Frame(p) /\ SameCommand(p) /\ At(p, "idle")
      /\ mine'[p] = 0 /\ acct'[p] = None /\ svc'[p] = None /\ answer'[p] = a
  BY Facts, EndsOwn
<1>2. since'[p] <= epoch'
  <2>1. since[p] <= epoch /\ since[p] \in Nat /\ epoch \in Nat
    BY Facts DEF Track, OwnType, GhostType
  <2>2. since[p] <= epoch'
    BY <2>1, Later
  <2> QED BY <2>2, <1>1 DEF SameCommand
<1>3. Track(p)'
  BY <1>1, <1>2 DEF Track, At, SameCommand, Signing, Restoring, Ending, Up
<1>4. Hands(p)'
  BY <1>1 DEF Hands
<1>5. ActorOf(p)'
  BY <1>1 DEF ActorOf, LoginOf, TurningOf, ProgramOf, Work, LogoutOf, LoggedOut, At, SameCommand, Signing, Up
<1> QED BY <1>1, <1>3, <1>4, <1>5 DEF OwnOf
LEMMA ReaderBefore ==
  ASSUME SessionsInv, NEW p \in Proc, Calmly, SameCommand(p), p \in excused => p \in excused', Reader(p)'
  PROVE  /\ Reader(p) /\ holder' = holder /\ holder # None /\ p \notin excused' /\ Current(p)
         /\ cmd[p].op = "use"
BY DEF Reader, Current, Calmly, SameCommand
(* With what the account's copy says, and what the session is.             *)
LEMMA ReaderKnows ==
  ASSUME SessionsInv, NEW p \in Proc, Reader(p)
  PROVE  /\ ProgramOf(p) /\ holder.uid \in UID /\ holder.uid # 0 /\ holder.cookie \in BOOLEAN
         /\ session[holder.uid].user = holder.user
         /\ session[holder.uid].mode \in {"dead", Style}
         /\ LoggedIn => session[holder.uid].mode = Style
         /\ Style = IF holder.cookie THEN "cookie" ELSE "bearer"
         /\ acct[p] # None => acct[p].cookieAuth = holder.cookie /\ acct[p].key = holder.user
<1>1. holder # None /\ ProgramOf(p)
  BY Facts DEF Reader, ActorOf
<1>2. /\ holder.uid \in UID /\ holder.uid # 0 /\ holder.cookie \in BOOLEAN
      /\ session[holder.uid].user = holder.user
      /\ session[holder.uid].mode \in {"dead", Style}
  BY <1>1, HolderType, Zero
<1>3. LoggedIn => session[holder.uid].mode = Style
  BY <1>2 DEF LoggedIn, Alive, Style
<1>4. acct[p] # None => GoodAccount(acct[p])
  BY <1>1 DEF ProgramOf, Work
<1> QED BY <1>1, <1>2, <1>3, <1>4 DEF GoodAccount, Style

LEMMA CountsSame == ASSUME CountType, UNCHANGED count PROVE CountType'
BY DEF CountType, count
LEMMA CountsTurned ==
  ASSUME CountType, rotations < MaxRotations, rotations' = rotations + 1, UNCHANGED <<commands, mishaps>>
  PROVE  CountType'
<1>1. rotations' \in 0..MaxRotations
  BY Numbers DEF CountType
<1> QED BY <1>1 DEF CountType
Reading(p) == excused' \in {excused, excused \cup {p}}
LEMMA ReadsOnly == ASSUME NEW p, NEW s, Reads(p, s) PROVE Reading(p) /\ (s \in late => p \in excused')
BY DEF Reads, Reading
LEMMA ReadingKeeps ==
  ASSUME SessionsInv, NEW p \in Proc, Reading(p)
  PROVE  /\ excused' \subseteq Proc /\ (\A q \in Proc \ {p} : q \in excused => q \in excused')
         /\ p \in excused => p \in excused'
BY Facts DEF Reading, GhostType

LEMMA WorldUntouched ==
  ASSUME SessionsInv, NEW p \in Proc, UNCHANGED <<remote, file, holder, epoch>>, CountType', Reading(p)
  PROVE  WorldOf(p)
BY ReadingKeeps, WorldQuiet DEF remote, file
LEMMA WorldMakes ==
  ASSUME SessionsInv, NEW p \in Proc, CanCreate, NEW n \in User \cup {Nobody}, NEW v, Create(n, v),
         v = 0 \/ (v \in UID /\ Alive(v)), UNCHANGED <<now, file, holder, epoch>>, CountType', Reading(p)
  PROVE  WorldOf(p)
<1>1. Ages /\ AgesHeld /\ Others(p)
  BY AgesCreate
<1>2. v \in 0..MaxSessions
  BY Zero
<1>3. session' \in [UID -> SessionRec]
  BY <1>2, Facts, CreateType DEF SessionRec
<1> QED BY <1>1, <1>3, ReadingKeeps, WorldSessions DEF file
LEMMA WorldTurns ==
  ASSUME SessionsInv, NEW p \in Proc, Alive(mine[p]), ToCookies(mine[p]), doing[p] \in {"bind", "transit"},
         UNCHANGED <<now, file, holder, epoch>>, CountType', Reading(p)
  PROVE  WorldOf(p)
<1>1. Ages /\ AgesHeld /\ Others(p)
  BY AgesCookies
<1>2. mine[p] \in UID
  BY Facts, SlotTypes DEF Alive
<1>3. session' \in [UID -> SessionRec]
  BY <1>2, Facts, ModeType DEF SessionRec
<1> QED BY <1>1, <1>3, ReadingKeeps, WorldSessions DEF file

(***************************************************************************)
(* A login                                                                 *)
(***************************************************************************)
StepOf(p) == OwnOf(p) /\ WorldOf(p) /\ SameCommand(p) /\ doing[p] # "idle"
Handed(p) ==
  /\ acct'[p] \in {None, acct[p]} \cup {slot[s] : s \in Slot}
  /\ svc'[p] \in {None, svc[p]} \cup {slot[s] : s \in Slot}
LEMMA Completes ==
  ASSUME SessionsInv, NEW p \in Proc, OwnType', Frame(p), SameCommand(p), Track(p)', ActorOf(p)', WorldOf(p),
         doing[p] # "idle", Handed(p)
  PROVE  StepOf(p)
<1> DEFINE old(c) == c # None => c.at <= now /\ c.at \in Nat
<1>1. \A s \in Slot : old(slot[s])
  BY Facts, SlotTypes DEF Stamped
<1>2. old(acct[p]) /\ old(svc[p]) /\ old(None)
  BY Facts, SlotTypes DEF Stamped
<1>3. old(acct'[p]) /\ old(svc'[p])
  BY <1>1, <1>2 DEF Handed
<1>4. now \in Nat /\ now' \in Nat /\ now <= now'
  <2>1. now' \in 0..MaxTime /\ now <= now'
    BY DEF WorldOf, RemoteType
  <2>2. now' \in Nat
    BY <2>1, Numbers
  <2> QED BY <2>1, <2>2, Facts, SlotTypes
<1>5. acct'[p] # None => acct'[p].at <= now'
  BY <1>3, <1>4
<1>6. svc'[p] # None => svc'[p].at <= now'
  BY <1>3, <1>4
<1> QED BY <1>5, <1>6 DEF StepOf, OwnOf, Hands
LEMMA LoginEnds ==
  ASSUME SessionsInv, NEW p \in Proc, doing[p] \in Signing \cup {"anon"}, Ends(p, "error"), UNCHANGED epoch
  PROVE  OwnOf(p) /\ SameCommand(p)
<1>1. cmd[p].op = "login"
  BY Facts DEF Track
<1>2. ~Reader(p)'
  BY <1>1 DEF Ends, Reader
<1> QED BY <1>1, <1>2, EndsOf
LEMMA AnonStep ==
  ASSUME SessionsInv, NEW p \in Proc, Anon(p)
  PROVE  StepOf(p)
<1> USE DEF Anon
<1>1. WorldOf(p)
  BY Facts, CountsSame, WorldMakes DEF ghost, Reading
<1>2. Fresh \in UID /\ Fresh # 0 /\ session[Fresh].mode = "unborn"
  BY FreshUnborn
<1>3. /\ OwnType' /\ Frame(p) /\ SameCommand(p) /\ At(p, "bind") /\ answer'[p] = answer[p] /\ mine'[p] = Fresh
      /\ acct'[p] = acct[p] /\ svc'[p] = svc[p] /\ key'[p] = key[p]
  BY <1>2, Facts, Zero, HoldsOwn DEF Doing
<1>4. cmd'[p].op = "login" /\ cmd'[p].cookie
  BY <1>3, Facts DEF Track, SameCommand
<1>5. Track(p)'
  BY <1>2, <1>3, <1>4, Facts DEF Track, SameCommand, At, ghost, Signing, Restoring, Ending, Up
<1>6. LoginOf(p)'
  <2>1. session'[Fresh] = [user |-> Nobody, parent |-> 0, mode |-> "bearer"]
    BY <1>2, Facts DEF Create, RemoteType
  <2>2. holder' # None => Fresh # holder'.uid
    BY <1>2, HolderType DEF ghost
  <2>3. Heads(mine[p])'
    BY <1>3, <2>1 DEF Heads
  <2>4. doing'[p] = "bind" /\ mine'[p] = Fresh
    BY <1>3 DEF At
  <2> QED BY <2>2, <2>3, <2>4 DEF LoginOf
<1>7. ActorOf(p)'
  BY <1>4, <1>5, <1>6, LoginActor
<1> QED BY <1>1, <1>3, <1>5, <1>7, Completes DEF Handed

LEMMA LoginQuits ==
  ASSUME SessionsInv, NEW p \in Proc, doing[p] \in Signing \cup {"anon"}, Ends(p, "error"),
         UNCHANGED <<remote, file, holder, epoch>>, CountType', Reading(p)
  PROVE  StepOf(p)
BY LoginEnds, WorldUntouched DEF StepOf, Signing
(* What a login knows of its session before and after its step.            *)
LEMMA LoginHas ==
  ASSUME SessionsInv, NEW p \in Proc, doing[p] \in Signing, mine[p] # 0
  PROVE  /\ cmd[p].op = "login" /\ mine[p] \in UID /\ LoginOf(p) /\ (holder # None => mine[p] # holder.uid)
         /\ session[mine[p]].mode # "unborn"
         /\ Ages /\ mine'[p] = mine[p] => Heads(mine[p])'
<1>1. cmd[p].op = "login" /\ LoginOf(p)
  BY Facts DEF Track, ActorOf
<1>2. mine[p] \in UID /\ (holder # None => mine[p] # holder.uid) /\ Heads(mine[p]) /\ session[mine[p]].mode # "unborn"
  BY <1>1, MineBorn DEF LoginOf
<1>3. ASSUME Ages, mine'[p] = mine[p] PROVE Heads(mine[p])'
  <2>1. PICK u \in UID : u = mine[p]
    BY <1>2
  <2>2. Heads(u)'
    BY <1>2, <1>3, <2>1 DEF Ages
  <2> QED BY <1>3, <2>1, <2>2 DEF Heads
<1> QED BY <1>1, <1>2, <1>3
LEMMA BindStep ==
  ASSUME SessionsInv, NEW p \in Proc, Bind(p)
  PROVE  StepOf(p)
<1>0. doing[p] = "bind" /\ UNCHANGED <<now, file, holder, epoch>> /\ CountType' /\ Reading(p)
  BY Facts, CountsSame DEF Bind, ghost, Reading
<1>1. CASE ~Alive(mine[p])
  BY <1>0, <1>1, LoginQuits DEF Bind, Signing, remote
<1>2. CASE Alive(mine[p])
  <2>1. ToCookies(mine[p]) /\ Goes(p, "srp")
    BY <1>2 DEF Bind
  <2>2. WorldOf(p)
    BY <1>0, <1>2, <2>1, WorldTurns
  <2>3. OwnType' /\ Frame(p) /\ Kept(p) /\ At(p, "srp") /\ answer'[p] = answer[p]
    BY <2>1, Facts, GoesOwn DEF Doing
  <2>4. /\ cmd'[p] = cmd[p] /\ cmd[p].op = "login" /\ cmd[p].cookie /\ mine[p] # 0 /\ mine'[p] = mine[p]
        /\ doing'[p] = "srp" /\ since'[p] = since[p] /\ acct'[p] = acct[p] /\ svc'[p] = svc[p]
    BY <1>0, <2>3, Facts DEF Track, Kept, SameCommand, At, Signing
  <2>5. Track(p)'
    BY <1>0, <2>3, <2>4, Facts DEF Track, Signing, Restoring, Ending, Up
  <2>6. LoginOf(p)'
    <3>1. Heads(mine[p])' /\ mine[p] \in UID /\ (holder # None => mine[p] # holder.uid)
      BY <1>0, <2>2, <2>4, LoginHas DEF WorldOf, Signing
    <3>2. session'[mine[p]].mode = "cookie"
      BY <2>1, <3>1, Facts DEF ToCookies, RemoteType, SessionRec
    <3> QED BY <1>0, <2>4, <3>1, <3>2 DEF LoginOf, Heads
  <2>7. ActorOf(p)'
    BY <2>4, <2>5, <2>6, LoginActor
  <2> QED BY <1>0, <2>2, <2>3, <2>4, <2>5, <2>7, Completes DEF Handed, Kept
<1> QED BY <1>1, <1>2
(* A step of a login that leaves its session as it is.                     *)
LEMMA LoginGoes ==
  ASSUME SessionsInv, NEW p \in Proc, doing[p] \in Signing, NEW l \in Signing \ {"save"},
         UNCHANGED <<remote, file, holder, epoch>>, CountType', Reading(p),
         OwnType', Frame(p), SameCommand(p), doing'[p] = l, mine'[p] = mine[p], acct'[p] = acct[p], svc'[p] = svc[p],
         answer'[p] = answer[p], l # "bind" /\ doing[p] # "bind",
         l \in {"srp", "captcha", "retry"} => doing[p] \in {"srp", "captcha", "retry"},
         l \in {"twofa", "derive", "drop"} => doing[p] \in {"twofa", "derive", "drop"},
         l = "drop" => key'[p] = cmd[p].user
  PROVE  StepOf(p)
<1>1. WorldOf(p)
  BY WorldUntouched
<1>2. cmd'[p] = cmd[p] /\ since'[p] = since[p] /\ epoch' = epoch /\ holder' = holder /\ cmd[p].op = "login"
      /\ session' = session
  BY Facts DEF SameCommand, Track, remote
<1>3. Track(p)'
  BY <1>2, Facts DEF Track, Signing, Restoring, Ending, Up
<1>4. LoginOf(p)'
  <2>1. LoginOf(p)
    BY Facts DEF ActorOf
  <2>2. mine[p] # 0 => Heads(mine[p])'
    BY <1>1, LoginHas DEF WorldOf
  <2> QED BY <1>2, <2>1, <2>2 DEF LoginOf, Signing
<1>5. ActorOf(p)'
  BY <1>2, <1>3, <1>4, LoginActor
<1> QED BY <1>1, <1>3, <1>5, Completes DEF Handed, Signing
LEMMA CaptchaSteps ==
  ASSUME SessionsInv, NEW p \in Proc, AsksForCaptcha(p) \/ SolveCaptcha(p)
  PROVE  StepOf(p)
<1>0. UNCHANGED <<remote, file, holder, epoch>> /\ CountType' /\ Reading(p)
  BY Facts, CountsSame DEF AsksForCaptcha, SolveCaptcha, ghost, Reading
<1>1. PICK l \in {"captcha", "retry"} : Goes(p, l) /\ doing[p] \in {"srp", "captcha"}
  BY DEF AsksForCaptcha, SolveCaptcha
<1>2. OwnType' /\ Frame(p) /\ Kept(p) /\ At(p, l) /\ answer'[p] = answer[p]
  BY <1>1, Facts, GoesOwn DEF Doing
<1> QED BY <1>0, <1>1, <1>2, LoginGoes DEF Kept, SameCommand, At, Signing
LEMMA SecondFactorStep ==
  ASSUME SessionsInv, NEW p \in Proc, SecondFactor(p)
  PROVE  StepOf(p)
<1>0. doing[p] = "twofa" /\ UNCHANGED <<remote, file, holder, epoch>> /\ CountType' /\ Reading(p)
  BY Facts, CountsSame DEF SecondFactor, ghost, Reading
<1>1. CASE Ends(p, "error")
  BY <1>0, <1>1, LoginQuits DEF Signing
<1>2. CASE Goes(p, "derive")
  <2>1. OwnType' /\ Frame(p) /\ Kept(p) /\ At(p, "derive") /\ answer'[p] = answer[p]
    BY <1>2, Facts, GoesOwn DEF Doing
  <2> QED BY <1>0, <2>1, LoginGoes DEF Kept, SameCommand, At, Signing
<1> QED BY <1>1, <1>2 DEF SecondFactor
LEMMA DeriveStep ==
  ASSUME SessionsInv, NEW p \in Proc, Derive(p)
  PROVE  StepOf(p)
<1>0. doing[p] = "derive" /\ UNCHANGED <<remote, file, holder, epoch>> /\ CountType' /\ Reading(p)
  BY Facts, CountsSame DEF Derive, ghost, Reading
<1>1. CASE ~Alive(mine[p])
  BY <1>0, <1>1, LoginQuits DEF Derive, Signing
<1>2. CASE Alive(mine[p])
  <2>1. MoveTo(p, "drop") /\ key' = [key EXCEPT ![p] = cmd[p].user] /\ UNCHANGED <<cmd, acct, svc, mine, since, answer>>
    BY <1>2 DEF Derive
  <2>2. cmd[p].user \in User
    BY <1>0, Facts, AnyOp DEF Track, Signing
  <2>3. OwnType /\ "drop" \in Doing
    BY Facts DEF Doing
  <2>4. OwnType'
    BY <2>1, <2>2, <2>3 DEF OwnType, MoveTo
  <2>5. Frame(p) /\ SameCommand(p) /\ doing'[p] = "drop" /\ key'[p] = cmd[p].user
    BY <2>1, <2>3 DEF OwnType, MoveTo, Frame, Unmoved, SameCommand
  <2> QED BY <1>0, <2>1, <2>4, <2>5, LoginGoes DEF Signing
<1> QED BY <1>1, <1>2

LEMMA AuthenticatesStep ==
  ASSUME SessionsInv, NEW p \in Proc, Authenticates(p)
  PROVE  StepOf(p)
<1>0. /\ doing[p] \in {"srp", "retry"} /\ UNCHANGED <<now, file, holder, epoch>> /\ CountType' /\ Reading(p)
      /\ cmd[p].op = "login" /\ cmd[p].user \in User /\ cmd[p].cookie \in BOOLEAN
      /\ (cmd[p].cookie => mine[p] # 0) /\ answer[p] = "none" /\ since[p] <= epoch
  BY Facts, AnyOp, CountsSame DEF Authenticates, ghost, Reading, Track, Signing, Up
<1>1. CASE cmd[p].cookie /\ ~Alive(mine[p])
  BY <1>0, <1>1, LoginQuits DEF Authenticates, Signing, remote
<1>2. CASE ~cmd[p].cookie
  <2>1. CanCreate /\ Create(cmd[p].user, 0) /\ Holds(p, "twofa", Fresh)
    BY <1>2 DEF Authenticates
  <2>2. WorldOf(p)
    BY <1>0, <2>1, WorldMakes
  <2>3. Fresh \in UID /\ Fresh # 0 /\ session[Fresh].mode = "unborn"
    BY <2>1, FreshUnborn
  <2>4. /\ OwnType' /\ Frame(p) /\ SameCommand(p) /\ At(p, "twofa") /\ answer'[p] = answer[p] /\ mine'[p] = Fresh
        /\ acct'[p] = acct[p] /\ svc'[p] = svc[p]
    BY <2>1, <2>3, Facts, Zero, HoldsOwn DEF Doing
  <2>5. cmd'[p] = cmd[p] /\ doing'[p] = "twofa" /\ since'[p] = since[p]
    BY <2>4 DEF SameCommand, At
  <2>6. Track(p)'
    BY <1>0, <1>2, <2>3, <2>4, <2>5, Facts DEF Track, Signing, Restoring, Ending, Up
  <2>7. LoginOf(p)'
    <3>1. session'[Fresh] = [user |-> cmd[p].user, parent |-> 0, mode |-> "bearer"]
      BY <2>1, <2>3, Facts DEF Create, RemoteType
    <3>2. holder' # None => Fresh # holder'.uid
      BY <1>0, <2>3, HolderType
    <3>3. Heads(mine[p])'
      BY <2>4, <3>1 DEF Heads
    <3>4. /\ session'[mine'[p]].user = cmd'[p].user /\ session'[mine'[p]].mode = "bearer" /\ ~cmd'[p].cookie
          /\ holder' # None => mine'[p] # holder'.uid
      BY <1>2, <2>4, <2>5, <3>1, <3>2
    <3> QED BY <2>5, <3>3, <3>4 DEF LoginOf
  <2>8. ActorOf(p)'
    BY <1>0, <2>5, <2>6, <2>7, LoginActor
  <2> QED BY <1>0, <2>2, <2>4, <2>6, <2>8, Completes DEF Handed
<1>3. CASE cmd[p].cookie /\ Alive(mine[p])
  <2>1. session' = [session EXCEPT ![mine[p]].user = cmd[p].user] /\ Goes(p, "twofa")
    BY <1>3 DEF Authenticates
  <2>2. WorldOf(p)
    <3>1. Ages /\ AgesHeld /\ Others(p)
      BY <1>0, <1>3, <2>1, AgesUser
    <3>2. session' \in [UID -> SessionRec]
      BY <1>0, <2>1, Facts, UserType DEF SessionRec
    <3> QED BY <1>0, <3>1, <3>2, ReadingKeeps, WorldSessions DEF file
  <2>3. OwnType' /\ Frame(p) /\ Kept(p) /\ At(p, "twofa") /\ answer'[p] = answer[p]
    BY <2>1, Facts, GoesOwn DEF Doing
  <2>4. /\ cmd'[p] = cmd[p] /\ mine'[p] = mine[p] /\ doing'[p] = "twofa" /\ since'[p] = since[p]
        /\ acct'[p] = acct[p] /\ svc'[p] = svc[p]
    BY <2>3 DEF Kept, SameCommand, At
  <2>5. Track(p)'
    BY <1>0, <1>3, <2>3, <2>4, Facts DEF Track, Signing, Restoring, Ending, Up
  <2>6. LoginOf(p)'
    <3>1. Heads(mine[p])' /\ mine[p] \in UID /\ (holder # None => mine[p] # holder.uid) /\ LoginOf(p)
      BY <1>0, <1>3, <2>2, <2>4, LoginHas DEF WorldOf, Signing
    <3>2. session'[mine[p]].user = cmd[p].user /\ session'[mine[p]].mode = session[mine[p]].mode
      BY <2>1, <3>1, Facts DEF RemoteType, SessionRec
    <3>3. session[mine[p]].mode \in {"dead", IF cmd[p].cookie THEN "cookie" ELSE "bearer"}
      BY <1>0, <1>3, <3>1 DEF LoginOf, Signing
    <3> QED BY <1>0, <2>4, <3>1, <3>2, <3>3 DEF LoginOf
  <2>7. ActorOf(p)'
    BY <1>0, <2>4, <2>5, <2>6, LoginActor
  <2>8. SameCommand(p) /\ Handed(p) /\ doing[p] # "idle"
    BY <1>0, <2>3, <2>4 DEF Kept, Handed
  <2> QED BY <2>2, <2>3, <2>5, <2>7, <2>8, Completes
<1> QED BY <1>1, <1>2, <1>3, <1>0

(* Nobody is the holder while the two slots are written.                   *)
LEMMA WorldVacant ==
  ASSUME SessionsInv, NEW p \in Proc, UNCHANGED <<session, epoch>>, FileType', CountType', Reading(p),
         now' \in {now, now + 1}, now' \in 0..MaxTime, SlotsStamped', holder' = None, Sole(p)
  PROVE  WorldOf(p)
<1>1. Ages /\ AgesHeld /\ Others(p) /\ Unborn
  BY Facts, AgesStay DEF World
<1>2. RemoteType' /\ GhostType'
  BY Facts, ReadingKeeps DEF RemoteType, GhostType
<1>3. Unborn' /\ Held' /\ AccountSlot' /\ CookieSlot' /\ ServicesKept'
  BY <1>1 DEF Unborn, Held, AccountSlot, CookieSlot, ServicesKept
<1>4. now <= now'
  BY Facts, SlotTypes
<1>5. epoch' \in {epoch, epoch + 1}
  OBVIOUS
<1> QED BY <1>1, <1>2, <1>3, <1>4, <1>5, ReadingKeeps DEF WorldOf, World
LEMMA Ticks ==
  ASSUME SessionsInv, CanStamp, TakeStamp
  PROVE  /\ now' = now + 1 /\ now' \in 0..MaxTime /\ Stamp = now' /\ now' \in Nat /\ now \in Nat /\ now' > now
         /\ \A s \in Slot : slot[s] # None => slot[s].at < now' /\ slot[s].at <= now' /\ slot[s].at # now'
<1>0. LoginTypeOK /\ Stamped
  BY DEF SessionsInv, Local, Shared
<1>1. now \in 0..MaxTime
  BY <1>0 DEF LoginTypeOK
<1>2. now' = now + 1 /\ now' \in 0..MaxTime /\ Stamp = now' /\ now' \in Nat /\ now \in Nat /\ now' > now
  BY <1>1, Numbers DEF CanStamp, TakeStamp, Stamp
<1>3. ASSUME NEW s \in Slot, slot[s] # None PROVE slot[s].at < now' /\ slot[s].at <= now' /\ slot[s].at # now'
  <2>1. slot[s].at \in Nat /\ slot[s].at <= now
    BY <1>0, <1>3, SlotTypes DEF Stamped
  <2> QED BY <2>1, <1>2
<1> QED BY <1>2, <1>3

LEMMA FirstWriteStep ==
  ASSUME SessionsInv, NEW p \in Proc, FirstWrite(p)
  PROVE  StepOf(p)
<1>0. /\ doing[p] = "drop" /\ UNCHANGED <<session, epoch, excused>> /\ CountType' /\ Reading(p) /\ holder' = None
      /\ cmd[p].op = "login" /\ cmd[p].user \in User /\ mine[p] # 0 /\ answer[p] = "none" /\ since[p] <= epoch
      /\ MoveTo(p, "save") /\ UNCHANGED <<cmd, svc, mine, key, since, answer>>
  BY Facts, AnyOp, CountsSame DEF FirstWrite, Reading, Track, Signing, Up
<1>1. LoginOf(p) /\ Heads(mine[p])' /\ mine[p] \in UID /\ key[p] = cmd[p].user
  <2>1. Heads(mine[p]) /\ LoginOf(p) /\ mine[p] \in UID
    BY <1>0, Facts, LoginHas DEF ActorOf, LoginOf, Signing
  <2> QED BY <1>0, <2>1 DEF Heads, LoginOf
<1>2. OwnType /\ "save" \in Doing /\ doing' = [doing EXCEPT ![p] = "save"]
  BY <1>0, Facts DEF Doing, MoveTo
<1>3. PICK c \in Credentials \cup {None} :
        /\ slot' = [slot EXCEPT !["cookie"] = c] /\ late' \subseteq Slot
        /\ now' \in {now, now + 1} /\ now' \in 0..MaxTime /\ now' \in Nat /\ now \in Nat /\ now <= now'
        /\ c # None => c.at = now'
        /\ acct' = IF cmd[p].cookie THEN [acct EXCEPT ![p] = c] ELSE acct
        /\ cmd[p].cookie =>
             /\ c # None /\ c.uid = mine[p] /\ c.auth = mine[p] /\ c.key = cmd[p].user /\ ~c.bearer /\ c.cookieAuth
             /\ \A s \in Service : slot[s] # None => slot[s].at # c.at
  <2>1. CASE cmd[p].cookie
    <3> DEFINE c == CookieCredentials(p)
    <3>1. CanStamp /\ TakeStamp /\ Write(p, "cookie", c) /\ acct' = [acct EXCEPT ![p] = c]
      BY <2>1 DEF FirstWrite
    <3>2. c \in Credentials
      BY <1>1, <3>1, Facts, SavedType DEF CookieCredentials, OwnType
    <3>3. /\ c.uid = mine[p] /\ c.auth = mine[p] /\ c.key = cmd[p].user /\ ~c.bearer /\ c.cookieAuth
          /\ c.at = Stamp
      BY <1>1 DEF CookieCredentials, Saved
    <3>4. slot' = [slot EXCEPT !["cookie"] = c] /\ late' \subseteq Slot
      BY <3>1, Facts, SlotNames DEF Write, FileType
    <3>5. c # None
      BY <3>2, NoneAssumption
    <3>6. /\ now' = now + 1 /\ now' \in 0..MaxTime /\ Stamp = now' /\ now' \in Nat /\ now \in Nat /\ now <= now'
          /\ \A s \in Service : slot[s] # None => slot[s].at # now'
      <4>1. now' > now /\ now' \in Nat /\ now \in Nat => now <= now'
        OBVIOUS
      <4> QED BY <3>1, <4>1, Ticks, SlotNames
    <3> HIDE DEF c
    <3> QED BY <2>1, <3>1, <3>2, <3>3, <3>4, <3>5, <3>6
  <2>2. CASE ~cmd[p].cookie
    <3>1. Write(p, "cookie", None) /\ now' = now /\ acct' = acct
      BY <2>2 DEF FirstWrite
    <3>2. slot' = [slot EXCEPT !["cookie"] = None] /\ late' \subseteq Slot
      BY <3>1, Facts, SlotNames DEF Write, FileType
    <3>3. now \in 0..MaxTime /\ now \in Nat /\ now <= now
      BY Facts, SlotTypes DEF RemoteType
    <3> QED BY <2>2, <3>1, <3>2, <3>3
  <2> QED BY <2>1, <2>2
<1>4. WorldOf(p)
  <2>1. FileType'
    BY <1>3, Facts DEF FileType
  <2>2. SlotsStamped'
    <3> SUFFICES ASSUME NEW s \in Slot, slot'[s] # None PROVE slot'[s].at <= now'
      BY DEF SlotsStamped
    <3>1. CASE s = "cookie"
      BY <3>1, <1>3, Facts DEF FileType
    <3>2. CASE s # "cookie"
      <4>1. slot'[s] = slot[s]
        BY <3>2, <1>3, Facts DEF FileType
      <4>2. slot[s].at <= now /\ slot[s].at \in Nat
        BY <4>1, Facts, SlotTypes DEF Stamped
      <4> QED BY <4>1, <4>2, <1>3
    <3> QED BY <3>1, <3>2
  <2> QED BY <1>0, <1>3, <2>1, <2>2, WorldVacant DEF Sole
<1>5. OwnType'
  BY <1>0, <1>2, <1>3 DEF OwnType
<1>6. /\ Frame(p) /\ SameCommand(p) /\ doing'[p] = "save" /\ mine'[p] = mine[p] /\ key'[p] = key[p] /\ svc'[p] = svc[p]
      /\ cmd'[p] = cmd[p] /\ since'[p] = since[p] /\ answer'[p] = answer[p]
  BY <1>0, <1>2, <1>3 DEF Frame, Unmoved, SameCommand, OwnType
<1>7. /\ cmd[p].cookie => acct'[p] # None /\ acct'[p].at = now' /\ slot'["cookie"] = acct'[p]
      /\ ~cmd[p].cookie => acct'[p] = acct[p]
      /\ \A s \in Service : slot'[s] = slot[s]
  BY <1>2, <1>3, Facts, SlotNames DEF OwnType, FileType
<1>8. Track(p)'
  BY <1>0, <1>6, <1>7, Facts DEF Track, Signing, Restoring, Ending, Up
<1>9. LoginOf(p)'
  <2>1. mine'[p] = mine[p] /\ cmd'[p] = cmd[p] /\ key'[p] = key[p] /\ doing'[p] = "save" /\ holder' = None
    BY <1>0, <1>6
  <2>2. /\ session'[mine[p]].mode \in {"dead", IF cmd[p].cookie THEN "cookie" ELSE "bearer"}
        /\ session'[mine[p]].user = cmd[p].user /\ key[p] = cmd[p].user
    BY <1>0, <1>1 DEF LoginOf, Signing
  <2>3. cmd[p].cookie =>
          /\ acct'[p].uid = mine[p] /\ acct'[p].auth = mine[p] /\ acct'[p].key = cmd[p].user
          /\ ~acct'[p].bearer /\ acct'[p].cookieAuth
          /\ slot'["cookie"] # None /\ slot'["cookie"] = acct'[p]
          /\ \A s \in Service : slot'[s] # None => slot'[s].at # acct'[p].at
    <3> SUFFICES ASSUME cmd[p].cookie
                 PROVE  /\ acct'[p] = c /\ c # None /\ slot'["cookie"] = acct'[p]
                        /\ \A s \in Service : slot'[s] # None => slot'[s].at # c.at
      BY <1>3
    <3>1. acct'[p] = c
      BY <1>2, <1>3 DEF OwnType
    <3> QED BY <3>1, <1>3, <1>7
  <2>4. Heads(mine[p])'
    BY <1>1
  <2> QED BY <2>1, <2>2, <2>3, <2>4 DEF LoginOf
<1>10. ActorOf(p)'
  BY <1>0, <1>6, <1>8, <1>9, LoginActor
<1>11. Hands(p)'
  <2>1. svc[p] # None => svc[p].at <= now /\ svc[p].at \in Nat
    BY Facts, SlotTypes DEF Stamped
  <2>2. acct[p] # None => acct[p].at <= now /\ acct[p].at \in Nat
    BY Facts, SlotTypes DEF Stamped
  <2>3. svc'[p] # None => svc'[p].at <= now'
    BY <1>3, <1>6, <2>1
  <2>4. acct'[p] # None => acct'[p].at <= now'
    BY <1>3, <1>7, <2>2
  <2> QED BY <2>3, <2>4 DEF Hands
<1> QED BY <1>0, <1>4, <1>5, <1>6, <1>8, <1>10, <1>11 DEF StepOf, OwnOf

LEMMA SaveAccountStep ==
  ASSUME SessionsInv, NEW p \in Proc, SaveAccount(p)
  PROVE  StepOf(p)
<1> DEFINE a == AccountCredentials(p)
<1>0. /\ doing[p] = "save" /\ UNCHANGED <<session, excused>> /\ CountType' /\ Reading(p) /\ epoch' = epoch + 1
      /\ cmd[p].op = "login" /\ cmd[p].user \in User /\ cmd[p].cookie \in BOOLEAN /\ mine[p] # 0
      /\ CanStamp /\ TakeStamp /\ Ends(p, "ok") /\ slot' = [slot EXCEPT !["account"] = a]
      /\ late' = {s \in Slot \ {"account"} : slot[s] # None /\ slot[s].at > a.at}
      /\ holder' = [user |-> cmd[p].user, uid |-> mine[p], cookie |-> cmd[p].cookie]
  BY Facts, AnyOp, CountsSame DEF SaveAccount, Reading, Track, Signing
<1>1. LoginOf(p) /\ Heads(mine[p]) /\ mine[p] \in UID
  BY <1>0, Facts, LoginHas DEF ActorOf, LoginOf, Signing
<1>2. /\ session[mine[p]].user = cmd[p].user /\ key[p] = cmd[p].user
      /\ session[mine[p]].mode \in {"dead", IF cmd[p].cookie THEN "cookie" ELSE "bearer"}
  BY <1>0, <1>1 DEF LoginOf, Signing
<1>n. /\ now' = now + 1 /\ now' \in 0..MaxTime /\ Stamp = now' /\ now' \in Nat /\ now \in Nat /\ now <= now'
      /\ \A s \in Slot : slot[s] # None => slot[s].at <= now' /\ slot[s].at # now' /\ slot[s].at \in Nat
  <2>1. now' > now /\ now' \in Nat /\ now \in Nat => now <= now'
    OBVIOUS
  <2> QED BY <1>0, <2>1, Ticks, Facts, SlotTypes
<1>3. /\ a \in Credentials /\ a.uid = mine[p] /\ a.auth = mine[p] /\ a.key = cmd[p].user
      /\ a.cookieAuth = cmd[p].cookie /\ (~cmd[p].cookie => a.bearer) /\ a.at \in Nat /\ a.at <= now' /\ a # None
      /\ \A s \in Service : slot[s] # None => slot[s].at # a.at
  <2>1. CASE cmd[p].cookie
    <3>1. a = acct[p] /\ acct[p] # None /\ acct[p] \in Credentials
      BY <1>0, <2>1, Facts, SlotTypes DEF AccountCredentials, Track
    <3>2. acct[p].at <= now /\ acct[p].at \in Nat
      BY <3>1, Facts, SlotTypes DEF Stamped
    <3>3. acct[p].at <= now'
      BY <3>2, <1>n
    <3> HIDE DEF a
    <3> QED BY <1>0, <1>1, <2>1, <3>1, <3>2, <3>3, SlotNames DEF LoginOf
  <2>2. CASE ~cmd[p].cookie
    <3>1. a = Saved(mine[p], TRUE, key[p])
      BY <2>2 DEF AccountCredentials, BearerAccountOnly
    <3> HIDE DEF a
    <3>2. a \in Credentials
      BY <1>0, <1>1, <3>1, Facts, SavedType DEF OwnType
    <3>3. /\ a.uid = mine[p] /\ a.auth = mine[p] /\ a.key = cmd[p].user
          /\ a.cookieAuth = FALSE /\ a.bearer = TRUE /\ a.at = now'
      BY <1>2, <1>n, <3>1 DEF Saved
    <3>4. a # None
      BY <3>2, NoneAssumption
    <3>5. a.at \in Nat /\ a.at <= now'
      BY <1>n, <3>3
    <3>6. \A s \in Service : slot[s] # None => slot[s].at # a.at
      BY <1>n, <3>3, SlotNames
    <3> QED BY <1>0, <2>2, <3>2, <3>3, <3>4, <3>5, <3>6
  <2> QED BY <2>1, <2>2
<1> HIDE DEF a
<1>4. OwnOf(p) /\ SameCommand(p)
  <2>1. ~Reader(p)'
    BY <1>0 DEF Ends, Reader
  <2> QED BY <1>0, <2>1, EndsOf
<1>5. Ages /\ AgesHeld /\ Others(p) /\ Unborn'
  BY <1>0, Facts, AgesStay DEF World, Ages
<1>6. slot'["account"] = a /\ \A s \in Slot \ {"account"} : slot'[s] = slot[s]
  BY <1>0, Facts, SlotNames DEF FileType
<1>7. FileType' /\ RemoteType' /\ GhostType'
  <2>1. FileType'
    BY <1>0, <1>3, Facts DEF FileType
  <2>2. RemoteType'
    BY <1>0, <1>n, Facts DEF RemoteType
  <2>3. epoch' \in Nat
    BY <1>0, Facts DEF GhostType
  <2>4. GhostType'
    BY <1>0, <1>1, <2>3, Facts DEF GhostType
  <2> QED BY <2>1, <2>2, <2>4
<1>8. SlotsStamped'
  BY <1>3, <1>6, <1>n DEF SlotsStamped
<1>9. Held'
  BY <1>0, <1>1, <1>2 DEF Held, Heads, Style
<1>10. AccountSlot'
  BY <1>0, <1>3, <1>6 DEF AccountSlot, GoodAccount
<1>11. CookieSlot'
  <2> SUFFICES ASSUME cmd[p].cookie, "cookie" \notin late'
               PROVE  slot'["cookie"] = acct[p] /\ acct[p] # None
    BY <1>0, <1>1 DEF CookieSlot, LoginOf
  <2>1. a = acct[p] /\ acct[p] # None
    BY <1>0, Facts DEF a, AccountCredentials, Track
  <2>2. slot'["cookie"] = slot["cookie"] /\ "cookie" \in Slot \ {"account"}
    BY <1>6, SlotNames
  <2>3. slot["cookie"] # None /\ (slot["cookie"] = acct[p] \/ slot["cookie"].at > acct[p].at)
    BY <1>0, <1>1 DEF LoginOf
  <2> QED BY <1>0, <2>1, <2>2, <2>3
<1>12. ServicesKept'
  <2> SUFFICES ASSUME NEW s \in Service, s \notin late', slot'[s] # None, slot'[s].at >= a.at PROVE FALSE
    BY <1>6 DEF ServicesKept, Trusted
  <2>1. s \in Slot \ {"account"} /\ slot'[s] = slot[s] /\ slot[s].at \in Nat /\ slot[s].at # a.at
    BY <1>3, <1>6, <1>n, SlotNames
  <2>2. ~(slot[s].at > a.at)
    BY <1>0, <2>1
  <2> QED BY <1>3, <2>1, <2>2
<1>13. WorldOf(p)
  <2>1. Sole(p) /\ epoch' \in {epoch, epoch + 1}
    BY <1>0 DEF Sole
  <2> QED BY <1>0, <1>n, <1>5, <1>7, <1>8, <1>9, <1>10, <1>11, <1>12, <2>1 DEF WorldOf, World
<1> QED BY <1>0, <1>4, <1>13 DEF StepOf

(***************************************************************************)
(* A program that restores a session                                       *)
(***************************************************************************)
Fits(s) == s \in late \/ slot[s] = None \/ GoodCopy(slot[s])
(* What a reader knows survives its own step.                              *)
LEMMA StandsBy ==
  ASSUME SessionsInv, NEW p, WorldOf(p), Calmly, holder # None
  PROVE  /\ \A u \in UID : ChildOf(u) => ChildOf(u)'
         /\ \A c \in Credentials : GoodCopy(c) => GoodCopy(c)'
         /\ \A c \in Credentials : GoodAccount(c) => GoodAccount(c)'
         /\ \A t \in Nat : Trusted(t) => Trusted(t)'
         /\ \A s \in Service : Fits(s) => Fits(s)'
         /\ LoggedIn' => LoggedIn
         /\ Severance => Severance'
<1>1. Ages /\ AgesHeld /\ holder' = holder
  BY DEF WorldOf, Calmly
<1>2. Files
  <2>1. epoch \in Nat /\ epoch' = epoch
    BY DEF SessionsInv, Local, LoginTypeOK, Calmly
  <2>2. epoch' # epoch + 1
    BY <2>1
  <2> QED BY <1>1, <2>2 DEF WorldOf
<1>3. LoginTypeOK
  BY DEF SessionsInv, Local
<1>4. ASSUME NEW s \in Service, Fits(s) PROVE Fits(s)'
  <2>1. CASE s \notin late /\ slot'[s] = slot[s] /\ slot[s] # None
    <3>1. PICK c \in Credentials : c = slot[s]
      BY <1>3, <2>1, SlotTypes, SlotNames
    <3>2. GoodCopy(c)'
      BY <1>1, <1>4, <2>1, <3>1, Kin DEF Fits
    <3> QED BY <2>1, <3>1, <3>2 DEF Fits, GoodCopy
  <2> QED BY <1>2, <1>4, <2>1 DEF Files, Fits
<1> QED BY <1>1, <1>2, <1>4, Kin, StillTrusted
LEMMA UseFinish ==
  ASSUME SessionsInv, NEW p \in Proc, OwnType', Frame(p), SameCommand(p), Track(p)', WorldOf(p), Calmly, Reading(p),
         doing[p] # "idle", Handed(p), cmd[p].op = "use", TurningOf(p)',
         acct'[p] = acct[p], answer'[p] \in {"none", "ok"},
         Reader(p) /\ p \notin excused' => Work(p)'
  PROVE  StepOf(p)
<1>1. ProgramOf(p)'
  <2> SUFFICES ASSUME Reader(p)' PROVE ProgramOf(p)'
    BY DEF ProgramOf
  <2>1. Reader(p) /\ p \notin excused' /\ holder # None
    BY ReadingKeeps, ReaderBefore
  <2>2. Work(p)'
    BY <2>1
  <2>3. acct'[p] # None => GoodAccount(acct[p])' /\ Trusted(acct[p].at)'
    <3> SUFFICES ASSUME acct[p] # None PROVE GoodAccount(acct[p])' /\ Trusted(acct[p].at)'
      OBVIOUS
    <3>1. PICK a \in Credentials : a = acct[p] /\ a.at \in Nat
      BY Facts, SlotTypes
    <3>2. GoodAccount(a) /\ Trusted(a.at)
      BY <2>1, <3>1, ReaderKnows DEF ProgramOf
    <3>3. GoodAccount(a)' /\ Trusted(a.at)'
      BY <2>1, <3>1, <3>2, StandsBy
    <3> QED BY <3>1, <3>3 DEF GoodAccount, Trusted
  <2> QED BY <2>2, <2>3 DEF ProgramOf
<1>2. cmd'[p].op = "use"
  BY DEF SameCommand
<1>3. ActorOf(p)'
  BY <1>1, <1>2, UseActor
<1> QED BY <1>3, Completes
(* A program fails for a fork of the login that was ended, or after a      *)
(* logout.                                                                 *)
LEMMA UseQuits ==
  ASSUME SessionsInv, NEW p \in Proc, cmd[p].op = "use", doing[p] # "idle",
         NEW a \in {"error", "not logged in"}, Ends(p, a), WorldOf(p), Calmly, Reading(p), UNCHANGED session,
         Reader(p) /\ p \notin excused' /\ LoggedIn =>
           \E u \in UID : session[u].mode = "dead" /\ session[u].parent = holder.uid
  PROVE  StepOf(p)
<1>1. Reader(p)' => Severance'
  <2> SUFFICES ASSUME Reader(p)' PROVE Severance'
    OBVIOUS
  <2>1. SameCommand(p)
    BY Facts, EndsOwn
  <2>2. Reader(p) /\ p \notin excused' /\ holder' = holder
    BY <2>1, ReadingKeeps, ReaderBefore
  <2> QED BY <2>2 DEF Severance, LoggedIn, Alive
<1>2. OwnOf(p) /\ SameCommand(p)
  BY <1>1, EndsOf DEF Calmly
<1> QED BY <1>2 DEF StepOf
(* What the file says while the login stands.                              *)
LEMMA FileStands ==
  ASSUME SessionsInv, LoggedIn
  PROVE  /\ holder # None /\ session[holder.uid].mode = Style /\ Style = (IF holder.cookie THEN "cookie" ELSE "bearer")
         /\ session[holder.uid].user = holder.user
         /\ slot["account"] # None /\ slot["account"].key = holder.user /\ slot["account"].cookieAuth = holder.cookie
         /\ "account" \notin late => GoodAccount(slot["account"])
         /\ "account" \notin late /\ ~holder.cookie => Accepted(slot["account"], "bearer") /\ slot["account"].bearer
         /\ "cookie" \notin late /\ holder.cookie =>
              slot["cookie"] # None /\ slot["cookie"].uid = holder.uid /\ Accepted(slot["cookie"], "cookie")
<1>1. /\ holder # None /\ session[holder.uid].mode = Style /\ Style = (IF holder.cookie THEN "cookie" ELSE "bearer")
      /\ session[holder.uid].user = holder.user
  BY HolderType DEF LoggedIn, Alive, Style
<1>t. LoginTypeOK /\ AccountSlot /\ CookieSlot
  BY DEF SessionsInv, Local, Shared
<1>2. /\ slot["account"] # None /\ slot["account"].key = holder.user /\ slot["account"].cookieAuth = holder.cookie
      /\ "account" \notin late => GoodAccount(slot["account"])
  BY <1>1, <1>t DEF AccountSlot
<1>3. "account" \notin late /\ ~holder.cookie => Accepted(slot["account"], "bearer") /\ slot["account"].bearer
  <2> SUFFICES ASSUME "account" \notin late, ~holder.cookie
               PROVE  Accepted(slot["account"], "bearer") /\ slot["account"].bearer
    OBVIOUS
  <2>1. slot["account"].bearer \in BOOLEAN
    BY <1>2, <1>t, SlotTypes, SlotNames, CopyType
  <2> QED BY <1>1, <1>2, <2>1 DEF Accepted, GoodAccount
<1>4. "cookie" \notin late /\ holder.cookie =>
        slot["cookie"] # None /\ slot["cookie"].uid = holder.uid /\ Accepted(slot["cookie"], "cookie")
  <2> SUFFICES ASSUME "cookie" \notin late, holder.cookie
               PROVE  slot["cookie"] # None /\ slot["cookie"].uid = holder.uid /\ Accepted(slot["cookie"], "cookie")
    OBVIOUS
  <2>1. /\ slot["cookie"] # None /\ slot["cookie"].uid = holder.uid /\ slot["cookie"].auth = holder.uid
        /\ ~slot["cookie"].bearer
    BY <1>1, <1>t DEF CookieSlot
  <2>2. slot["cookie"].bearer \in BOOLEAN
    BY <2>1, <1>t, SlotTypes, SlotNames, CopyType
  <2> QED BY <1>1, <2>1, <2>2 DEF Accepted
<1> QED BY <1>1, <1>2, <1>3, <1>4
LEMMA AccountStands ==
  ASSUME SessionsInv, NEW p \in Proc, Reader(p), LoggedIn
  PROVE  /\ session[holder.uid].mode = Style
         /\ "account" \notin late => slot["account"] # None
         /\ "account" \notin late /\ acct[p] # None /\ ~acct[p].cookieAuth => Refreshable("account", acct[p])
         /\ acct[p] # None /\ ~acct[p].cookieAuth => Accepted(acct[p], "bearer")
         /\ "cookie" \notin late /\ holder.cookie =>
              slot["cookie"] # None /\ slot["cookie"].uid = holder.uid /\ Accepted(slot["cookie"], "cookie")
<1>1. acct[p] # None => GoodAccount(acct[p])
  BY ReaderKnows DEF ProgramOf
<1>2. acct[p] # None /\ ~acct[p].cookieAuth => Accepted(acct[p], "bearer") /\ ~holder.cookie
  <2> SUFFICES ASSUME acct[p] # None, ~acct[p].cookieAuth PROVE Accepted(acct[p], "bearer") /\ ~holder.cookie
    OBVIOUS
  <2>1. acct[p].bearer \in BOOLEAN
    BY Facts, SlotTypes, CopyType
  <2> QED BY <1>1, <2>1, FileStands DEF Accepted, GoodAccount
<1>3. "account" \notin late /\ acct[p] # None /\ ~acct[p].cookieAuth => Refreshable("account", acct[p])
  BY <1>1, <1>2, FileStands DEF Refreshable, GoodAccount
<1> QED BY <1>2, <1>3, FileStands
(* A fork that lives has a parent that lives.                              *)
LEMMA ForkLives ==
  ASSUME SessionsInv, holder # None, NEW u \in UID, Child(u)
  PROVE  session[u].mode # "dead" => LoggedIn
<1>1. Heads(holder.uid) /\ session[holder.uid].mode \in {"dead", Style} /\ holder.uid \in UID
      /\ Style \in {"cookie", "bearer"}
  BY HolderType
<1> QED BY <1>1, Zero DEF Heads, Child, LoggedIn, Alive

LEMMA LoadStep ==
  ASSUME SessionsInv, NEW p \in Proc, Load(p)
  PROVE  StepOf(p)
<1> DEFINE a == slot["account"]
<1>0. /\ doing[p] = "load" /\ UNCHANGED <<remote, file, holder, epoch>> /\ CountType' /\ Reading(p)
      /\ "account" \in late => p \in excused'
      /\ cmd[p].op = "use" /\ mine[p] = 0 /\ answer[p] = "none" /\ since[p] <= epoch
  BY Facts, CountsSame, ReadsOnly DEF Load, Track, Up
<1>1. WorldOf(p) /\ Calmly /\ session' = session /\ slot' = slot /\ late' = late
  BY <1>0, WorldUntouched DEF Calmly, remote, file
<1>2. CASE a = None
  <2>1. Ends(p, "not logged in")
    BY <1>2 DEF Load
  <2>2. Reader(p) /\ p \notin excused' => ~LoggedIn
    BY <1>0, <1>2, AccountStands
  <2> QED BY <1>0, <1>1, <2>1, <2>2, UseQuits
<1>3. CASE a # None
  <2> DEFINE l == IF a.cookieAuth THEN "service" ELSE "getuser"
  <2>1. acct' = [acct EXCEPT ![p] = a] /\ doing' = [doing EXCEPT ![p] = l] /\ UNCHANGED <<cmd, svc, mine, key, since, answer>>
    BY <1>3 DEF Load, MoveTo
  <2>2. OwnType /\ a \in Credentials /\ l \in Doing /\ a.cookieAuth \in BOOLEAN
    BY <1>3, Facts, SlotTypes, SlotNames, CopyType DEF Doing
  <2>3. /\ OwnType' /\ Frame(p) /\ SameCommand(p) /\ doing'[p] = l /\ acct'[p] = a /\ svc'[p] = svc[p] /\ mine'[p] = 0
        /\ answer'[p] = "none" /\ cmd'[p] = cmd[p] /\ since'[p] = since[p]
    BY <1>0, <2>1, <2>2 DEF OwnType, Frame, Unmoved, SameCommand
  <2>4. Track(p)'
    BY <1>0, <1>3, <2>2, <2>3, Facts DEF Track, Signing, Restoring, Ending, Up
  <2>5. Handed(p) /\ TurningOf(p)'
    BY <2>3, SlotNames DEF Handed, TurningOf
  <2>6. ProgramOf(p)'
    <3> SUFFICES ASSUME Reader(p)' PROVE ProgramOf(p)'
      BY DEF ProgramOf
    <3>1. Reader(p) /\ "account" \notin late /\ holder # None /\ holder' = holder
      BY <1>0, <1>1, <2>3, ReadingKeeps, ReaderBefore
    <3>2. GoodAccount(a) /\ Trusted(a.at)
      BY <1>3, <3>1, Facts DEF World, AccountSlot, ServicesKept
    <3>3. GoodAccount(acct[p])' /\ Trusted(acct[p].at)'
      BY <1>1, <2>3, <3>1, <3>2 DEF GoodAccount, Trusted, GoodCopy, ChildOf, Child, Style
    <3>4. doing'[p] \in {"service", "getuser"} /\ mine'[p] \in {0, holder'.uid} /\ answer'[p] = "none"
      BY <2>3
    <3> HIDE DEF a, l
    <3> QED BY <3>3, <3>4 DEF ProgramOf, Work, Up
  <2>7. ActorOf(p)'
    BY <1>0, <2>3, <2>4, <2>5, <2>6, UseActor
  <2> QED BY <1>0, <1>1, <2>3, <2>4, <2>5, <2>7, Completes
<1> QED BY <1>2, <1>3

LEMMA GetUserStep ==
  ASSUME SessionsInv, NEW p \in Proc, GetUser(p)
  PROVE  StepOf(p)
<1>0. /\ doing[p] = "getuser" /\ UNCHANGED <<remote, file, holder, epoch>> /\ CountType' /\ Reading(p)
      /\ cmd[p].op = "use" /\ answer[p] = "none" /\ since[p] <= epoch /\ acct[p] # None /\ ~acct[p].cookieAuth
  BY Facts, CountsSame DEF GetUser, Track, Up, ghost, Reading, Restoring
<1>1. WorldOf(p) /\ Calmly /\ session' = session
  BY <1>0, WorldUntouched DEF Calmly, remote
<1>2. CASE ~Accepted(acct[p], "bearer")
  <2>1. Ends(p, "error")
    BY <1>2 DEF GetUser
  <2>2. Reader(p) => ~LoggedIn
    BY <1>0, <1>2, AccountStands
  <2> QED BY <1>0, <1>1, <2>1, <2>2, UseQuits
<1>3. CASE Accepted(acct[p], "bearer")
  <2>1. Holds(p, "renew", acct[p].uid)
    BY <1>3 DEF GetUser
  <2>2. acct[p].uid \in UID /\ acct[p].uid # 0
    BY <1>0, Facts, SlotTypes, Zero
  <2>3. /\ OwnType' /\ Frame(p) /\ SameCommand(p) /\ At(p, "renew") /\ answer'[p] = answer[p]
        /\ mine'[p] = acct[p].uid /\ acct'[p] = acct[p] /\ svc'[p] = svc[p]
    <3>1. acct[p].uid \in 0..MaxSessions /\ "renew" \in Doing /\ OwnType
      BY <2>2, Facts, Zero DEF Doing
    <3> QED BY <2>1, <3>1, HoldsOwn
  <2>4. Track(p)'
    BY <1>0, <2>2, <2>3, Facts DEF Track, SameCommand, At, Signing, Restoring, Ending, Up
  <2>5. Handed(p) /\ TurningOf(p)'
    BY <2>3 DEF Handed, TurningOf, At
  <2>6. Reader(p) => Work(p)'
    <3> SUFFICES ASSUME Reader(p) PROVE Work(p)'
      OBVIOUS
    <3>1. acct[p].uid = holder.uid
      BY <1>0, ReaderKnows DEF ProgramOf, GoodAccount
    <3> QED BY <1>1, <2>3, <3>1 DEF Work, At, Up, Calmly
  <2> QED BY <1>0, <1>1, <2>3, <2>4, <2>5, <2>6, UseFinish
<1> QED BY <1>2, <1>3

(* A rotation of the account's or the cookies' tokens puts a new stamp on  *)
(* what the slot holds.                                                    *)
LEMMA WorldStamped ==
  ASSUME SessionsInv, NEW p \in Proc, NEW s \in {"account", "cookie"}, slot[s] # None,
         UNCHANGED <<session, holder, epoch>>, CountType', Reading(p),
         CanStamp, TakeStamp, Update(p, s, [slot[s] EXCEPT !.at = Stamp])
  PROVE  WorldOf(p)
<1> DEFINE c == [slot[s] EXCEPT !.at = Stamp]
<1>1. s \in Slot /\ s \notin Service /\ slot[s] \in Credentials
  BY SlotNames, Facts, SlotTypes
<1>2. c \in Credentials
  BY <1>1, Facts, CopyType
<1>3. c.uid = slot[s].uid /\ c.auth = slot[s].auth /\ c.bearer = slot[s].bearer /\ c.key = slot[s].key
      /\ c.cookieAuth = slot[s].cookieAuth /\ c.at = Stamp
  BY <1>1 DEF Credentials
<1>4. slot' = [slot EXCEPT ![s] = c] /\ late' \in {late, late \cup {s}}
  BY DEF Update
<1> HIDE DEF c
<1>5. now' = now + 1 /\ now' \in 0..MaxTime /\ Stamp = now' /\ now' \in Nat
  BY Ticks
<1>6. c.at = now + 1 /\ c.at <= now'
  BY <1>3, <1>5
<1>7. s \in late' \/ s \notin late
  BY <1>4
<1>8. holder # None /\ s = "cookie" /\ holder.cookie /\ s \notin late' =>
        c.uid = holder.uid /\ c.auth = holder.uid /\ ~c.bearer
  BY <1>3, <1>7, Facts DEF World, CookieSlot
<1>9. s = "account" /\ holder # None /\ s \notin late' => GoodAccount(c)
  BY <1>3, <1>7, Facts DEF World, AccountSlot, GoodAccount
<1>10. excused' \subseteq Proc /\ \A q \in Proc \ {p} : q \in excused => q \in excused'
  BY ReadingKeeps
<1>11. /\ late' \in {late, late \cup {s}, late \ {s}} /\ now' \in {now, now + 1}
       /\ s \in late => s \in late'
       /\ s \in late' \/ LoggedIn \/ holder = None \/ (slot[s] # None /\ s \notin late)
       /\ s = "account" => c.key = slot[s].key /\ c.cookieAuth = slot[s].cookieAuth
  BY <1>3, <1>4, <1>5, <1>7
<1>12. holder # None /\ s \in Service /\ s \notin late' => GoodCopy(c)
  BY <1>1
<1> QED BY <1>1, <1>2, <1>4, <1>5, <1>6, <1>8, <1>9, <1>10, <1>11, <1>12, WorldStored
LEMMA WorldRefreshed ==
  ASSUME SessionsInv, NEW p \in Proc, NEW c, slot["account"] # None, RefreshAccount(p, "account", c), Reading(p),
         UNCHANGED <<session, holder, epoch, commands, mishaps>>
  PROVE  WorldOf(p)
<1>1. CountType'
  BY Facts, CountsTurned DEF RefreshAccount
<1>2. CASE slot["account"].auth = c.auth
  BY <1>1, <1>2, WorldStamped DEF RefreshAccount
<1>3. CASE slot["account"].auth # c.auth
  BY <1>1, <1>3, WorldUntouched DEF RefreshAccount, remote
<1> QED BY <1>2, <1>3

LEMMA RenewStep ==
  ASSUME SessionsInv, NEW p \in Proc, Renew(p)
  PROVE  StepOf(p)
<1>0. /\ doing[p] = "renew" /\ UNCHANGED <<session, holder, epoch>> /\ UNCHANGED <<commands, mishaps>>
      /\ Calmly
      /\ cmd[p].op = "use" /\ answer[p] = "none" /\ since[p] <= epoch /\ acct[p] # None /\ ~acct[p].cookieAuth
      /\ mine[p] # 0
  BY Facts DEF Renew, Track, Up, Restoring, Calmly
<1>1. ASSUME Goes(p, "service"), WorldOf(p), Reading(p) PROVE StepOf(p)
  <2>1. OwnType' /\ Frame(p) /\ Kept(p) /\ At(p, "service") /\ answer'[p] = answer[p]
    BY <1>1, Facts, GoesOwn DEF Doing
  <2>2. Track(p)'
    BY <1>0, <2>1, Facts DEF Track, Kept, SameCommand, At, Signing, Restoring, Ending, Up
  <2>3. Handed(p) /\ TurningOf(p)' /\ SameCommand(p)
    BY <2>1 DEF Handed, TurningOf, At, Kept
  <2>4. Reader(p) => Work(p)'
    <3> SUFFICES ASSUME Reader(p) PROVE Work(p)'
      OBVIOUS
    <3>1. mine[p] = holder.uid
      BY <1>0, ReaderKnows DEF ProgramOf, Work
    <3> QED BY <1>0, <2>1, <3>1 DEF Work, At, Up, Kept
  <2> QED BY <1>0, <1>1, <2>1, <2>2, <2>3, <2>4, UseFinish DEF Kept
<1>2. CASE Goes(p, "service") /\ UNCHANGED <<now, file, rotations, excused>>
  BY <1>0, <1>1, <1>2, Facts, WorldUntouched, CountsSame DEF remote, count, Reading
<1>3. CASE Reads(p, "account") /\ Refreshable("account", acct[p])
           /\ RefreshAccount(p, "account", acct[p]) /\ Goes(p, "service")
  BY <1>0, <1>1, <1>3, ReadsOnly, WorldRefreshed DEF Refreshable
<1>4. CASE Reads(p, "account") /\ ~Refreshable("account", acct[p]) /\ Ends(p, "error") /\ UNCHANGED <<now, file, rotations>>
  <2>1. Reading(p) /\ ("account" \in late => p \in excused')
    BY <1>4, ReadsOnly
  <2>2. WorldOf(p)
    BY <1>0, <1>4, <2>1, Facts, WorldUntouched, CountsSame DEF remote, count
  <2>3. Reader(p) /\ p \notin excused' => ~LoggedIn
    BY <1>0, <1>4, <2>1, AccountStands
  <2> QED BY <1>0, <1>4, <2>1, <2>2, <2>3, UseQuits
<1> QED BY <1>2, <1>3, <1>4 DEF Renew

LEMMA ServiceStepStep ==
  ASSUME SessionsInv, NEW p \in Proc, ServiceStep(p)
  PROVE  StepOf(p)
<1> DEFINE s == cmd[p].service
           fork == shouldFork(slot[s], acct[p], s)
           l == IF ~fork THEN "restore" ELSE IF acct[p].cookieAuth THEN "creload" ELSE "push"
<1>0. /\ doing[p] = "service" /\ UNCHANGED <<remote, file, holder, epoch>> /\ CountType'
      /\ cmd[p].op = "use" /\ answer[p] = "none" /\ since[p] <= epoch /\ acct[p] # None /\ mine[p] \in 0..MaxSessions
      /\ (acct[p].cookieAuth <=> mine[p] = 0)
      /\ s \in Service /\ s \in Slot /\ acct[p] \in Credentials /\ acct[p].cookieAuth \in BOOLEAN /\ acct[p].at \in Nat
  <2>1. doing[p] = "service" /\ UNCHANGED <<remote, file, holder, epoch>> /\ CountType'
    BY Facts, CountsSame DEF ServiceStep
  <2>2. /\ cmd[p].op = "use" /\ answer[p] = "none" /\ since[p] <= epoch /\ acct[p] # None
        /\ (acct[p].cookieAuth <=> mine[p] = 0)
    BY <2>1, Facts DEF Track, Up, Restoring
  <2>3. s \in Service /\ s \in Slot
    BY <2>2, AnyOp, SlotNames
  <2> QED BY <2>1, <2>2, <2>3, Facts, SlotTypes, CopyType
<1>1. /\ Reading(p) /\ (~fork /\ s \in late => p \in excused')
  BY ReadsOnly DEF ServiceStep, Reading
<1>2. WorldOf(p) /\ Calmly /\ session' = session /\ slot' = slot /\ late' = late
  BY <1>0, <1>1, WorldUntouched DEF Calmly, remote, file
<1>3. svc' = [svc EXCEPT ![p] = IF fork THEN None ELSE slot[s]] /\ doing' = [doing EXCEPT ![p] = l]
      /\ UNCHANGED <<cmd, acct, mine, key, since, answer>>
  BY DEF ServiceStep, MoveTo
<1>4. OwnType /\ slot[s] \in Credentials \cup {None} /\ l \in Doing /\ (~fork => slot[s] # None)
  BY <1>0, Facts, SlotTypes DEF Doing, shouldFork
<1>5. /\ OwnType' /\ Frame(p) /\ SameCommand(p) /\ doing'[p] = l /\ svc'[p] = (IF fork THEN None ELSE slot[s])
      /\ acct'[p] = acct[p] /\ mine'[p] = mine[p] /\ answer'[p] = "none" /\ cmd'[p] = cmd[p] /\ since'[p] = since[p]
  BY <1>0, <1>3, <1>4 DEF OwnType, Frame, Unmoved, SameCommand
<1>6. \/ ~fork /\ l = "restore" /\ slot[s] # None
      \/ fork /\ l = "creload" /\ acct[p].cookieAuth
      \/ fork /\ l = "push" /\ ~acct[p].cookieAuth
  <2>1. CASE ~fork
    <3>1. l = "restore"
      BY <2>1
    <3>2. slot[s] # None
      BY <1>4, <2>1
    <3> HIDE DEF s, fork, l
    <3> QED BY <2>1, <3>1, <3>2
  <2>2. CASE fork /\ acct[p].cookieAuth
    BY <2>2
  <2>3. CASE fork /\ ~acct[p].cookieAuth
    BY <2>3
  <2> QED BY <2>1, <2>2, <2>3
<1>7. ~fork => slot[s].service = s /\ ~(acct[p].at > slot[s].at)
  BY DEF shouldFork, IsStale
<1> HIDE DEF s, fork, l
<1>8. Track(p)'
  BY <1>0, <1>2, <1>5, <1>6, Facts DEF Track, Signing, Restoring, Ending, Up
<1>9. Handed(p) /\ TurningOf(p)'
  BY <1>0, <1>5, <1>6 DEF Handed, TurningOf
<1>10. Reader(p) /\ p \notin excused' => Work(p)'
  <2> SUFFICES ASSUME Reader(p), p \notin excused' PROVE Work(p)'
    OBVIOUS
  <2>1. mine[p] \in {0, holder.uid} /\ Trusted(acct[p].at)
    BY <1>0, ReaderKnows DEF ProgramOf, Work
  <2>2. CASE ~fork
    <3>1. s \notin late /\ slot[s] # None /\ slot[s] \in Credentials
      BY <1>1, <1>4, <2>2
    <3>2. slot[s].at \in Nat
      BY <3>1, Facts, CopyType
    <3>3. slot[s].at >= acct[p].at
      BY <1>0, <1>7, <2>2, <3>2
    <3>4. GoodCopy(slot[s])
      BY <1>0, <1>7, <2>1, <2>2, <3>1, <3>3 DEF Trusted
    <3>5. GoodCopy(slot[s])' /\ s' = s
      BY <1>2, <1>5, <3>4 DEF GoodCopy, ChildOf, Child, Style, Calmly, s
    <3>6. GoodCopy(svc[p])' /\ doing'[p] = "restore"
      BY <1>2, <1>5, <1>6, <2>2, <3>5 DEF GoodCopy
    <3>7. GoodCopy(slot[cmd[p].service])'
      BY <3>5 DEF s, GoodCopy
    <3> QED BY <3>6, <3>7 DEF Work, Up
  <2>3. CASE fork
    BY <1>0, <1>2, <1>5, <1>6, <2>1, <2>3 DEF Work, Up, Calmly
  <2> QED BY <2>2, <2>3
<1> QED BY <1>0, <1>1, <1>2, <1>5, <1>8, <1>9, <1>10, UseFinish

(* A service's slot gets the session a program works with.                 *)
LEMMA WorldWritten ==
  ASSUME SessionsInv, NEW p \in Proc, cmd[p].op = "use", NEW c \in Credentials, c.at = Stamp, CanStamp, TakeStamp,
         Write(p, cmd[p].service, c), UNCHANGED <<session, holder, epoch>>, CountType', Reading(p),
         Reader(p) => GoodCopy(c) /\ LoggedIn
  PROVE  WorldOf(p)
<1> DEFINE s == cmd[p].service
<1>1. s \in Service /\ s \in Slot /\ s # "cookie" /\ s # "account"
  BY AnyOp, SlotNames
<1>2. slot' = [slot EXCEPT ![s] = c] /\ late' \in {late \cup {s}, late \ {s}}
      /\ (s \notin late' => Current(p))
  BY DEF Write
<1> HIDE DEF s
<1>3. now' = now + 1 /\ now' \in 0..MaxTime /\ Stamp = now' /\ now' \in Nat
  BY Ticks
<1>4. c.at = now + 1 /\ c.at <= now'
  BY <1>3
<1>5. s \notin late' /\ holder # None => GoodCopy(c) /\ LoggedIn
  BY <1>2 DEF Reader
<1>6. excused' \subseteq Proc /\ \A q \in Proc \ {p} : q \in excused => q \in excused'
  BY ReadingKeeps
<1>7. s \in late' \/ LoggedIn \/ holder = None
  BY <1>5
<1> QED BY <1>1, <1>2, <1>3, <1>4, <1>5, <1>6, <1>7, WorldStored
LEMMA RunStep ==
  ASSUME SessionsInv, NEW p \in Proc, cmd[p].op = "use", doing[p] \in {"restore", "unlock"}, acct[p] # None,
         NEW l \in Up, NEW u \in UID, NEW k \in User \cup {Nobody}, Runs(p, l, u, k),
         WorldOf(p), Calmly, Reading(p), Reader(p) => ChildOf(u) /\ k = holder.user
  PROVE  StepOf(p)
<1>1. /\ OwnType' /\ Frame(p) /\ SameCommand(p) /\ doing'[p] = l /\ answer'[p] = "ok"
      /\ mine'[p] = u /\ acct'[p] = acct[p] /\ svc'[p] = svc[p] /\ key'[p] = k
      /\ cmd'[p] = cmd[p] /\ since'[p] = since[p]
  BY Facts, Zero, RunsOwn DEF SameCommand, At
<1>2. Track(p)'
  BY <1>1, Zero, Facts DEF Track, Signing, Restoring, Ending, Up, Calmly
<1>3. Handed(p) /\ TurningOf(p)'
  BY <1>1 DEF Handed, TurningOf, Up
<1>4. Reader(p) => Work(p)'
  <2> SUFFICES ASSUME Reader(p) PROVE Work(p)'
    OBVIOUS
  <2>1. PICK s \in Service : s = cmd[p].service
    BY AnyOp
  <2>2. Fits(s)
    BY <2>1, ReaderKnows DEF ProgramOf, Work, Fits
  <2>3. Fits(s)' /\ ChildOf(u)' /\ holder' = holder
    BY <2>2, StandsBy DEF Reader, Calmly
  <2>4. cmd'[p].service \in late' \/ slot'[cmd'[p].service] = None \/ GoodCopy(slot[cmd[p].service])'
    BY <1>1, <2>1, <2>3 DEF Fits, GoodCopy
  <2>5. ChildOf(mine[p])'
    BY <1>1, <2>3 DEF ChildOf, Child
  <2> QED BY <1>1, <2>3, <2>4, <2>5 DEF Work, Up
<1> QED BY <1>1, <1>2, <1>3, <1>4, UseFinish
LEMMA RestoreBearerStep ==
  ASSUME SessionsInv, NEW p \in Proc, RestoreBearer(p)
  PROVE  StepOf(p)
<1>0. /\ doing[p] = "restore" /\ UNCHANGED <<remote, file, holder, epoch>> /\ CountType' /\ Reading(p)
      /\ cmd[p].op = "use" /\ ~acct[p].cookieAuth /\ acct[p] # None /\ svc[p] # None
  BY Facts, CountsSame DEF RestoreBearer, Track, ghost, Reading
<1>1. svc[p] \in Credentials /\ svc[p].uid \in UID /\ svc[p].key \in User \cup {Nobody} /\ svc[p].bearer \in BOOLEAN
  BY <1>0, Facts, SlotTypes, CopyType
<1>2. WorldOf(p) /\ Calmly /\ session' = session
  BY <1>0, WorldUntouched DEF Calmly, remote
<1>3. Reader(p) => GoodCopy(svc[p]) /\ ~holder.cookie
  BY <1>0, ReaderKnows DEF ProgramOf, Work
<1> DEFINE ok == Accepted(svc[p], "bearer") /\ svc[p].key = session[svc[p].uid].user
<1>4. CASE ok
  <2>1. Runs(p, "running", svc[p].uid, svc[p].key)
    BY <1>4 DEF RestoreBearer
  <2> QED BY <1>0, <1>1, <1>2, <1>3, <2>1, RunStep DEF Up, GoodCopy
<1>5. CASE ~ok
  <2>1. Ends(p, "error")
    BY <1>5 DEF RestoreBearer
  <2>2. Reader(p) => session[svc[p].uid].mode = "dead" /\ session[svc[p].uid].parent = holder.uid
    BY <1>1, <1>3, <1>5 DEF GoodCopy, ChildOf, Child, Style, Accepted
  <2> QED BY <1>0, <1>1, <1>2, <2>1, <2>2, UseQuits
<1> QED BY <1>4, <1>5
LEMMA RestoreCookieStep ==
  ASSUME SessionsInv, NEW p \in Proc, RestoreCookie(p)
  PROVE  StepOf(p)
<1> DEFINE c == svc[p]
           passes == Accepted(c, "cookie") /\ acct[p].key = session[c.uid].user
<1>0. /\ doing[p] = "restore" /\ UNCHANGED <<session, holder, epoch, excused>> /\ UNCHANGED <<commands, mishaps>>
      /\ Calmly /\ Reading(p)
      /\ cmd[p].op = "use" /\ acct[p].cookieAuth /\ acct[p] # None /\ c # None
  BY Facts DEF RestoreCookie, Track, ghost, Reading, Calmly
<1>1. /\ c \in Credentials /\ c.uid \in UID /\ c.key \in User \cup {Nobody} /\ c.bearer \in BOOLEAN
      /\ acct[p].key \in User \cup {Nobody} /\ c.at \in Nat
  BY <1>0, Facts, SlotTypes, CopyType
<1>2. Reader(p) => GoodCopy(c) /\ holder.cookie /\ acct[p].key = holder.user /\ holder # None
  BY <1>0, ReaderKnows DEF ProgramOf, Work, Reader
<1>3. UNCHANGED <<now, file, rotations>> => WorldOf(p)
  BY <1>0, Facts, CountsSame, WorldUntouched DEF remote, count
<1>4. CASE /\ passes /\ CanStamp /\ rotations < MaxRotations
           /\ rotations' = rotations + 1
           /\ TakeStamp /\ Write(p, cmd[p].service, [c EXCEPT !.at = Stamp])
           /\ Runs(p, "running", c.uid, acct[p].key)
  <2> DEFINE d == [c EXCEPT !.at = Stamp]
  <2>1. d \in Credentials
    BY <1>1, <1>4, Facts, CopyType
  <2>2. d.uid = c.uid /\ d.auth = c.auth /\ d.bearer = c.bearer /\ d.key = c.key /\ d.at = Stamp
    BY <1>1 DEF Credentials
  <2> HIDE DEF d
  <2>3. Reader(p) => GoodCopy(d)
    BY <1>2, <2>2 DEF GoodCopy
  <2>4. Reader(p) => LoggedIn
    BY <1>1, <1>2, <1>4, ForkLives DEF GoodCopy, ChildOf, Accepted
  <2>5. CountType'
    BY <1>0, <1>4, Facts, CountsTurned
  <2>6. WorldOf(p)
    BY <1>0, <1>4, <2>1, <2>2, <2>3, <2>4, <2>5, WorldWritten DEF d
  <2> QED BY <1>0, <1>1, <1>2, <1>4, <2>6, RunStep DEF Up, GoodCopy
<1>5. CASE Runs(p, "running", c.uid, acct[p].key) /\ UNCHANGED <<now, file, rotations>>
  BY <1>0, <1>1, <1>2, <1>3, <1>5, RunStep DEF Up, GoodCopy
<1>6. CASE ~passes /\ Ends(p, "error") /\ UNCHANGED <<now, file, rotations>>
  <2>1. Reader(p) => session[c.uid].mode = "dead" /\ session[c.uid].parent = holder.uid
    BY <1>1, <1>2, <1>6 DEF GoodCopy, ChildOf, Child, Style, Accepted
  <2> QED BY <1>0, <1>1, <1>3, <1>6, <2>1, UseQuits
<1> QED BY <1>4, <1>5, <1>6 DEF RestoreCookie

(* A fork is made of the account's session.                                *)
LEMMA ForkStep ==
  ASSUME SessionsInv, NEW p \in Proc, cmd[p].op = "use", doing[p] \in {"push", "cpush"}, acct[p] # None,
         NEW l \in {"keep", "transit"}, NEW v \in UID, Alive(v), Forks(p, l, v),
         UNCHANGED <<now, file, holder, epoch>>, CountType', Reading(p),
         l = "transit" => acct[p].cookieAuth /\ session[v].mode = "cookie",
         Reader(p) /\ p \notin excused' => v = holder.uid,
         Reader(p) /\ l = "keep" => ~holder.cookie
  PROVE  StepOf(p)
<1>1. CanCreate /\ Create(session[v].user, v) /\ Holds(p, l, Fresh)
  BY DEF Forks
<1>2. Fresh \in UID /\ Fresh # 0 /\ session[Fresh].mode = "unborn" /\ v # 0
  BY <1>1, FreshUnborn, Zero
<1>3. session[v].user \in User \cup {Nobody} /\ session[v].mode # "unborn" /\ v # Fresh
  BY <1>2, Facts, SessionType DEF Alive
<1>4. WorldOf(p) /\ Calmly
  BY <1>1, <1>3, WorldMakes DEF Calmly
<1>5. /\ OwnType' /\ Frame(p) /\ SameCommand(p) /\ doing'[p] = l /\ answer'[p] = answer[p] /\ mine'[p] = Fresh
      /\ acct'[p] = acct[p] /\ svc'[p] = svc[p] /\ cmd'[p] = cmd[p] /\ since'[p] = since[p]
  BY <1>1, <1>2, Facts, Zero, HoldsOwn DEF Doing, SameCommand, At
<1>6. session'[Fresh] = [user |-> session[v].user, parent |-> v, mode |-> "bearer"] /\ session'[v] = session[v]
  BY <1>1, <1>2, <1>3, Facts DEF Create, RemoteType
<1>7. answer[p] = "none"
  BY Facts DEF Track, Up
<1>8. Track(p)'
  BY <1>2, <1>4, <1>5, <1>7, Facts DEF Track, Signing, Restoring, Ending, Up, Calmly
<1>9. Handed(p) /\ TurningOf(p)'
  BY <1>2, <1>5, <1>6 DEF Handed, TurningOf
<1>10. Reader(p) /\ p \notin excused' => Work(p)'
  <2> SUFFICES ASSUME Reader(p), p \notin excused' PROVE Work(p)'
    OBVIOUS
  <2>1. v = holder.uid /\ session[v].user = holder.user /\ holder' = holder
    BY <1>4, ReaderKnows DEF Calmly
  <2>2. Child(mine[p])' /\ session'[mine'[p]].mode = "bearer"
    BY <1>2, <1>5, <1>6, <2>1 DEF Child
  <2>3. l = "keep" => ChildOf(mine[p])'
    BY <2>1, <2>2 DEF ChildOf, Child, Style
  <2> QED BY <1>5, <2>2, <2>3 DEF Work, Up
<1> QED BY <1>4, <1>5, <1>7, <1>8, <1>9, <1>10, UseFinish
LEMMA PushForkStep ==
  ASSUME SessionsInv, NEW p \in Proc, PushFork(p)
  PROVE  StepOf(p)
<1>0. /\ doing[p] = "push" /\ UNCHANGED <<holder, epoch>> /\ UNCHANGED <<commands, mishaps>> /\ Calmly
      /\ cmd[p].op = "use" /\ ~acct[p].cookieAuth /\ acct[p] # None /\ mine[p] # 0 /\ mine[p] \in UID
      /\ answer[p] = "none" /\ since[p] <= epoch
  BY Facts, SlotTypes DEF PushFork, Track, Calmly, Restoring, Up
<1>1. Reader(p) => mine[p] = holder.uid /\ ~holder.cookie /\ Style = "bearer"
  BY <1>0, ReaderKnows DEF ProgramOf, Work
<1>2. CASE /\ session[mine[p]].mode = "bearer" /\ Forks(p, "keep", mine[p])
           /\ UNCHANGED <<now, file, rotations, excused>>
  <2>1. Alive(mine[p])
    BY <1>0, <1>2 DEF Alive
  <2>2. CountType' /\ Reading(p)
    BY <1>0, <1>2, Facts, CountsSame DEF count, Reading
  <2> QED BY <1>0, <1>1, <1>2, <2>1, <2>2, ForkStep
<1>3. CASE /\ Refreshable("account", acct[p]) /\ Reads(p, "account") /\ RefreshAccount(p, "account", acct[p])
           /\ Holds(p, "push", slot["account"].uid) /\ UNCHANGED session
  <2>1. slot["account"] # None /\ slot["account"].uid \in UID /\ slot["account"].uid # 0
    BY <1>3, Facts, SlotTypes, SlotNames, Zero DEF Refreshable
  <2>2. Reading(p) /\ ("account" \in late => p \in excused')
    BY <1>3, ReadsOnly
  <2>3. WorldOf(p)
    BY <1>0, <1>3, <2>1, <2>2, WorldRefreshed
  <2>4. /\ OwnType' /\ Frame(p) /\ SameCommand(p) /\ doing'[p] = "push" /\ answer'[p] = answer[p]
        /\ mine'[p] = slot["account"].uid
        /\ acct'[p] = acct[p] /\ svc'[p] = svc[p] /\ cmd'[p] = cmd[p] /\ since'[p] = since[p]
    <3>1. PICK u \in UID : u = slot["account"].uid
      BY <2>1
    <3>2. Holds(p, "push", u) /\ u \in 0..MaxSessions /\ "push" \in Doing
      BY <1>3, <3>1, Zero DEF Doing
    <3> QED BY <3>1, <3>2, Facts, HoldsOwn DEF SameCommand, At
  <2>5. Track(p)'
    BY <1>0, <2>1, <2>4, Facts DEF Track, Signing, Restoring, Ending, Up
  <2>6. Handed(p) /\ TurningOf(p)'
    BY <2>4 DEF Handed, TurningOf
  <2>7. Reader(p) /\ p \notin excused' => Work(p)'
    <3> SUFFICES ASSUME Reader(p), p \notin excused' PROVE Work(p)'
      OBVIOUS
    <3>1. slot["account"].uid = holder.uid
      BY <2>1, <2>2, Facts DEF Reader, World, AccountSlot, GoodAccount
    <3> QED BY <1>0, <2>4, <3>1 DEF Work, Up
  <2> QED BY <1>0, <2>2, <2>3, <2>4, <2>5, <2>6, <2>7, UseFinish
<1>4. CASE /\ session[mine[p]].mode # "bearer" /\ Reads(p, "account") /\ Ends(p, "error")
           /\ UNCHANGED <<remote, file, rotations>>
  <2>1. CountType' /\ Reading(p)
    BY <1>0, <1>4, Facts, CountsSame, ReadsOnly DEF count
  <2>2. WorldOf(p) /\ session' = session
    BY <1>0, <1>4, <2>1, WorldUntouched DEF remote
  <2>3. Reader(p) => ~LoggedIn
    BY <1>1, <1>4, AccountStands
  <2> QED BY <1>0, <1>4, <2>1, <2>2, <2>3, UseQuits
<1> QED BY <1>2, <1>3, <1>4 DEF PushFork

(* CookieSessionRestore, whoever calls it.                                 *)
LEMMA WorldCookies ==
  ASSUME SessionsInv, NEW p \in Proc, NEW a, NEW l, CookieSessionRestore(p, a, l), Reading(p),
         UNCHANGED <<session, holder, epoch, commands, mishaps>>
  PROVE  WorldOf(p)
<1>1. CASE UNCHANGED <<now, file, rotations>>
  <2>1. CountType'
    BY <1>1, Facts, CountsSame DEF count
  <2> QED BY <1>1, <2>1, WorldUntouched DEF remote
<1>2. CASE /\ slot["cookie"] # None /\ CanStamp /\ rotations < MaxRotations /\ rotations' = rotations + 1
           /\ TakeStamp /\ Update(p, "cookie", [slot["cookie"] EXCEPT !.at = Stamp])
  <2>1. CountType'
    BY <1>2, Facts, CountsTurned
  <2> QED BY <1>2, <2>1, WorldStamped
<1> QED BY <1>1, <1>2 DEF CookieSessionRestore
LEMMA CookieReloadStep ==
  ASSUME SessionsInv, NEW p \in Proc, CookieReload(p)
  PROVE  StepOf(p)
<1> DEFINE c == slot["cookie"]
<1>0. /\ doing[p] = "creload" /\ UNCHANGED <<session, holder, epoch>> /\ UNCHANGED <<commands, mishaps>> /\ Calmly
      /\ cmd[p].op = "use" /\ ~cmd[p].force /\ acct[p].cookieAuth /\ acct[p] # None
      /\ answer[p] = "none" /\ since[p] <= epoch
      /\ CookieSessionRestore(p, acct[p], "cpush") /\ Reads(p, "cookie")
  BY Facts, AnyOp DEF CookieReload, Track, Calmly, Restoring, Up
<1>1. Reading(p) /\ ("cookie" \in late => p \in excused')
  BY <1>0, ReadsOnly
<1>2. WorldOf(p)
  BY <1>0, <1>1, WorldCookies
<1>3. Reader(p) => holder.cookie /\ acct[p].key = holder.user /\ session[holder.uid].user = holder.user
  BY <1>0, ReaderKnows
<1>4. ASSUME NEW a \in {"error", "not logged in"}, Ends(p, a),
             c = None \/ ~Accepted(c, "cookie") \/ acct[p].key # session[c.uid].user
      PROVE  StepOf(p)
  <2>1. Reader(p) /\ p \notin excused' => ~LoggedIn
    BY <1>1, <1>3, <1>4, AccountStands
  <2> QED BY <1>0, <1>1, <1>2, <1>4, <2>1, UseQuits
<1>5. CASE c # None /\ Holds(p, "cpush", c.uid)
  <2>1. c \in Credentials /\ c.uid \in UID /\ c.uid # 0
    BY <1>5, Facts, SlotTypes, SlotNames, Zero
  <2>2. /\ OwnType' /\ Frame(p) /\ SameCommand(p) /\ doing'[p] = "cpush" /\ answer'[p] = answer[p] /\ mine'[p] = c.uid
        /\ acct'[p] = acct[p] /\ svc'[p] = svc[p] /\ cmd'[p] = cmd[p] /\ since'[p] = since[p]
    <3>1. PICK u \in UID : u = c.uid
      BY <2>1
    <3>2. Holds(p, "cpush", u) /\ u \in 0..MaxSessions /\ "cpush" \in Doing
      BY <1>5, <3>1, Zero DEF Doing
    <3> QED BY <3>1, <3>2, Facts, HoldsOwn DEF SameCommand, At
  <2>3. Track(p)'
    BY <1>0, <2>1, <2>2, Facts DEF Track, Signing, Restoring, Ending, Up
  <2>4. Handed(p) /\ TurningOf(p)'
    BY <2>2 DEF Handed, TurningOf
  <2>5. Reader(p) /\ p \notin excused' => Work(p)'
    <3> SUFFICES ASSUME Reader(p), p \notin excused' PROVE Work(p)'
      OBVIOUS
    <3>1. c.uid = holder.uid
      BY <1>1, <1>3, <1>5, Facts DEF Reader, World, CookieSlot
    <3> QED BY <1>0, <2>2, <3>1 DEF Work, Up
  <2> QED BY <1>0, <1>1, <1>2, <2>2, <2>3, <2>4, <2>5, UseFinish
<1> QED BY <1>0, <1>4, <1>5 DEF CookieSessionRestore

(* A step of a use that leaves everything as it is but the world.          *)
LEMMA Again ==
  ASSUME SessionsInv, NEW p \in Proc, cmd[p].op = "use", doing[p] # "idle", Goes(p, doing[p]), WorldOf(p), Calmly,
         Reading(p)
  PROVE  StepOf(p)
<1>1. doing[p] \in Doing /\ doing[p] \notin Signing
  BY Facts DEF OwnType, Track
<1>2. /\ OwnType' /\ Frame(p) /\ Kept(p) /\ At(p, doing[p]) /\ answer'[p] = answer[p]
  BY <1>1, Facts, GoesOwn
<1>3. Unmoved(p) /\ SameCommand(p) /\ Handed(p)
  BY <1>2 DEF Unmoved, Kept, SameCommand, At, Handed
<1>4. Track(p)'
  BY <1>3, Facts DEF Track, Unmoved, Calmly
<1>5. Undisturbed(p)
  <2>1. epoch \in Nat /\ epoch' = epoch
    BY Facts DEF GhostType, Calmly
  <2>2. epoch' # epoch + 1
    BY <2>1
  <2>3. Idler(p) /\ AgesFor(p) /\ (p \in excused => p \in excused')
    BY <1>1, ReadingKeeps DEF Idler, AgesFor
  <2>4. Ages /\ AgesHeld
    BY DEF WorldOf
  <2>5. CASE Files /\ Cleared
    BY <1>3, <2>3, <2>5 DEF Undisturbed
  <2>6. CASE holder' = None \/ epoch' = epoch + 1
    BY <1>3, <2>3, <2>6 DEF Undisturbed
  <2> QED BY <2>5, <2>6 DEF WorldOf
<1>6. ActorOf(p)'
  BY <1>5, Bystander DEF WorldOf
<1> QED BY <1>2, <1>3, <1>4, <1>6, Completes
LEMMA CookieCreateStep ==
  ASSUME SessionsInv, NEW p \in Proc, CookieCreate(p)
  PROVE  StepOf(p)
<1>0. /\ doing[p] = "cpush" /\ UNCHANGED <<session, holder, epoch, excused>> /\ CountType' /\ Calmly /\ Reading(p)
      /\ cmd[p].op = "use" /\ acct[p].cookieAuth /\ acct[p] # None /\ mine[p] # 0 /\ mine[p] \in UID /\ CanStamp
  BY Facts, SlotTypes, CountsSame DEF CookieCreate, Track, Calmly, Restoring, Up, ghost, Reading
<1>1. Reader(p) => mine[p] = holder.uid /\ holder.cookie /\ Style = "cookie"
  BY <1>0, ReaderKnows DEF ProgramOf, Work
<1>2. CASE session[mine[p]].mode # "cookie"
  <2>1. Ends(p, "error") /\ UNCHANGED <<now, file>>
    BY <1>2 DEF CookieCreate
  <2>2. WorldOf(p)
    BY <1>0, <2>1, WorldUntouched DEF remote
  <2>3. Reader(p) => ~LoggedIn
    BY <1>1, <1>2, AccountStands
  <2> QED BY <1>0, <2>1, <2>2, <2>3, UseQuits
<1>3. CASE session[mine[p]].mode = "cookie"
  <2> DEFINE c == Saved(mine[p], FALSE, Nobody)
  <2>1. TakeStamp /\ Write(p, "cookie", c) /\ Goes(p, "cpush")
    BY <1>3 DEF CookieCreate
  <2>2. c \in Credentials /\ c.uid = mine[p] /\ c.auth = mine[p] /\ ~c.bearer /\ c.at = Stamp
    <3>1. c \in Credentials
      BY <1>0, Facts, SavedType
    <3> QED BY <3>1 DEF Saved
  <2> HIDE DEF c
  <2>3. /\ slot' = [slot EXCEPT !["cookie"] = c] /\ late' \in {late \cup {"cookie"}, late \ {"cookie"}}
        /\ ("cookie" \notin late' => Current(p))
    BY <2>1 DEF Write
  <2>4. now' = now + 1 /\ now' \in 0..MaxTime /\ Stamp = now' /\ now' \in Nat
    BY <1>0, <2>1, Ticks
  <2>5. c.at = now + 1 /\ c.at <= now'
    BY <2>2, <2>4
  <2>6. "cookie" \notin late' /\ holder # None => LoggedIn /\ c.uid = holder.uid /\ c.auth = holder.uid /\ ~c.bearer
    BY <1>0, <1>1, <1>3, <2>2, <2>3 DEF Reader, LoggedIn, Alive
  <2>7. excused' \subseteq Proc /\ \A q \in Proc \ {p} : q \in excused => q \in excused'
    BY <1>0, ReadingKeeps
  <2>8. /\ "cookie" \in Slot /\ "cookie" \notin Service /\ "cookie" # "account"
        /\ "cookie" \in late' \/ LoggedIn \/ holder = None
    BY <2>6, SlotNames
  <2>9. WorldOf(p)
    BY <1>0, <2>2, <2>3, <2>4, <2>5, <2>6, <2>7, <2>8, WorldStored
  <2> QED BY <1>0, <2>1, <2>9, Again
<1> QED BY <1>2, <1>3
LEMMA CookiePushStep ==
  ASSUME SessionsInv, NEW p \in Proc, CookiePush(p)
  PROVE  StepOf(p)
<1> DEFINE c == slot["cookie"]
<1>0. /\ doing[p] = "cpush" /\ UNCHANGED <<now, file, holder, epoch>> /\ CountType' /\ Calmly
      /\ cmd[p].op = "use" /\ acct[p].cookieAuth /\ acct[p] # None /\ c # None
  BY Facts, CountsSame DEF CookiePush, CookiesUsable, Track, Calmly, Restoring
<1>1. Reading(p) /\ ("cookie" \in late => p \in excused') /\ c \in Credentials /\ c.uid \in UID /\ c.uid # 0
  BY <1>0, ReadsOnly, Facts, SlotTypes, SlotNames, Zero DEF CookiePush
<1>2. Reader(p) => holder.cookie /\ holder # None
  BY <1>0, ReaderKnows DEF Reader
<1>3. CASE Accepted(c, "cookie")
  <2>1. Forks(p, "transit", c.uid)
    BY <1>3 DEF CookiePush
  <2>2. Alive(c.uid) /\ session[c.uid].mode = "cookie"
    BY <1>1, <1>3 DEF Accepted, Alive
  <2>3. Reader(p) /\ p \notin excused' => c.uid = holder.uid
    BY <1>0, <1>1, <1>2, Facts DEF World, CookieSlot
  <2> QED BY <1>0, <1>1, <2>1, <2>2, <2>3, ForkStep
<1>4. CASE ~Accepted(c, "cookie")
  <2>1. Ends(p, "error") /\ UNCHANGED session
    BY <1>4 DEF CookiePush
  <2>2. WorldOf(p)
    BY <1>0, <1>1, <2>1, WorldUntouched DEF remote
  <2>3. Reader(p) /\ p \notin excused' => ~LoggedIn
    BY <1>1, <1>2, <1>4, AccountStands
  <2> QED BY <1>0, <1>1, <2>1, <2>2, <2>3, UseQuits
<1> QED BY <1>3, <1>4

(* The steps between the fork and its first use.                           *)
LEMMA ForkGoes ==
  ASSUME SessionsInv, NEW p \in Proc, cmd[p].op = "use", doing[p] \in {"transit", "keep", "tag"}, acct[p] # None,
         mine[p] # 0, NEW l \in {"keep", "tag", "unlock"}, Goes(p, l), WorldOf(p), Calmly, Reading(p),
         Reader(p) => ChildOf(mine[p]) \/ (\A u \in UID : u = mine[p] => ChildOf(u)'),
         Reader(p) /\ l # "keep" => \A s \in Service : s = cmd[p].service => Fits(s)'
  PROVE  StepOf(p)
<1>1. /\ OwnType' /\ Frame(p) /\ SameCommand(p) /\ doing'[p] = l /\ answer'[p] = answer[p] /\ mine'[p] = mine[p]
      /\ acct'[p] = acct[p] /\ svc'[p] = svc[p] /\ cmd'[p] = cmd[p] /\ since'[p] = since[p]
  BY Facts, GoesOwn DEF Doing, Kept, SameCommand, At
<1>2. answer[p] = "none"
  BY Facts DEF Track, Up
<1>3. Track(p)'
  BY <1>1, <1>2, Facts DEF Track, Signing, Restoring, Ending, Up, Calmly
<1>4. Handed(p) /\ TurningOf(p)'
  BY <1>1 DEF Handed, TurningOf
<1>5. Reader(p) => Work(p)'
  <2> SUFFICES ASSUME Reader(p) PROVE Work(p)'
    OBVIOUS
  <2>1. PICK u \in UID : u = mine[p]
    BY Facts, SlotTypes
  <2>2. PICK s \in Service : s = cmd[p].service
    BY AnyOp
  <2>3. ChildOf(u)'
    BY <2>1, StandsBy DEF Reader
  <2>4. ChildOf(mine[p])'
    BY <1>1, <2>1, <2>3 DEF ChildOf, Child
  <2>5. l # "keep" => Fits(s)'
    BY <2>2
  <2>6. l # "keep" => cmd'[p].service \in late' \/ slot'[cmd'[p].service] = None \/ GoodCopy(slot[cmd[p].service])'
    BY <1>1, <2>2, <2>5 DEF Fits, GoodCopy
  <2> QED BY <1>1, <2>4, <2>6 DEF Work, Up
<1> QED BY <1>1, <1>2, <1>3, <1>4, <1>5, UseFinish
LEMMA ChildToCookiesStep ==
  ASSUME SessionsInv, NEW p \in Proc, ChildToCookies(p)
  PROVE  StepOf(p)
<1>0. /\ doing[p] = "transit" /\ UNCHANGED <<now, file, holder, epoch>> /\ CountType' /\ Calmly /\ Reading(p)
      /\ cmd[p].op = "use" /\ acct[p].cookieAuth /\ acct[p] # None /\ mine[p] # 0 /\ mine[p] \in UID
  BY Facts, SlotTypes, CountsSame DEF ChildToCookies, Track, Calmly, Restoring, ghost, Reading
<1>1. Reader(p) => Child(mine[p]) /\ session[mine[p]].mode # "unborn" /\ holder.cookie
  BY <1>0, ReaderKnows DEF ProgramOf, Work
<1>2. CASE Alive(mine[p])
  <2>1. ToCookies(mine[p]) /\ Goes(p, "keep")
    BY <1>2 DEF ChildToCookies
  <2>2. WorldOf(p)
    BY <1>0, <1>2, <2>1, WorldTurns
  <2>3. Reader(p) => \A u \in UID : u = mine[p] => ChildOf(u)'
    <3> SUFFICES ASSUME Reader(p), NEW u \in UID, u = mine[p] PROVE ChildOf(u)'
      OBVIOUS
    <3>1. session'[u].user = session[u].user /\ session'[u].parent = session[u].parent /\ session'[u].mode = "cookie"
      BY <2>1, Facts DEF ToCookies, RemoteType, SessionRec
    <3> QED BY <1>0, <1>1, <3>1 DEF ChildOf, Child, Style, Calmly
  <2> QED BY <1>0, <2>1, <2>2, <2>3, ForkGoes
<1>3. CASE ~Alive(mine[p])
  <2>1. Ends(p, "error") /\ UNCHANGED session
    BY <1>3 DEF ChildToCookies
  <2>2. WorldOf(p)
    BY <1>0, <2>1, WorldUntouched DEF remote
  <2>3. Reader(p) => session[mine[p]].mode = "dead" /\ session[mine[p]].parent = holder.uid
    BY <1>0, <1>1, <1>3, Facts, Modes DEF Child
  <2> QED BY <1>0, <2>1, <2>2, <2>3, UseQuits
<1> QED BY <1>2, <1>3

LEMMA KeepStep ==
  ASSUME SessionsInv, NEW p \in Proc, Keep(p)
  PROVE  StepOf(p)
<1>0. /\ doing[p] = "keep" /\ UNCHANGED <<session, holder, epoch, excused>> /\ CountType' /\ Calmly /\ Reading(p)
      /\ cmd[p].op = "use" /\ acct[p] # None /\ mine[p] # 0 /\ mine[p] \in UID /\ CanStamp
      /\ acct[p].key \in User \cup {Nobody}
  <2>1. /\ doing[p] = "keep" /\ UNCHANGED <<session, holder, epoch, excused>> /\ CountType' /\ Calmly /\ Reading(p)
        /\ cmd[p].op = "use" /\ acct[p] # None /\ mine[p] # 0 /\ CanStamp
    BY Facts, CountsSame DEF Keep, Track, Calmly, Restoring, ghost, Reading
  <2> QED BY <2>1, Facts, SlotTypes, CopyType
<1>1. Reader(p) => ChildOf(mine[p]) /\ acct[p].key = holder.user /\ holder # None /\ Style \in {"cookie", "bearer"}
                   /\ (Style = "bearer" <=> ~holder.cookie) /\ holder.cookie \in BOOLEAN
  BY <1>0, ReaderKnows DEF ProgramOf, Work, Reader
<1>2. CASE Alive(mine[p])
  <2> DEFINE b == session[mine[p]].mode = "bearer"
             c == Saved(mine[p], b, acct[p].key)
  <2>1. TakeStamp /\ Write(p, cmd[p].service, c) /\ Goes(p, "tag")
    BY <1>2 DEF Keep
  <2>2. c \in Credentials
    <3>1. b \in BOOLEAN
      OBVIOUS
    <3> QED BY <1>0, <3>1, Facts, SavedType
  <2>3. c.uid = mine[p] /\ c.auth = mine[p] /\ c.bearer = b /\ c.key = acct[p].key /\ c.at = Stamp
    BY DEF Saved
  <2> HIDE DEF c
  <2>4. Reader(p) => GoodCopy(c) /\ LoggedIn
    <3> SUFFICES ASSUME Reader(p) PROVE GoodCopy(c) /\ LoggedIn
      OBVIOUS
    <3>1. session[mine[p]].mode = Style
      BY <1>1, <1>2 DEF Alive, ChildOf
    <3>2. c.bearer = ~holder.cookie
      BY <1>1, <2>3, <3>1
    <3>3. LoggedIn
      BY <1>0, <1>1, <3>1, ForkLives DEF ChildOf
    <3> QED BY <1>1, <2>3, <3>2, <3>3 DEF GoodCopy
  <2>5. WorldOf(p)
    BY <1>0, <2>1, <2>2, <2>3, <2>4, WorldWritten
  <2>6. ASSUME Reader(p), NEW s \in Service, s = cmd[p].service PROVE Fits(s)'
    <3>1. PICK d \in Credentials : d = c
      BY <2>2
    <3>2. slot'[s] = d
      BY <2>1, <2>6, <3>1, Facts, SlotNames DEF Write, FileType
    <3>3. GoodCopy(d)'
      BY <1>0, <1>1, <2>4, <2>5, <2>6, <3>1, StandsBy
    <3> QED BY <3>2, <3>3 DEF Fits, GoodCopy
  <2> QED BY <1>0, <1>1, <2>1, <2>5, <2>6, ForkGoes
<1>3. CASE ~Alive(mine[p])
  <2>1. Ends(p, "error") /\ UNCHANGED <<now, file>>
    BY <1>3 DEF Keep
  <2>2. WorldOf(p)
    BY <1>0, <2>1, WorldUntouched DEF remote
  <2>3. Reader(p) => session[mine[p]].mode = "dead" /\ session[mine[p]].parent = holder.uid
    BY <1>0, <1>1, <1>3, Facts, Modes DEF ChildOf, Child
  <2> QED BY <1>0, <2>1, <2>2, <2>3, UseQuits
<1> QED BY <1>2, <1>3

(* A service's slot is read and written again, with some of it replaced.   *)
LEMMA WorldUpdated ==
  ASSUME SessionsInv, NEW p \in Proc, cmd[p].op = "use", slot[cmd[p].service] # None,
         NEW c \in Credentials, Update(p, cmd[p].service, c),
         now' \in {now, now + 1}, now' \in 0..MaxTime,
         c.at = slot[cmd[p].service].at \/ (c.at = now + 1 /\ now' = now + 1),
         UNCHANGED <<session, holder, epoch>>, CountType', Reading(p),
         Reader(p) /\ c.auth = c.uid /\ cmd[p].service \notin late => GoodCopy(c)
  PROVE  WorldOf(p)
<1> DEFINE s == cmd[p].service
<1>1. s \in Service /\ s \in Slot /\ s # "cookie" /\ s # "account"
  BY AnyOp, SlotNames
<1>2. slot' = [slot EXCEPT ![s] = c] /\ late' \in {late, late \cup {s}}
      /\ (s \notin late' => Current(p) /\ c.auth = c.uid /\ s \notin late)
  BY DEF Update
<1>3. c.at = slot[s].at \/ (c.at = now + 1 /\ now' = now + 1)
  OBVIOUS
<1>3a. slot[s] # None
  OBVIOUS
<1>4. s \notin late' /\ holder # None => GoodCopy(c)
  BY <1>2 DEF Reader
<1> HIDE DEF s
<1>5. c.at <= now'
  <2>1. slot[s].at <= now /\ slot[s].at \in Nat /\ now \in Nat
    BY <1>1, <1>3a, Facts, SlotTypes DEF Stamped
  <2> QED BY <1>3, <2>1
<1>6. excused' \subseteq Proc /\ \A q \in Proc \ {p} : q \in excused => q \in excused'
  BY ReadingKeeps
<1>7. s \in late' \/ LoggedIn \/ holder = None \/ (slot[s] # None /\ s \notin late)
  BY <1>2, <1>3a
<1> QED BY <1>1, <1>2, <1>3, <1>3a, <1>4, <1>5, <1>6, <1>7, WorldStored
LEMMA TagStep ==
  ASSUME SessionsInv, NEW p \in Proc, Tag(p)
  PROVE  StepOf(p)
<1> DEFINE s == cmd[p].service
           c == [slot[s] EXCEPT !.service = s, !.cookieAuth = ~acct[p].bearer]
<1>0. /\ doing[p] = "tag" /\ UNCHANGED <<session, now, holder, epoch, excused>> /\ CountType' /\ Calmly /\ Reading(p)
      /\ cmd[p].op = "use" /\ acct[p] # None /\ mine[p] # 0 /\ Goes(p, "unlock")
      /\ acct[p].bearer \in BOOLEAN
  <2>1. /\ doing[p] = "tag" /\ UNCHANGED <<session, now, holder, epoch, excused>> /\ CountType' /\ Calmly /\ Reading(p)
        /\ cmd[p].op = "use" /\ acct[p] # None /\ mine[p] # 0 /\ Goes(p, "unlock")
    BY Facts, CountsSame DEF Tag, Track, Calmly, Restoring, ghost, Reading, remote
  <2> QED BY <2>1, Facts, SlotTypes, CopyType
<1>1. s \in Service /\ s \in Slot /\ now \in 0..MaxTime
  BY <1>0, AnyOp, SlotNames, Facts DEF RemoteType
<1>2. Reader(p) => ChildOf(mine[p]) /\ Fits(s) /\ holder # None
  BY <1>0, ReaderKnows DEF ProgramOf, Work, Reader, Fits
<1>3. WorldOf(p)
  <2>1. CASE slot[s] = None
    <3>1. UNCHANGED file
      BY <2>1 DEF Tag
    <3> QED BY <1>0, <3>1, WorldUntouched DEF remote
  <2>2. CASE slot[s] # None
    <3>1. Update(p, s, c)
      BY <2>2 DEF Tag
    <3>2. slot[s] \in Credentials
      BY <1>1, <2>2, Facts, SlotTypes
    <3>3. c \in Credentials /\ c.at = slot[s].at
          /\ c.uid = slot[s].uid /\ c.auth = slot[s].auth /\ c.bearer = slot[s].bearer /\ c.key = slot[s].key
      <4>1. (~acct[p].bearer) \in BOOLEAN
        BY <1>0
      <4>2. c \in Credentials
        BY <1>1, <3>2, <4>1, Facts, CopyType
      <4> QED BY <3>2, <4>2 DEF Credentials
    <3> HIDE DEF c
    <3>4. Reader(p) /\ s \notin late => GoodCopy(c)
      BY <1>2, <2>2, <3>3 DEF Fits, GoodCopy
    <3> QED BY <1>0, <1>1, <2>2, <3>1, <3>3, <3>4, WorldUpdated
  <2> QED BY <2>1, <2>2
<1>4. Reader(p) => Fits(s)'
  <2>1. PICK x \in Service : x = s
    BY <1>1
  <2>2. s' = s
    BY <1>0 DEF Goes, own
  <2>3. Reader(p) => Fits(x)'
    BY <1>0, <1>2, <1>3, <2>1, StandsBy
  <2> QED BY <2>1, <2>2, <2>3 DEF Fits, GoodCopy
<1>5. Reader(p) => \A x \in Service : x = cmd[p].service => Fits(x)'
  <2>1. s' = s
    BY <1>0 DEF Goes, own
  <2> HIDE DEF s
  <2>2. Reader(p) => \A x \in Service : x = s => Fits(x)'
    BY <1>4, <2>1 DEF Fits, GoodCopy
  <2> QED BY <2>2 DEF s
<1> QED BY <1>0, <1>2, <1>3, <1>5, ForkGoes
LEMMA UnlockStep ==
  ASSUME SessionsInv, NEW p \in Proc, Unlock(p)
  PROVE  StepOf(p)
<1>0. /\ doing[p] = "unlock" /\ UNCHANGED <<remote, file, holder, epoch>> /\ CountType' /\ Calmly /\ Reading(p)
      /\ cmd[p].op = "use" /\ acct[p] # None /\ mine[p] # 0
  BY Facts, CountsSame DEF Unlock, Track, Calmly, Restoring, ghost, Reading
<1>1. mine[p] \in UID /\ acct[p].key \in User \cup {Nobody}
  BY <1>0, Facts, SlotTypes, CopyType
<1>2. Reader(p) => ChildOf(mine[p]) /\ acct[p].key = holder.user /\ Style \in {"cookie", "bearer"}
  BY <1>0, ReaderKnows DEF ProgramOf, Work
<1>3. WorldOf(p) /\ session' = session
  BY <1>0, WorldUntouched DEF remote
<1> DEFINE ok == Alive(mine[p]) /\ acct[p].key = session[mine[p]].user
<1>4. CASE ok
  <2>1. Runs(p, "forked", mine[p], acct[p].key)
    BY <1>4 DEF Unlock
  <2> QED BY <1>0, <1>1, <1>2, <1>3, <2>1, RunStep DEF Up
<1>5. CASE ~ok
  <2>1. Ends(p, "error")
    BY <1>5 DEF Unlock
  <2>2. Reader(p) => session[mine[p]].mode = "dead" /\ session[mine[p]].parent = holder.uid
    BY <1>0, <1>1, <1>2, <1>5 DEF ChildOf, Child, Alive
  <2> QED BY <1>0, <1>1, <1>3, <2>1, <2>2, UseQuits
<1> QED BY <1>4, <1>5

LEMMA RotateStep ==
  ASSUME SessionsInv, NEW p \in Proc, Rotate(p)
  PROVE  StepOf(p)
<1> DEFINE s == cmd[p].service
           b == session[mine[p]].mode = "bearer"
           c == Rotated(slot[s], mine[p], b)
<1>0. /\ doing[p] \in Up /\ session[mine[p]].mode \in {"bearer", "cookie"} /\ CanStamp /\ TakeStamp
      /\ UNCHANGED <<session, holder, epoch, excused>> /\ Calmly /\ Reading(p)
      /\ Update(p, s, c) /\ Goes(p, doing[p]) /\ slot[s] # None
      /\ rotations < MaxRotations /\ rotations' = rotations + 1 /\ UNCHANGED <<commands, mishaps>>
  BY DEF Rotate, Up, ghost, Reading, Calmly
<1>1. cmd[p].op = "use" /\ mine[p] # 0 /\ mine[p] \in UID /\ s \in Service /\ s \in Slot /\ doing[p] # "idle"
  <2>1. cmd[p].op = "use" /\ mine[p] # 0 /\ doing[p] # "idle"
    BY <1>0, Facts DEF Track, Up
  <2> QED BY <2>1, AnyOp, Facts, SlotTypes, SlotNames
<1>2. CountType'
  BY <1>0, Facts, CountsTurned
<1>3. slot[s] \in Credentials
  BY <1>0, <1>1, Facts, SlotTypes
<1>4. c \in Credentials
  <2>1. b \in BOOLEAN
    OBVIOUS
  <2> QED BY <1>0, <1>1, <1>3, <2>1, Facts, CopyType
<1>5. /\ c.auth = mine[p] /\ c.key = slot[s].key /\ c.at = Stamp /\ c.bearer = b
      /\ c.uid = IF b THEN mine[p] ELSE slot[s].uid
  BY <1>3 DEF Rotated, Credentials
<1> HIDE DEF c
<1>6. now' = now + 1 /\ now' \in 0..MaxTime /\ Stamp = now'
  BY <1>0, Ticks
<1>7. Reader(p) /\ c.auth = c.uid /\ s \notin late => GoodCopy(c)
  <2> SUFFICES ASSUME Reader(p), c.auth = c.uid, s \notin late PROVE GoodCopy(c)
    OBVIOUS
  <2>1. ChildOf(mine[p]) /\ GoodCopy(slot[s])
    BY <1>0, ReaderKnows DEF ProgramOf, Work
  <2>2. holder.cookie \in BOOLEAN /\ session[mine[p]].mode = Style
        /\ (Style = IF holder.cookie THEN "cookie" ELSE "bearer")
    BY <1>0, <2>1, ReaderKnows DEF ChildOf
  <2>3. c.bearer = ~holder.cookie
    BY <1>0, <1>5, <2>2
  <2>4. c.uid = mine[p]
    BY <1>5
  <2> QED BY <1>5, <2>1, <2>3, <2>4 DEF GoodCopy
<1>8. WorldOf(p)
  BY <1>0, <1>1, <1>2, <1>4, <1>5, <1>6, <1>7, WorldUpdated
<1> QED BY <1>0, <1>1, <1>8, Again
LEMMA RotateAccountStep ==
  ASSUME SessionsInv, NEW p \in Proc, RotateAccount(p)
  PROVE  StepOf(p)
<1> DEFINE c == Rotated(slot["account"], mine[p], TRUE)
<1>0. /\ doing[p] \in {"renew", "service", "push"} /\ mine[p] # 0 /\ CanStamp /\ TakeStamp
      /\ UNCHANGED <<session, holder, epoch, excused>> /\ Calmly /\ Reading(p)
      /\ Update(p, "account", c) /\ Goes(p, doing[p]) /\ slot["account"] # None
      /\ rotations < MaxRotations /\ rotations' = rotations + 1 /\ UNCHANGED <<commands, mishaps>>
  BY DEF RotateAccount, ghost, Reading, Calmly
<1>1. cmd[p].op = "use" /\ mine[p] \in UID /\ doing[p] # "idle"
  <2>1. cmd[p].op = "use"
    BY <1>0, Facts DEF Track, Restoring
  <2> QED BY <1>0, <2>1, Facts, SlotTypes
<1>2. CountType'
  BY <1>0, Facts, CountsTurned
<1>3. slot["account"] \in Credentials /\ "account" \in Slot /\ "account" \notin Service /\ "account" # "cookie"
  BY <1>0, Facts, SlotTypes, SlotNames
<1>4. c \in Credentials
  BY <1>0, <1>1, <1>3, Facts, CopyType
<1>5. /\ c.auth = mine[p] /\ c.uid = mine[p] /\ c.key = slot["account"].key /\ c.at = Stamp /\ c.bearer = TRUE
      /\ c.cookieAuth = slot["account"].cookieAuth
  BY <1>3 DEF Rotated, Credentials
<1>6. slot' = [slot EXCEPT !["account"] = c] /\ late' \in {late, late \cup {"account"}}
      /\ ("account" \notin late' => Current(p) /\ "account" \notin late)
  BY <1>0 DEF Update
<1> HIDE DEF c
<1>7. now' = now + 1 /\ now' \in 0..MaxTime /\ Stamp = now' /\ now' \in Nat
  BY <1>0, Ticks
<1>8. c.at = now + 1 /\ c.at <= now'
  BY <1>5, <1>7
<1>9. holder # None /\ "account" \notin late' => GoodAccount(c)
  <2> SUFFICES ASSUME holder # None, "account" \notin late' PROVE GoodAccount(c)
    OBVIOUS
  <2>1. Reader(p)
    BY <1>1, <1>6 DEF Reader
  <2>2. mine[p] = holder.uid
    BY <1>0, <2>1, ReaderKnows DEF ProgramOf, Work
  <2>3. slot["account"].key = holder.user /\ slot["account"].cookieAuth = holder.cookie
    BY <1>0, Facts DEF World, AccountSlot
  <2> QED BY <1>5, <2>2, <2>3 DEF GoodAccount
<1>10. excused' \subseteq Proc /\ \A q \in Proc \ {p} : q \in excused => q \in excused'
  BY <1>0, ReadingKeeps
<1>11. /\ "account" \in late => "account" \in late'
       /\ "account" \in late' \/ (slot["account"] # None /\ "account" \notin late)
  BY <1>0, <1>6
<1>12. WorldOf(p)
  BY <1>0, <1>2, <1>3, <1>4, <1>5, <1>6, <1>7, <1>8, <1>9, <1>10, <1>11, WorldStored
<1> QED BY <1>0, <1>1, <1>12, Again
LEMMA StopStep ==
  ASSUME SessionsInv, NEW p \in Proc, Stop(p)
  PROVE  StepOf(p)
<1>0. /\ doing[p] \in Up /\ doing[p] # "idle" /\ UNCHANGED <<remote, file, holder, epoch>> /\ CountType' /\ Calmly
      /\ Reading(p) /\ Ends(p, answer[p]) /\ cmd[p].op = "use"
  BY Facts, CountsSame DEF Stop, Track, Calmly, ghost, Reading, Up
<1>1. WorldOf(p) /\ session' = session
  BY <1>0, WorldUntouched DEF remote
<1>2. answer[p] \in {"none", "ok", "error", "not logged in"}
  BY Facts DEF OwnType
<1>3. SameCommand(p)
  BY <1>0, <1>2, Facts, EndsOwn
<1>4. Reader(p)' /\ answer[p] \in {"error", "not logged in"} => Severance'
  <2> SUFFICES ASSUME Reader(p)', answer[p] \in {"error", "not logged in"} PROVE Severance'
    OBVIOUS
  <2>1. Reader(p) /\ holder # None
    BY <1>0, <1>3, ReadingKeeps, ReaderBefore
  <2> QED BY <1>0, <1>1, <2>1, ReaderKnows, StandsBy DEF ProgramOf
<1>5. OwnOf(p)
  BY <1>0, <1>2, <1>4, EndsOf DEF Calmly
<1> QED BY <1>0, <1>1, <1>3, <1>5 DEF StepOf

(***************************************************************************)
(* A logout                                                                *)
(***************************************************************************)
LEMMA LogoutFinish ==
  ASSUME SessionsInv, NEW p \in Proc, cmd[p].op = "logout", doing[p] \in Ending \cup {"restore"},
         OwnType', Frame(p), SameCommand(p), WorldOf(p), Handed(p), answer'[p] = answer[p], NEW l \in Ending, doing'[p] = l,
         l \in {"forget", "purge"} => since[p] < epoch',
         LogoutOf(p)'
  PROVE  StepOf(p)
<1>1. answer[p] = "none" /\ doing[p] # "idle"
  BY Facts DEF Track, Up, Ending
<1>2. since'[p] <= epoch' /\ cmd'[p].op = "logout" /\ since'[p] = since[p]
  <2>1. since[p] <= epoch /\ since[p] \in Nat /\ epoch \in Nat /\ epoch' \in {epoch, epoch + 1}
    BY Facts DEF Track, OwnType, GhostType, WorldOf
  <2>2. since[p] <= epoch'
    BY <2>1, Later
  <2> QED BY <2>2 DEF SameCommand
<1>3. Track(p)'
  BY <1>1, <1>2 DEF Track, Signing, Restoring, Ending, Up
<1>4. LoggedOut(p)'
  BY DEF LoggedOut, Ending
<1>5. ActorOf(p)'
  BY <1>2, <1>3, <1>4, LogoutActor
<1> QED BY <1>1, <1>3, <1>5, Completes
(* A logout ends: with a failure, or done.                                 *)
LEMMA LogoutEnds ==
  ASSUME SessionsInv, NEW p \in Proc, cmd[p].op = "logout", doing[p] # "idle", NEW a \in {"none", "ok", "error"},
         Ends(p, a), WorldOf(p), a = "ok" => since[p] < epoch' /\ LoggedOut(p)'
  PROVE  StepOf(p)
<1>1. /\ OwnType' /\ Frame(p) /\ SameCommand(p) /\ doing'[p] = "idle"
      /\ mine'[p] = 0 /\ acct'[p] = None /\ svc'[p] = None /\ answer'[p] = a
  BY Facts, EndsOwn DEF At
<1>2. since'[p] <= epoch' /\ cmd'[p].op = "logout" /\ since'[p] = since[p]
  <2>1. since[p] <= epoch /\ since[p] \in Nat /\ epoch \in Nat /\ epoch' \in {epoch, epoch + 1}
    BY Facts DEF Track, OwnType, GhostType, WorldOf
  <2>2. since[p] <= epoch'
    BY <2>1, Later
  <2> QED BY <1>1, <2>2 DEF SameCommand
<1>3. Track(p)'
  BY <1>1, <1>2 DEF Track, Signing, Restoring, Ending, Up
<1>4. LoggedOut(p)' /\ LogoutOf(p)'
  BY <1>1 DEF LoggedOut, LogoutOf
<1>5. ActorOf(p)'
  BY <1>2, <1>3, <1>4, LogoutActor
<1> QED BY <1>1, <1>3, <1>5, Completes DEF Handed

LEMMA LogoutRestoreStep ==
  ASSUME SessionsInv, NEW p \in Proc, LogoutRestore(p)
  PROVE  StepOf(p)
<1> DEFINE a == slot["account"]
           c == slot["cookie"]
           cookies == a # None /\ a.cookieAuth
<1>0. /\ doing[p] = "restore" /\ cmd[p].op = "logout"
      /\ UNCHANGED <<session, holder, epoch>> /\ UNCHANGED <<commands, mishaps>> /\ Calmly
      /\ (cookies => Reads(p, "cookie")) /\ (~cookies => Reads(p, "account"))
      /\ (cookies => CookieSessionRestore(p, a, "revoke"))
      /\ (~cookies => UNCHANGED <<now, file, rotations>>)
  BY DEF LogoutRestore, Calmly
<1>1. /\ Reading(p) /\ (cookies /\ "cookie" \in late => p \in excused')
      /\ (~cookies /\ "account" \in late => p \in excused')
  BY <1>0, ReadsOnly
<1>2. WorldOf(p)
  <2>1. CASE cookies
    BY <1>0, <1>1, <2>1, WorldCookies
  <2>2. CASE ~cookies
    BY <1>0, <1>1, <2>2, Facts, CountsSame, WorldUntouched DEF remote, count
  <2> QED BY <2>1, <2>2
<1>3. LoggedIn' <=> LoggedIn
  BY <1>0 DEF LoggedIn, Alive
<1>4. LoggedIn => /\ holder # None /\ a # None /\ a.key = holder.user /\ a.cookieAuth = holder.cookie
                  /\ session[holder.uid].user = holder.user
                  /\ "account" \notin late => a.uid = holder.uid
                  /\ "account" \notin late /\ ~a.cookieAuth => Accepted(a, "bearer")
                  /\ "cookie" \notin late /\ a.cookieAuth =>
                        c # None /\ c.uid = holder.uid /\ Accepted(c, "cookie")
  BY FileStands DEF GoodAccount
<1>5. ASSUME NEW u \in 0..MaxSessions, (Goes(p, "revoke") /\ u = mine[p]) \/ Holds(p, "revoke", u),
             LoggedIn /\ p \notin excused' => u = holder.uid
      PROVE  StepOf(p)
  <2>1. /\ OwnType' /\ Frame(p) /\ SameCommand(p) /\ doing'[p] = "revoke" /\ answer'[p] = answer[p] /\ mine'[p] = u
        /\ acct'[p] = acct[p] /\ svc'[p] = svc[p]
    <3>1. CASE Goes(p, "revoke") /\ u = mine[p]
      BY <3>1, Facts, GoesOwn DEF Doing, Kept, At
    <3>2. CASE Holds(p, "revoke", u)
      BY <3>2, Facts, HoldsOwn DEF Doing, At
    <3> QED BY <1>5, <3>1, <3>2
  <2>2. LogoutOf(p)'
    BY <1>0, <1>3, <1>5, <2>1 DEF LogoutOf
  <2> QED BY <1>0, <1>2, <2>1, <2>2, LogoutFinish DEF Handed, Ending
<1>6. ASSUME Goes(p, "revoke"), LoggedIn => p \in excused' PROVE StepOf(p)
  <2>1. mine[p] \in 0..MaxSessions
    BY Facts DEF OwnType
  <2> QED BY <1>5, <1>6, <2>1
<1>7. ASSUME Ends(p, "error") PROVE StepOf(p)
  BY <1>0, <1>2, <1>7, LogoutEnds
<1>8. CASE cookies
  <2>1. CASE c = None /\ Goes(p, "revoke")
    BY <1>1, <1>4, <1>6, <1>8, <2>1
  <2>2. CASE c # None /\ Holds(p, "revoke", c.uid)
    <3>1. c.uid \in 0..MaxSessions
      BY <2>2, Facts, SlotTypes, SlotNames, Zero
    <3> HIDE DEF a, c
    <3>2. PICK u \in 0..MaxSessions : u = c.uid
      BY <3>1
    <3>3. LoggedIn /\ p \notin excused' => u = holder.uid
      BY <1>1, <1>4, <1>8, <3>2
    <3> QED BY <1>5, <2>2, <3>2, <3>3
  <2>3. CASE /\ c # None /\ (~Accepted(c, "cookie") \/ a.key # session[c.uid].user)
             /\ (IF cmd[p].force THEN Goes(p, "revoke") ELSE Ends(p, "error"))
    BY <1>1, <1>4, <1>6, <1>7, <1>8, <2>3
  <2> QED BY <1>0, <1>8, <2>1, <2>2, <2>3 DEF CookieSessionRestore
<1>9. CASE ~cookies
  <2>1. CASE a = None
    <3>1. Goes(p, "revoke")
      BY <2>1 DEF LogoutRestore
    <3> QED BY <1>4, <1>6, <2>1, <3>1
  <2>2. CASE a # None /\ Accepted(a, "bearer") /\ a.key = session[a.uid].user
    <3>1. Holds(p, "revoke", a.uid)
      BY <1>9, <2>2 DEF LogoutRestore
    <3>2. a.uid \in 0..MaxSessions
      BY <2>2, Facts, SlotTypes, SlotNames, Zero
    <3>3. LoggedIn /\ p \notin excused' => a.uid = holder.uid
      BY <1>1, <1>4, <1>9
    <3> HIDE DEF a, c
    <3>4. PICK u \in 0..MaxSessions : u = a.uid
      BY <3>2
    <3> QED BY <1>5, <3>1, <3>3, <3>4
  <2>3. CASE a # None /\ ~(Accepted(a, "bearer") /\ a.key = session[a.uid].user)
    <3>1. IF cmd[p].force THEN Goes(p, "revoke") ELSE Ends(p, "error")
      BY <1>9, <2>3 DEF LogoutRestore
    <3>2. LoggedIn => p \in excused'
      BY <1>1, <1>4, <1>9, <2>3
    <3> QED BY <1>6, <1>7, <3>1, <3>2
  <2> QED BY <2>1, <2>2, <2>3
<1> QED BY <1>8, <1>9

LEMMA SessionRevokeStep ==
  ASSUME SessionsInv, NEW p \in Proc, SessionRevoke(p)
  PROVE  StepOf(p)
<1>0. /\ doing[p] = "revoke" /\ cmd[p].op = "logout" /\ UNCHANGED <<now, slot, late, excused>> /\ CountType'
      /\ epoch' = epoch + 1 /\ holder' \in {None, holder}
      /\ (holder' = holder /\ holder # None => ~cmd[p].force /\ p \notin excused)
  BY Facts, CountsSame DEF SessionRevoke, Track, Ending, file
<1>1. Ages /\ AgesHeld /\ Others(p) /\ session' \in [UID -> SessionRec]
  <2>1. CASE Alive(mine[p])
    <3>1. session' = Ended(session, mine[p]) /\ mine[p] \in UID
      BY <2>1, Facts, SlotTypes DEF SessionRevoke, Alive
    <3> QED BY <3>1, AgesEnded, Facts, ModeType DEF SessionRec
  <2>2. CASE ~Alive(mine[p])
    <3>1. session' = session
      BY <2>2 DEF SessionRevoke
    <3> QED BY <3>1, Facts, AgesStay DEF World, RemoteType
  <2> QED BY <2>1, <2>2
<1>2. WorldOf(p)
  <2>1. Sole(p)
    BY <1>0 DEF Sole
  <2>2. excused' \subseteq Proc
    BY <1>0, Facts DEF GhostType
  <2> QED BY <1>0, <1>1, <2>1, <2>2, WorldAged
<1>3. CASE Ends(p, "error")
  BY <1>0, <1>2, <1>3, LogoutEnds
<1>4. CASE Goes(p, "forget") /\ (mine[p] = 0 \/ Alive(mine[p]) \/ cmd[p].force)
  <2>1. /\ OwnType' /\ Frame(p) /\ SameCommand(p) /\ doing'[p] = "forget" /\ answer'[p] = answer[p]
        /\ acct'[p] = acct[p] /\ svc'[p] = svc[p]
    BY <1>4, Facts, GoesOwn DEF Doing, Kept, At
  <2>2. ~LoggedIn'
    <3> SUFFICES ASSUME LoggedIn' PROVE FALSE
      OBVIOUS
    <3>1. holder' = holder /\ holder # None
      BY <1>0 DEF LoggedIn
    <3>2. LoggedIn /\ ~cmd[p].force /\ p \notin excused
      BY <1>0, <1>1, <3>1, Kin
    <3>3. mine[p] = holder.uid
      BY <1>0, <3>2, Facts DEF ActorOf, LogoutOf
    <3>4. session' = Ended(session, holder.uid) /\ holder.uid \in UID
      BY <1>4, <3>1, <3>2, <3>3, HolderType, Zero DEF SessionRevoke
    <3>5. session'[holder.uid].mode = "dead"
      BY <3>4, Facts DEF Ended, RemoteType, SessionRec
    <3> QED BY <3>1, <3>5 DEF LoggedIn, Alive
  <2>3. LogoutOf(p)'
    BY <2>1, <2>2 DEF LogoutOf
  <2>4. since[p] < epoch'
    <3>1. since[p] <= epoch /\ since[p] \in Nat /\ epoch \in Nat
      BY Facts DEF Track, OwnType, GhostType
    <3> QED BY <1>0, <3>1
  <2> QED BY <1>0, <1>2, <2>1, <2>3, <2>4, LogoutFinish DEF Handed, Ending
<1> QED BY <1>3, <1>4 DEF SessionRevoke, Revokes

(* Slots are emptied when nobody is logged in any more.                    *)
LEMMA WorldCleared ==
  ASSUME SessionsInv, NEW p \in Proc, Sole(p), ~LoggedIn, UNCHANGED <<session, now, holder, epoch, excused>>,
         CountType', slot' \in [Slot -> Credentials \cup {None}], late' \subseteq Slot,
         \A s \in Slot : slot'[s] = None \/ (slot'[s] = slot[s] /\ (s \in late <=> s \in late'))
  PROVE  WorldOf(p) /\ Calmly
<1>t. FileType /\ RemoteType /\ GhostType /\ World /\ now \in Nat
  BY Facts, SlotTypes
<1>1. FileType' /\ RemoteType' /\ GhostType' /\ now <= now'
  BY <1>t DEF FileType, RemoteType, GhostType
<1>2. Ages /\ AgesHeld /\ Others(p)
  BY <1>t, AgesStay DEF World
<1>3. Calmly
  BY DEF Calmly
<1>4. Files /\ Cleared
  BY <1>t, SlotNames DEF Files, Cleared
<1>5. ~LoggedIn'
  BY DEF LoggedIn, Alive
<1>6. SlotsStamped' /\ Unborn'
  BY <1>t DEF World, SlotsStamped, Unborn
<1>7. Held'
  BY <1>t DEF World, Held, Heads, Style
<1>8. AccountSlot'
  BY <1>t, <1>5, SlotNames DEF World, AccountSlot, GoodAccount
<1>9. CookieSlot'
  BY <1>t, <1>5, SlotNames DEF World, CookieSlot
<1>10. ServicesKept'
  <2> SUFFICES ASSUME holder # None, "account" \notin late', slot'["account"] # None,
                      NEW s \in Service, s \notin late', slot'[s] # None, slot'[s].service = s,
                      slot'[s].at >= slot'["account"].at
               PROVE  GoodCopy(slot[s])'
    BY DEF ServicesKept, Trusted
  <2>1. slot'["account"] = slot["account"] /\ "account" \notin late /\ slot'[s] = slot[s] /\ s \notin late
    BY SlotNames
  <2>2. GoodCopy(slot[s])
    BY <1>t, <2>1 DEF World, ServicesKept, Trusted
  <2> QED BY <2>1, <2>2 DEF GoodCopy, ChildOf, Child, Style
<1> QED BY <1>1, <1>2, <1>3, <1>4, <1>6, <1>7, <1>8, <1>9, <1>10 DEF WorldOf, World
LEMMA ForgetStep ==
  ASSUME SessionsInv, NEW p \in Proc, Forget(p)
  PROVE  StepOf(p)
<1>0. /\ doing[p] = "forget" /\ cmd[p].op = "logout" /\ UNCHANGED <<session, now, holder, epoch, excused>> /\ CountType'
      /\ since[p] < epoch /\ ~LoggedIn /\ Write(p, "cookie", None) /\ Goes(p, "purge")
  BY Facts, CountsSame DEF Forget, Track, Ending, ActorOf, LogoutOf, remote, ghost
<1>1. slot' \in [Slot -> Credentials \cup {None}] /\ late' \subseteq Slot
  BY <1>0, Facts, SlotNames, WriteType
<1>2. \A s \in Slot : slot'[s] = None \/ (slot'[s] = slot[s] /\ (s \in late <=> s \in late'))
  BY <1>0, Facts, SlotNames DEF Write, FileType
<1>3. WorldOf(p) /\ Calmly
  BY <1>0, <1>1, <1>2, WorldCleared DEF Sole
<1>4. /\ OwnType' /\ Frame(p) /\ SameCommand(p) /\ doing'[p] = "purge" /\ answer'[p] = answer[p]
      /\ acct'[p] = acct[p] /\ svc'[p] = svc[p]
  BY <1>0, Facts, GoesOwn DEF Doing, Kept, At
<1>5. LogoutOf(p)'
  BY <1>0, <1>4 DEF LogoutOf, LoggedIn, Alive
<1> QED BY <1>0, <1>3, <1>4, <1>5, LogoutFinish DEF Handed, Ending
LEMMA DeleteAllSessionsStep ==
  ASSUME SessionsInv, NEW p \in Proc, DeleteAllSessions(p)
  PROVE  StepOf(p)
<1>0. /\ doing[p] = "purge" /\ cmd[p].op = "logout" /\ UNCHANGED <<session, now, holder, epoch, excused>> /\ CountType'
      /\ since[p] < epoch /\ ~LoggedIn /\ slot' = Purged /\ late' = {} /\ Ends(p, "ok")
  BY Facts, CountsSame DEF DeleteAllSessions, Track, Ending, ActorOf, LogoutOf, remote, ghost
<1>1. slot' \in [Slot -> Credentials \cup {None}] /\ late' \subseteq Slot /\ \A s \in Slot : slot'[s] = None
  BY <1>0 DEF Purged
<1>2. WorldOf(p) /\ Calmly
  BY <1>0, <1>1, WorldCleared DEF Sole
<1>3. LoggedOut(p)'
  BY <1>0, <1>1 DEF LoggedOut, LoggedIn, Alive
<1> QED BY <1>0, <1>2, <1>3, LogoutEnds

(***************************************************************************)
(* Faults, and the first step                                              *)
(***************************************************************************)
LEMMA CountsFailed == ASSUME CountType, Mishap, UNCHANGED <<commands, rotations>> PROVE CountType'
<1>1. mishaps' \in 0..MaxMishaps
  BY Numbers DEF CountType, Mishap
<1> QED BY <1>1 DEF CountType
LEMMA FailsStep ==
  ASSUME SessionsInv, NEW p \in Proc, Fails(p)
  PROVE  StepOf(p)
<1>0. /\ doing[p] \notin Up /\ doing[p] # "idle" /\ UNCHANGED <<session, now, slot, late>> /\ CountType'
      /\ excused' = excused \cup {p} /\ p \in excused' /\ Reading(p)
      /\ holder' = (IF doing[p] = "drop" \/ (doing[p] = "revoke" /\ cmd[p].force) THEN None ELSE holder)
      /\ epoch' = (IF doing[p] = "revoke" THEN epoch + 1 ELSE epoch)
  BY Facts, CountsFailed DEF Fails, remote, file, Reading
<1>1. WorldOf(p)
  <2>1. Ages /\ AgesHeld /\ Others(p) /\ session' \in [UID -> SessionRec]
    BY <1>0, Facts, AgesStay DEF World, RemoteType
  <2>2. Calmly \/ ((holder' = None \/ epoch' = epoch + 1) /\ Sole(p))
    <3>1. doing[p] = "drop" => cmd[p].op = "login"
      BY Facts DEF Track, Signing
    <3>2. doing[p] = "revoke" => cmd[p].op = "logout"
      BY Facts DEF Track, Ending
    <3> QED BY <1>0, <3>1, <3>2 DEF Calmly, Sole
  <2> QED BY <1>0, <2>1, <2>2, ReadingKeeps, WorldAged
<1>2. ASSUME NEW l \in Doing, Goes(p, l)
      PROVE  /\ OwnType' /\ Frame(p) /\ SameCommand(p) /\ doing'[p] = l /\ answer'[p] = answer[p] /\ mine'[p] = mine[p]
             /\ acct'[p] = acct[p] /\ svc'[p] = svc[p] /\ cmd'[p] = cmd[p] /\ since'[p] = since[p] /\ key'[p] = key[p]
             /\ Handed(p)
  BY <1>2, Facts, GoesOwn DEF Kept, SameCommand, At, Handed
<1>3. answer[p] = "none"
  BY <1>0, Facts DEF Track
<1>4. CASE doing[p] = "tag"
  <2>1. Goes(p, "unlock")
    BY <1>4 DEF Fails, OnFailure
  <2>2. cmd[p].op = "use" /\ acct[p] # None /\ mine[p] # 0 /\ Calmly /\ since[p] <= epoch
    BY <1>0, <1>4, Facts DEF Track, Restoring, Calmly
  <2>3. Track(p)'
    BY <1>0, <1>2, <1>3, <1>4, <2>1, <2>2, Facts DEF Track, Signing, Restoring, Ending, Up, Doing
  <2>4. TurningOf(p)'
    BY <1>2, <2>1 DEF TurningOf, Doing
  <2> QED BY <1>0, <1>1, <1>2, <1>3, <2>1, <2>2, <2>3, <2>4, UseFinish DEF Doing
<1>5. CASE doing[p] = "drop" /\ ~cmd[p].cookie
  <2>1. Goes(p, "save") /\ holder' = None /\ epoch' = epoch
    BY <1>0, <1>5 DEF Fails, OnFailure
  <2>2. cmd[p].op = "login" /\ mine[p] # 0 /\ since[p] <= epoch
    BY <1>5, Facts DEF Track, Signing
  <2>3. Track(p)'
    BY <1>0, <1>2, <1>3, <1>5, <2>1, <2>2, Facts DEF Track, Signing, Restoring, Ending, Up, Doing
  <2>4. LoginOf(p)'
    <3>1. LoginOf(p) /\ Heads(mine[p])
      BY <1>5, <2>2, Facts DEF ActorOf, LoginOf, Signing
    <3>2. doing'[p] = "save" /\ mine'[p] = mine[p] /\ cmd'[p] = cmd[p] /\ key'[p] = key[p]
      BY <1>2, <2>1 DEF Doing
    <3>3. Heads(mine[p])'
      BY <1>0, <3>1, <3>2 DEF Heads
    <3>4. /\ session[mine[p]].mode \in {"dead", IF cmd[p].cookie THEN "cookie" ELSE "bearer"}
          /\ session[mine[p]].user = cmd[p].user /\ key[p] = cmd[p].user
      BY <1>5, <2>2, <3>1 DEF LoginOf, Signing
    <3> QED BY <1>0, <1>5, <2>1, <3>2, <3>3, <3>4 DEF LoginOf
  <2>5. ActorOf(p)'
    BY <1>2, <2>1, <2>2, <2>3, <2>4, LoginActor DEF Doing
  <2> QED BY <1>0, <1>1, <1>2, <2>1, <2>3, <2>5, Completes DEF Doing
<1>6. CASE doing[p] = "forget"
  <2>1. Goes(p, "purge") /\ holder' = holder /\ epoch' = epoch
    BY <1>0, <1>6 DEF Fails, OnFailure
  <2>2. cmd[p].op = "logout" /\ since[p] < epoch /\ ~LoggedIn
    BY <1>6, Facts DEF Track, Ending, ActorOf, LogoutOf
  <2>3. LogoutOf(p)'
    BY <1>0, <1>2, <2>1, <2>2 DEF LogoutOf, LoggedIn, Alive, Doing
  <2> QED BY <1>1, <1>2, <1>6, <2>1, <2>2, <2>3, LogoutFinish DEF Ending, Doing
<1>7. CASE doing[p] = "revoke" /\ cmd[p].force
  <2>1. Goes(p, "forget") /\ holder' = None /\ epoch' = epoch + 1
    BY <1>0, <1>7 DEF Fails, OnFailure
  <2>2. cmd[p].op = "logout" /\ since[p] <= epoch /\ since[p] \in Nat /\ epoch \in Nat
    BY <1>7, Facts DEF Track, Ending, OwnType, GhostType
  <2>3. LogoutOf(p)'
    BY <1>2, <2>1 DEF LogoutOf, LoggedIn, Doing
  <2>4. since[p] < epoch'
    BY <2>1, <2>2
  <2> QED BY <1>1, <1>2, <1>7, <2>1, <2>2, <2>3, <2>4, LogoutFinish DEF Ending, Doing
<1>8. CASE OnFailure(p) = "idle"
  <2>1. Ends(p, IF doing[p] = "purge" THEN "ok" ELSE "error")
    BY <1>8 DEF Fails
  <2>2. CASE cmd[p].op = "logout"
    <3>1. doing[p] = "purge" => since[p] < epoch' /\ LoggedOut(p)'
      BY <1>0, Facts DEF Track, LoggedOut
    <3>2. PICK a \in {"none", "ok", "error"} : a = IF doing[p] = "purge" THEN "ok" ELSE "error"
      OBVIOUS
    <3> QED BY <1>0, <1>1, <2>1, <2>2, <3>1, <3>2, LogoutEnds
  <2>3. CASE cmd[p].op # "logout"
    <3>1. doing[p] # "purge"
      BY <2>3, Facts DEF Track, Ending
    <3>2. ~Reader(p)'
      BY <1>0 DEF Reader, Current
    <3>3. epoch' \in {epoch, epoch + 1}
      BY <1>0
    <3> QED BY <1>0, <1>1, <2>1, <2>3, <3>1, <3>2, <3>3, EndsOf DEF StepOf
  <2> QED BY <2>2, <2>3
<1> QED BY <1>4, <1>5, <1>6, <1>7, <1>8 DEF OnFailure
LEMMA DiesStep ==
  ASSUME SessionsInv, NEW p \in Proc, Dies(p)
  PROVE  StepOf(p)
<1>0. /\ doing[p] # "idle" /\ UNCHANGED <<remote, file, holder, epoch>> /\ CountType' /\ Reading(p) /\ Ends(p, "none")
  BY Facts, CountsFailed DEF Dies, ghost, Reading
<1>1. WorldOf(p)
  BY <1>0, WorldUntouched
<1>2. OwnOf(p) /\ SameCommand(p)
  BY <1>0, EndsOf
<1> QED BY <1>0, <1>1, <1>2 DEF StepOf

LEMMA BeginStep ==
  ASSUME SessionsInv, NEW p \in Proc, NEW c \in Command, Begin(p, c)
  PROVE  OwnOf(p) /\ WorldOf(p) /\ Alone'
<1> DEFINE l == CASE c.op = "login" -> IF c.cookie THEN "anon" ELSE "srp"
                  [] c.op = "use" -> "load"
                  [] OTHER -> "restore"
<1>0. /\ doing[p] = "idle" /\ (c.op # "use" => \A q \in Proc : doing[q] # "idle" => cmd[q].op = "use")
      /\ cmd' = [cmd EXCEPT ![p] = c] /\ since' = [since EXCEPT ![p] = epoch]
      /\ answer' = [answer EXCEPT ![p] = "none"] /\ excused' = excused \ {p} /\ doing' = [doing EXCEPT ![p] = l]
      /\ UNCHANGED <<remote, file, acct, svc, mine, key, holder, epoch, rotations, mishaps>>
      /\ commands < MaxCommands /\ commands' = commands + 1
  BY DEF Begin, MoveTo
<1>1. CountType'
  <2>1. commands' \in 0..MaxCommands
    BY <1>0, Facts, Numbers DEF CountType
  <2> QED BY <1>0, <2>1, Facts DEF CountType
<1>2. WorldOf(p)
  <2>1. excused' \subseteq Proc
    BY <1>0, Facts DEF GhostType
  <2> QED BY <1>0, <1>1, <2>1, WorldQuiet DEF remote, file
<1>3. /\ c.op \in {"login", "use", "logout"} /\ c.cookie \in BOOLEAN
      /\ c.op = "login" /\ c.cookie => l = "anon"
      /\ c.op = "login" /\ ~c.cookie => l = "srp"
      /\ c.op = "use" => l = "load"
      /\ c.op = "logout" => l = "restore"
  <2>1. c.op \in {"login", "use", "logout"} /\ c.cookie \in BOOLEAN
    BY CommandType
  <2> QED BY <2>1
<1> HIDE DEF l
<1>4. OwnType /\ epoch \in Nat /\ l \in Doing
  <2>1. OwnType /\ GhostType
    BY Facts
  <2>2. l \in {"anon", "srp", "load", "restore"}
    BY <1>3
  <2> QED BY <2>1, <2>2 DEF Doing, GhostType
<1>5. OwnType'
  BY <1>0, <1>4 DEF OwnType
<1>6. /\ Frame(p) /\ doing'[p] = l /\ cmd'[p] = c /\ since'[p] = epoch /\ answer'[p] = "none"
      /\ mine'[p] = 0 /\ acct'[p] = None /\ svc'[p] = svc[p]
  BY <1>0, <1>4, Facts DEF OwnType, Frame, Unmoved, Track
<1>7. Track(p)'
  <2>1. epoch' = epoch /\ epoch <= epoch
    BY <1>0, <1>4
  <2> QED BY <1>3, <1>6, <2>1 DEF Track, Signing, Restoring, Ending, Up
<1>8. Hands(p)'
  BY <1>0, <1>6, Facts DEF Hands, Stamped, remote
<1>9. ActorOf(p)'
  <2>1. CASE c.op = "login"
    <3>1. LoginOf(p)'
      BY <1>3, <1>6, <2>1 DEF LoginOf
    <3> QED BY <1>6, <1>7, <2>1, <3>1, LoginActor
  <2>2. CASE c.op = "use"
    <3>1. TurningOf(p)' /\ ProgramOf(p)'
      BY <1>3, <1>6, <2>2 DEF TurningOf, ProgramOf, Work, Up
    <3> QED BY <1>6, <1>7, <2>2, <3>1, UseActor
  <2>3. CASE c.op = "logout"
    <3>1. LogoutOf(p)' /\ LoggedOut(p)'
      BY <1>3, <1>6, <2>3 DEF LogoutOf, LoggedOut
    <3> QED BY <1>6, <1>7, <2>3, <3>1, LogoutActor
  <2> QED BY <1>3, <2>1, <2>2, <2>3
<1>10. Alone'
  <2> SUFFICES ASSUME NEW q \in Proc, NEW r \in Proc, doing'[q] # "idle", doing'[r] # "idle",
                      cmd'[q].op # "use", cmd'[r].op # "use"
               PROVE  q = r
    BY DEF Alone
  <2>1. \A x \in Proc : x # p => doing'[x] = doing[x] /\ cmd'[x] = cmd[x]
    BY <1>6 DEF Frame, Unmoved
  <2>2. CASE q # p /\ r # p
    BY <2>1, <2>2, Facts DEF Alone
  <2>3. CASE (q = p /\ r # p) \/ (q # p /\ r = p)
    BY <1>0, <1>6, <2>1, <2>3
  <2> QED BY <2>2, <2>3
<1> QED BY <1>2, <1>5, <1>6, <1>7, <1>8, <1>9, <1>10 DEF OwnOf

(* Nothing here moves: sessions may end elsewhere.                         *)
LEMMA ElsewhereKeeps ==
  ASSUME SessionsInv, UNCHANGED <<slot, late, now, doing, own, answer, holder, epoch>>,
         Ages, AgesHeld, \A q \in Proc : AgesFor(q), session' \in [UID -> SessionRec], CountType',
         excused \subseteq excused', excused' \subseteq Proc
  PROVE  SessionsInv'
<1>t. LoginTypeOK /\ OwnType /\ FileType /\ RemoteType /\ GhostType /\ Stamped
  BY Types DEF SessionsInv, Local, Shared
<1>1. LoginTypeOK'
  <2>1. OwnType' /\ FileType' /\ RemoteType' /\ GhostType'
    BY <1>t DEF OwnType, FileType, RemoteType, GhostType, own
  <2> QED BY <2>1, TypesNext
<1>2. OnTrack' /\ Alone'
  BY DEF SessionsInv, Local, OnTrack, Track, Alone, own
<1>3. Stamped' /\ World'
  <2>1. Stamped'
    BY <1>t DEF Stamped, own
  <2> QED BY <2>1, SharedKept
<1>4. ASSUME NEW q \in Proc PROVE ActorOf(q)'
  <2>1. Unmoved(q) /\ Calmly /\ Files /\ Cleared /\ Newer
    BY DEF Unmoved, own, Calmly, Files, Cleared, Newer
  <2>2. Undisturbed(q)
    BY <2>1 DEF Undisturbed
  <2> QED BY <2>2, Bystander
<1>5. Actors'
  BY <1>4 DEF Actors, ActorOf, Logins, Turning, Programs, Logouts, LogoutIsComplete, LoggedOut
<1> QED BY <1>1, <1>2, <1>3, <1>5 DEF SessionsInv, Local, Shared, World
LEMMA EndsElsewhereStep ==
  ASSUME SessionsInv, NEW u \in UID, EndsElsewhere(u)
  PROVE  SessionsInv'
<1>1. session' = Ended(session, u)
  BY DEF EndsElsewhere
<1>2. Ages /\ AgesHeld
  BY <1>1, AgesEnded
<1>3. ASSUME NEW q \in Proc PROVE AgesFor(q)
  <2>1. PICK x \in {0, 1} : x # q
    OBVIOUS
  <2>2. Others(x)
    BY <1>1, AgesEnded
  <2> QED BY <2>1, <2>2 DEF Others
<1>4. session' \in [UID -> SessionRec]
  BY <1>1, ModeType DEF SessionsInv, Local, SessionRec
<1>5. CountType'
  BY Types, CountsFailed DEF SessionsInv, Local, EndsElsewhere
<1>6. excused \subseteq excused' /\ excused' \subseteq Proc
  BY DEF EndsElsewhere, SessionsInv, Local, LoginTypeOK
<1>7. UNCHANGED <<slot, late, now, doing, own, answer, holder, epoch>>
  BY DEF EndsElsewhere, file
<1> QED BY <1>2, <1>3, <1>4, <1>5, <1>6, <1>7, ElsewhereKeeps

(***************************************************************************)
(* The invariant holds                                                     *)
(***************************************************************************)
LEMMA FirstCommand ==
  /\ (CHOOSE d \in Command : d.op = "use") \in Command
  /\ (CHOOSE d \in Command : d.op = "use").op = "use"
<1>1. PICK s \in Service : TRUE
  BY ServiceAssumption
<1>2. [op |-> "use", user |-> Nobody, cookie |-> FALSE, service |-> s, force |-> FALSE] \in Command
  BY <1>1 DEF Command
<1>3. \E d \in Command : d.op = "use"
  BY <1>2
<1> QED BY <1>3

(* A first world: nobody is logged in, or one login was saved whole.       *)
LEMMA FirstWorld ==
  ASSUME LoginInit
  PROVE  FileType /\ RemoteType /\ World
<1>1. now = 0 /\ late = {} /\ 0 \in 0..MaxTime
  BY Numbers DEF LoginInit
<1>z. 0 \in 0..MaxSessions /\ 1 \in UID /\ 0 \notin UID
  BY Numbers DEF UID
<1> DEFINE Copy(w) == [Saved(1, ~w.cookie, w.user) EXCEPT !.cookieAuth = w.cookie, !.at = 0]
           Old(w) == [Copy(w) EXCEPT !.cookieAuth = FALSE, !.bearer = TRUE]
<1>2. PICK w \in Worlds :
        /\ slot = [s \in Slot |->
             IF w.user = None THEN None
             ELSE CASE s = "account" -> Copy(w)
                    [] s = "cookie" -> IF w.cookie THEN Copy(w) ELSE None
                    [] OTHER -> IF w.legacy THEN Old(w) ELSE None]
        /\ session = [u \in UID |->
             IF u = 1 /\ w.user # None
             THEN [user |-> w.user, parent |-> 0, mode |-> IF w.cookie THEN "cookie" ELSE "bearer"]
             ELSE [user |-> Nobody, parent |-> 0, mode |-> "unborn"]]
        /\ holder = IF w.user = None THEN None ELSE [user |-> w.user, uid |-> 1, cookie |-> w.cookie]
  BY DEF LoginInit
<1>3. w.user \in User \cup {None} /\ w.cookie \in BOOLEAN
  BY WorldAssumption
<1>4. CASE w.user = None
  <2>1. slot = [s \in Slot |-> None] /\ holder = None
        /\ session = [u \in UID |-> [user |-> Nobody, parent |-> 0, mode |-> "unborn"]]
    BY <1>2, <1>4
  <2>2. FileType /\ RemoteType
    BY <1>1, <1>z, <2>1 DEF FileType, RemoteType, SessionRec
  <2>3. World
    BY <2>1 DEF World, SlotsStamped, Unborn, Held, AccountSlot, CookieSlot, ServicesKept
  <2> QED BY <2>2, <2>3
<1>5. CASE w.user # None
  <2>1. PICK b \in BOOLEAN : b = ~w.cookie
    OBVIOUS
  <2>2. Copy(w) = [Saved(1, b, w.user) EXCEPT !.cookieAuth = w.cookie, !.at = 0]
    BY <2>1, Zenon
  <2>a. PICK c : c = Copy(w)
    OBVIOUS
  <2>o. PICK o : o = Old(w)
    OBVIOUS
  <2>3. /\ c = [Saved(1, b, w.user) EXCEPT !.cookieAuth = w.cookie, !.at = 0]
        /\ o = [c EXCEPT !.cookieAuth = FALSE, !.bearer = TRUE]
        /\ w.user \in User /\ w.cookie \in BOOLEAN
    BY <1>3, <1>5, <2>2, <2>a, <2>o
  <2> HIDE DEF Copy, Old
  <2>c. /\ c \in Credentials /\ o \in Credentials
        /\ c.uid = 1 /\ c.auth = 1 /\ c.bearer = b /\ c.key = w.user
        /\ c.cookieAuth = w.cookie /\ c.service = "" /\ c.at = 0 /\ c # None
        /\ o.service = "" /\ o.at = 0
    <3>1. PICK x \in BOOLEAN, k \in User : x = w.cookie /\ k = w.user
      BY <2>3
    <3>2. /\ c = [Saved(1, b, k) EXCEPT !.cookieAuth = x, !.at = 0]
          /\ o = [c EXCEPT !.cookieAuth = FALSE, !.bearer = TRUE]
      BY <2>3, <3>1
    <3>3. b \in BOOLEAN /\ x \in BOOLEAN /\ k \in User
      BY <2>1, <3>1
    <3> HIDE <2>1, <3>1
    <3>4. /\ c \in Credentials /\ o \in Credentials
          /\ c.uid = 1 /\ c.auth = 1 /\ c.bearer = b /\ c.key = k /\ c.cookieAuth = x
          /\ c.service = "" /\ c.at = 0 /\ o.service = "" /\ o.at = 0
      <4>1. "" \in Service \cup {""} /\ k \in User \cup {Nobody}
        BY <3>3
      <4>2. c \in Credentials
        BY <1>1, <1>z, <3>2, <3>3, <4>1 DEF Saved, Credentials
      <4>3. /\ c.uid = 1 /\ c.auth = 1 /\ c.bearer = b /\ c.key = k /\ c.cookieAuth = x
            /\ c.service = "" /\ c.at = 0
        BY <3>2, <3>3 DEF Saved
      <4>4. o \in Credentials /\ o.service = c.service /\ o.at = c.at
        BY <3>2, <4>2 DEF Credentials
      <4> QED BY <4>2, <4>3, <4>4
    <3> QED BY <3>1, <3>4, NoneAssumption
  <2>d. (w.cookie => ~b) /\ (~w.cookie => b)
    BY <2>1, Zenon
  <2>4. /\ slot["account"] = c
        /\ slot["cookie"] = (IF w.cookie THEN c ELSE None)
        /\ \A s \in Service : slot[s] \in {o, None}
        /\ slot \in [Slot -> Credentials \cup {None}]
    BY <1>2, <1>5, <2>a, <2>o, <2>c, SlotNames, ServiceAssumption
  <2>5. /\ session[1] = [user |-> w.user, parent |-> 0, mode |-> IF w.cookie THEN "cookie" ELSE "bearer"]
        /\ \A u \in UID : u # 1 => session[u] = [user |-> Nobody, parent |-> 0, mode |-> "unborn"]
    BY <1>2, <1>5, <1>z
  <2>6. holder = [user |-> w.user, uid |-> 1, cookie |-> w.cookie]
    BY <1>2, <1>5
  <2>7. session \in [UID -> SessionRec]
    BY <1>2, <1>3, <1>z DEF SessionRec
  <2>8. SlotsStamped
    <3>1. \A s \in Slot : s = "account" \/ s = "cookie" \/ s \in Service
      BY DEF Slot
    <3>2. \A s \in Slot : slot[s] # None => slot[s].at = 0
      BY <2>c, <2>4, <3>1
    <3> QED BY <1>1, <3>2 DEF SlotsStamped
  <2>9. Unborn
    BY <2>5 DEF Unborn
  <2>10. Held
    <3>1. holder.uid = 1 /\ holder.user = w.user /\ holder.cookie = w.cookie
      BY <2>6
    <3>2. Heads(1)
      BY <2>5, <1>3 DEF Heads
    <3> QED BY <2>5, <3>1, <3>2 DEF Held, Style
  <2>11. AccountSlot /\ CookieSlot
    BY <1>3, <2>c, <2>d, <2>4, <2>6 DEF AccountSlot, CookieSlot, GoodAccount
  <2>12. ServicesKept
    <3>1. \A s \in Service : slot[s] # None => slot[s].service # s
      BY <2>c, <2>4, ServiceAssumption
    <3> QED BY <3>1 DEF ServicesKept, Trusted
  <2> QED BY <1>1, <2>4, <2>7, <2>8, <2>9, <2>10, <2>11, <2>12 DEF FileType, RemoteType, World
<1> QED BY <1>4, <1>5

LEMMA LoginInitial == LoginInit => SessionsInv
<1> SUFFICES ASSUME LoginInit PROVE SessionsInv
  OBVIOUS
<1>1. FileType /\ RemoteType /\ World
  BY FirstWorld
<1>2. /\ doing = [p \in Proc |-> "idle"] /\ cmd = [p \in Proc |-> CHOOSE d \in Command : d.op = "use"]
      /\ acct = [p \in Proc |-> None] /\ svc = [p \in Proc |-> None] /\ mine = [p \in Proc |-> 0]
      /\ key = [p \in Proc |-> Nobody] /\ answer = [p \in Proc |-> "none"]
      /\ epoch = 0 /\ since = [p \in Proc |-> 0] /\ excused = {}
      /\ commands = 0 /\ rotations = 0 /\ mishaps = 0
  BY DEF LoginInit
<1>3. OwnType
  BY <1>2, FirstCommand, Zero DEF OwnType, Doing
<1>4. GhostType
  <2>1. holder \in [user : User, uid : UID, cookie : BOOLEAN] \cup {None}
    <3>1. PICK w \in Worlds : holder = IF w.user = None THEN None ELSE [user |-> w.user, uid |-> 1, cookie |-> w.cookie]
      BY DEF LoginInit
    <3>2. w.user \in User \cup {None} /\ w.cookie \in BOOLEAN
      BY WorldAssumption
    <3>3. 1 \in UID
      BY Numbers DEF UID
    <3> QED BY <3>1, <3>2, <3>3
  <2> QED BY <1>2, <2>1 DEF GhostType
<1>5. CountType
  BY <1>2, Numbers DEF CountType
<1>6. LoginTypeOK
  BY <1>1, <1>3, <1>4, <1>5, Types
<1>7. ASSUME NEW p \in Proc
      PROVE  /\ doing[p] = "idle" /\ cmd[p].op = "use" /\ acct[p] = None /\ svc[p] = None /\ mine[p] = 0
             /\ answer[p] = "none" /\ since[p] = 0 /\ epoch = 0
  BY <1>2, FirstCommand
<1>8. OnTrack
  BY <1>7 DEF OnTrack, Track, Signing, Restoring, Ending, Up
<1>9. Alone
  BY <1>7 DEF Alone
<1>10. Stamped
  BY <1>1, <1>7 DEF Stamped, World, SlotsStamped
<1>11. Actors
  <2> SUFFICES ASSUME NEW p \in Proc PROVE LoginOf(p) /\ TurningOf(p) /\ ProgramOf(p) /\ LogoutOf(p) /\ LoggedOut(p)
    BY DEF Actors, Logins, Turning, Programs, Logouts, LogoutIsComplete, LoggedOut
  <2> QED BY <1>7 DEF LoginOf, TurningOf, ProgramOf, Work, LogoutOf, LoggedOut, Up, Signing
<1> QED BY <1>1, <1>6, <1>8, <1>9, <1>10, <1>11 DEF SessionsInv, Local, Shared, World

LEMMA StepsKeep ==
  ASSUME SessionsInv, NEW p \in Proc, Steps(p)
  PROVE  SessionsInv'
<1>1. ASSUME StepOf(p) PROVE SessionsInv'
  <2>1. Alone'
    BY <1>1, StillAlone DEF StepOf, OwnOf, SessionsInv
  <2> QED BY <1>1, <2>1, StepKeeps DEF StepOf
<1>2. ASSUME NEW c \in Command, Begin(p, c) PROVE SessionsInv'
  BY <1>2, BeginStep, StepKeeps
<1>3. CASE Anon(p) \/ Bind(p) \/ AsksForCaptcha(p) \/ SolveCaptcha(p) \/ Authenticates(p)
  BY <1>1, <1>3, AnonStep, BindStep, CaptchaSteps, AuthenticatesStep
<1>4. CASE SecondFactor(p) \/ Derive(p) \/ FirstWrite(p) \/ SaveAccount(p)
  BY <1>1, <1>4, SecondFactorStep, DeriveStep, FirstWriteStep, SaveAccountStep
<1>5. CASE Load(p) \/ GetUser(p) \/ Renew(p) \/ ServiceStep(p) \/ RestoreBearer(p) \/ RestoreCookie(p)
  BY <1>1, <1>5, LoadStep, GetUserStep, RenewStep, ServiceStepStep, RestoreBearerStep, RestoreCookieStep
<1>6. CASE PushFork(p) \/ CookieReload(p) \/ CookieCreate(p) \/ CookiePush(p) \/ ChildToCookies(p)
  BY <1>1, <1>6, PushForkStep, CookieReloadStep, CookieCreateStep, CookiePushStep, ChildToCookiesStep
<1>7. CASE Keep(p) \/ Tag(p) \/ Unlock(p) \/ Rotate(p) \/ RotateAccount(p) \/ Stop(p)
  BY <1>1, <1>7, KeepStep, TagStep, UnlockStep, RotateStep, RotateAccountStep, StopStep
<1>8. CASE LogoutRestore(p) \/ SessionRevoke(p) \/ Forget(p) \/ DeleteAllSessions(p)
  BY <1>1, <1>8, LogoutRestoreStep, SessionRevokeStep, ForgetStep, DeleteAllSessionsStep
<1>9. CASE Fails(p) \/ Dies(p)
  BY <1>1, <1>9, FailsStep, DiesStep
<1> QED BY <1>2, <1>3, <1>4, <1>5, <1>6, <1>7, <1>8, <1>9 DEF Steps
LEMMA RestKeeps == ASSUME SessionsInv, UNCHANGED loginVars PROVE SessionsInv'
<1>1. UNCHANGED <<slot, session, now, doing, own, answer, holder, epoch, late, excused, count>>
  BY DEF loginVars
<1>2. Ages /\ AgesHeld
  BY <1>1, AgesStay DEF SessionsInv, Shared
<1>3. \A q \in Proc : AgesFor(q)
  BY <1>1 DEF AgesFor
<1>4. session' \in [UID -> SessionRec]
  BY <1>1, Types DEF SessionsInv, Local, RemoteType
<1>5. CountType'
  BY <1>1, Types, CountsSame DEF SessionsInv, Local
<1>6. excused \subseteq excused' /\ excused' \subseteq Proc
  BY <1>1, Types DEF SessionsInv, Local, GhostType
<1> QED BY <1>1, <1>2, <1>3, <1>4, <1>5, <1>6, ElsewhereKeeps

(* The sessions at the server, the session file and what every program has *)
(* in hand agree in every reachable state, for any number of programs,     *)
(* services and people (session_restore.go, session_ops.go, login.go,      *)
(* logout.go): the login that was saved last is the server's, its slots    *)
(* hold it unless a program begun before it wrote there since, what is     *)
(* newer than it was forked from it, and no program begun after it holds   *)
(* anything else.                                                          *)
THEOREM SessionsInvariant == LoginSpec => []SessionsInv
<1>1. LoginInit => SessionsInv
  BY LoginInitial
<1>2. SessionsInv /\ [LoginNext]_loginVars => SessionsInv'
  BY StepsKeep, EndsElsewhereStep, RestKeeps DEF LoginNext
<1> QED BY <1>1, <1>2, PTL DEF LoginSpec

(* Every variable of Login keeps its type.                                 *)
THEOREM LoginTypes == LoginSpec => []LoginTypeOK
<1>1. SessionsInv => LoginTypeOK
  BY DEF SessionsInv, Local
<1> QED BY <1>1, SessionsInvariant, PTL

(* A program that starts after a login works as the person who logged in   *)
(* and opens that person's keys, whoever used its service before           *)
(* (shouldFork and IsStale, session_restore.go).                           *)
THEOREM TheAccountInUseAlways == LoginSpec => []TheAccountInUse
<1>1. ASSUME SessionsInv PROVE TheAccountInUse
  <2> SUFFICES ASSUME NEW p \in Proc, doing[p] \in Up, since[p] = epoch, p \notin excused, LoggedIn
               PROVE  session[mine[p]].user = holder.user /\ key[p] = holder.user
    BY DEF TheAccountInUse
  <2>1. cmd[p].op = "use"
    BY <1>1 DEF SessionsInv, Local, OnTrack, Track
  <2>2. Reader(p)
    BY <2>1 DEF Reader, Current, LoggedIn
  <2>3. Work(p)
    BY <1>1, <2>2 DEF SessionsInv, Actors, Programs, ProgramOf
  <2> QED BY <2>3 DEF Work, ChildOf, Child
<1> QED BY <1>1, SessionsInvariant, PTL

(* Whatever earlier commands left when they died between their writes, a   *)
(* program that starts after a login gets its session: the only refusal    *)
(* that is not a fault of its own is that of a fork ended elsewhere.       *)
THEOREM LoginRepairsAlways == LoginSpec => []LoginRepairs
<1>1. ASSUME SessionsInv PROVE LoginRepairs
  <2> SUFFICES ASSUME NEW p \in Proc, answer[p] \in {"error", "not logged in"}, cmd[p].op = "use",
                      since[p] = epoch, p \notin excused, LoggedIn
               PROVE  \E u \in UID : Severed(u)
    BY DEF LoginRepairs
  <2>1. Severance
    BY <1>1 DEF SessionsInv, Actors, Programs, ProgramOf, Reader, Current, LoggedIn
  <2>2. PICK u \in UID : session[u].mode = "dead" /\ session[u].parent = holder.uid
    BY <2>1 DEF Severance
  <2>3. Severed(u)
    BY <2>2 DEF Severed, LoggedIn, Alive
  <2> QED BY <2>3
<1> QED BY <1>1, SessionsInvariant, PTL

(* A logout that reports success and met no fault ended the login at the   *)
(* server and emptied the session file, but for what a program begun       *)
(* before it wrote afterwards (logout.go:56-84).                           *)
THEOREM LogoutIsCompleteAlways == LoginSpec => []LogoutIsComplete
<1>1. SessionsInv => LogoutIsComplete
  BY DEF SessionsInv, Actors
<1> QED BY <1>1, SessionsInvariant, PTL

------------------------------------------------------------------------------
(***************************************************************************)
(* AccountRefresh                                                          *)
(***************************************************************************)

USE DEF Store, Record, PC

LEMMA HomeInStore == Home \in Store /\ \A p \in Process : RefreshStore(p) \in Store
  BY DEF Home, RefreshStore

(* The setting of a behaviour does not change, nor what it decides.        *)
LEMMA EnvStays == ASSUME [Next]_vars PROVE env' = env
  BY DEF Next, vars
LEMMA HomeStays ==
  ASSUME [Next]_vars
  PROVE  Home' = Home /\ \A p \in Process : RefreshStore(p)' = RefreshStore(p)
  BY EnvStays DEF Home, RefreshStore, Cookie

(* Type correctness, one step per action.                                  *)
LEMMA TypeStep == TypeOK /\ [Next]_vars => TypeOK'
<1> SUFFICES ASSUME TypeOK, [Next]_vars PROVE TypeOK'
  OBVIOUS
<1>e. env' \in Settings
  BY EnvStays DEF TypeOK
<1>f. ASSUME Fault PROVE faults' \in 0..MaxFaults
  BY <1>f, BoundAssumption DEF Fault, TypeOK
<1> USE HomeInStore, <1>e DEF TypeOK, Go, Goto, Finish, Same, Bounds, Calls, local, server
<1>1. CASE GetsOld
  <2>1. \A s \in Store : [stored[s] EXCEPT !.due = TRUE] \in Record
    OBVIOUS
  <2>2. stored' \in [Store -> Record]
    BY <1>1, <2>1 DEF GetsOld
  <2> QED BY <1>1, <2>2, BoundAssumption DEF GetsOld
<1>2. CASE Expires
  BY <1>2, BoundAssumption DEF Expires
<1>3. ASSUME NEW d \in Daemon, Tick(d) PROVE TypeOK'
  BY <1>3 DEF Tick, Process
<1>4. ASSUME NEW a \in App, Start(a) PROVE TypeOK'
  BY <1>4, BoundAssumption DEF Start, Process
<1>5. ASSUME NEW p \in Process, Step(p) PROVE TypeOK'
  <2>1. CASE Passes(p)
    BY <2>1 DEF Passes, AfterCheck
  <2>2. CASE Unauthorized(p)
    BY <2>2 DEF Unauthorized
  <2>3. CASE DirectRefresh(p)
    <3>1. live' \in Nat \ {0}
      BY <2>3 DEF DirectRefresh, Rotates
    <3>e. expired' \in BOOLEAN
      BY <2>3 DEF DirectRefresh, Rotates
    <3>2. held' \in [Process -> Nat]
      BY <2>3 DEF DirectRefresh
    <3>3. faults' \in 0..MaxFaults
      BY <2>3, <1>f DEF DirectRefresh
    <3>4. /\ pc' \in [Process -> PC]
          /\ outcome' \in [Process -> {"none", "ok", "failed", "deauthed"}]
          /\ latched' \in [Process -> BOOLEAN]
      BY <2>3 DEF DirectRefresh, Rejected
    <3> QED BY <2>3, <3>1, <3>e, <3>2, <3>3, <3>4 DEF DirectRefresh
  <2>s. ASSUME Stores(p) PROVE stored' \in [Store -> Record]
    <3> DEFINE r == [tok |-> held[p], due |-> FALSE]
    <3>1. r \in Record
      OBVIOUS
    <3>2. stored' = [stored EXCEPT ![Home] = r]
      BY <2>s DEF Stores
    <3> HIDE DEF r
    <3> QED BY <3>1, <3>2
  <2>4. CASE DirectSave(p)
    <3>s. stored' \in [Store -> Record]
      BY <2>4, <2>s DEF DirectSave
    <3>f. faults' \in 0..MaxFaults
      BY <2>4, <1>f DEF DirectSave
    <3>2. stored' \in [Store -> Record] /\ faults' \in 0..MaxFaults
      BY <3>s, <3>f
    <3> QED BY <2>4, <3>2 DEF DirectSave, AfterSave
  <2>12. CASE SaveAgain(p)
    <3>s. stored' \in [Store -> Record]
      BY <2>12, <2>s DEF SaveAgain
    <3>f. faults' \in 0..MaxFaults
      BY <2>12, <1>f DEF SaveAgain
    <3>u. undone' \in BOOLEAN
      BY <2>12 DEF SaveAgain, Overtaken
    <3> QED BY <2>12, <3>s, <3>f, <3>u DEF SaveAgain
  <2>13. CASE Retry(p)
    BY <2>13 DEF Retry, AfterCheck
  <2>5. CASE Fork(p)
    BY <2>5 DEF Fork
  <2>6. CASE Push(p)
    BY <2>6 DEF Push
  <2>7. CASE RefreshCred(p)
    BY <2>7 DEF RefreshCred, Cred
  <2>8. CASE Acquire(p)
    BY <2>8 DEF Acquire, Acquires
  <2>9. CASE Reload(p)
    BY <2>9 DEF Reload, Latest, Returns, Release
  <2>10. CASE Refresh(p)
    <3>1. live' \in Nat \ {0}
      BY <2>10 DEF Refresh, Rotates
    <3>e. expired' \in BOOLEAN
      BY <2>10 DEF Refresh, Rotates
    <3>2. cur' \in [Process -> Nat]
      BY <2>10 DEF Refresh
    <3>3. lock' \in Process \cup {Free}
      BY <2>10 DEF Refresh, Release
    <3>4. faults' \in 0..MaxFaults
      BY <2>10, <1>f DEF Refresh
    <3> QED BY <2>10, <3>1, <3>e, <3>2, <3>3, <3>4 DEF Refresh
  <2>11. CASE Save(p)
    <3>1. Refreshed(p) \in Record
      BY DEF Refreshed
    <3>2. stored' \in [Store -> Record]
      BY <2>11, <3>1 DEF Save
    <3>3. lock' \in Process \cup {Free}
      BY <2>11 DEF Save, Returns, Release
    <3>4. held' \in [Process -> Nat]
      BY <2>11 DEF Save, Returns
    <3>5. /\ pc' \in [Process -> PC]
          /\ outcome' \in [Process -> {"none", "ok", "failed", "deauthed"}]
          /\ latched' \in [Process -> BOOLEAN]
      BY <2>11 DEF Save, Returns
    <3>6. faults' \in 0..MaxFaults
      BY <2>11, <1>f DEF Save
    <3> QED BY <2>11, <3>2, <3>3, <3>4, <3>5, <3>6 DEF Save
  <2> QED BY <1>5, <2>1, <2>2, <2>3, <2>4, <2>5, <2>6, <2>7, <2>8, <2>9, <2>10, <2>11, <2>12, <2>13
          DEF Step, LockedStep, RestoreStep
<1>6. ASSUME NEW p \in Process, Crash(p) PROVE TypeOK'
  BY <1>6, <1>f DEF Crash, DropsLock
<1>7. CASE UNCHANGED vars
  BY <1>7 DEF vars
<1> QED BY <1>1, <1>2, <1>3, <1>4, <1>5, <1>6, <1>7 DEF Next

LEMMA InitType == Init => TypeOK
<1> SUFFICES ASSUME Init PROVE TypeOK
  OBVIOUS
<1>1. \A s \in Store : [tok |-> IF s = Home THEN 1 ELSE 0, due |-> FALSE] \in Record
  OBVIOUS
<1>2. stored \in [Store -> Record]
  BY <1>1 DEF Init
<1>3. 0 \in 0..MaxEvents /\ 0 \in 0..MaxStarts /\ 0 \in 0..MaxFaults
  BY BoundAssumption
<1>4. lock \in Process \cup {Free} /\ live \in Nat \ {0}
  BY DEF Init
<1>5. expired \in BOOLEAN
  BY DEF Init
<1> QED BY <1>2, <1>3, <1>4, <1>5 DEF Init, TypeOK

(* THEOREM: every variable keeps its type, for any constants.              *)
THEOREM TypeCorrect == SafetySpec => []TypeOK
  BY InitType, TypeStep, PTL DEF SafetySpec

-----------------------------------------------------------------------------
(* Nobody has a credential the server has not handed out, and while a      *)
(* rotated credential is not stored yet only its process has it. The store *)
(* that is not the home of the credential has none.                        *)
NoneAhead ==
  /\ \A s \in Store : stored[s].tok <= live
  /\ \A p \in Process : held[p] <= live /\ cur[p] <= live
Older(p) == cur[p] < live /\ held[p] < live
OnlyCopy ==
  \A p \in Process :
    /\ pc[p] = "save" => cur[p] = live /\ held[p] < live
    /\ pc[p] = "dsave" => held[p] = live /\ cur[p] < live
    /\ pc[p] \in {"save", "dsave"} =>
         /\ \A s \in Store : stored[s].tok < live
         /\ \A q \in Process \ {p} : Older(q)
KeptAtHome ==
  /\ \A s \in Store \ {Home} : stored[s].tok = 0
  /\ \A p \in Process : RefreshStore(p) # Home =>
       pc[p] # "save" /\ (pc[p] = "refresh" => cur[p] = 0)
IInv == TypeOK /\ NoneAhead /\ OnlyCopy /\ KeptAtHome

LEMMA InitIInv == Init => IInv
  BY InitType, HomeInStore
     DEF Init, IInv, NoneAhead, OnlyCopy, KeptAtHome, Home, TypeOK

LEMMA IInvStep == IInv /\ [Next]_vars => IInv'
<1> SUFFICES ASSUME IInv, [Next]_vars PROVE IInv'
  OBVIOUS
<1>t. TypeOK /\ TypeOK'
  BY TypeStep DEF IInv
<1>h. Home' = Home /\ \A p \in Process : RefreshStore(p)' = RefreshStore(p)
  BY HomeStays
<1> USE <1>t, <1>h, HomeInStore
    DEF TypeOK, IInv, NoneAhead, OnlyCopy, KeptAtHome, Older, Go, Goto, Finish, Same, Bounds, Calls, Fault,
        local, server
<1>1. CASE GetsOld
  BY <1>1 DEF GetsOld
<1>2. CASE Expires
  BY <1>2 DEF Expires
<1>3. ASSUME NEW d \in Daemon, Tick(d) PROVE IInv'
  BY <1>3 DEF Tick, Process
<1>4. ASSUME NEW a \in App, Start(a) PROVE IInv'
  BY <1>4 DEF Start, Process
<1>5. ASSUME NEW p \in Process, Step(p) PROVE IInv'
  <2>1. CASE Passes(p)
    BY <2>1 DEF Passes, AfterCheck
  <2>2. CASE Unauthorized(p)
    BY <2>2 DEF Unauthorized
  <2>3. CASE DirectRefresh(p)
    BY <2>3 DEF DirectRefresh, Rotates
  <2>4. CASE DirectSave(p)
    BY <2>4 DEF DirectSave, Stores, AfterSave
  <2>12. CASE SaveAgain(p)
    BY <2>12 DEF SaveAgain, Stores, Overtaken
  <2>13. CASE Retry(p)
    BY <2>13 DEF Retry, AfterCheck
  <2>5. CASE Fork(p)
    BY <2>5 DEF Fork
  <2>6. CASE Push(p)
    BY <2>6 DEF Push
  <2>7. CASE RefreshCred(p)
    BY <2>7 DEF RefreshCred, Cred
  <2>8. CASE Acquire(p)
    BY <2>8 DEF Acquire
  <2>9. CASE Reload(p)
    BY <2>9 DEF Reload, Latest, Returns
  <2>10. CASE Refresh(p)
    BY <2>10 DEF Refresh, Rotates
  <2>11. CASE Save(p)
    BY <2>11 DEF Save, Refreshed, Returns
  <2> QED BY <1>5, <2>1, <2>2, <2>3, <2>4, <2>5, <2>6, <2>7, <2>8, <2>9, <2>10, <2>11, <2>12, <2>13
          DEF Step, LockedStep, RestoreStep
<1>6. ASSUME NEW p \in Process, Crash(p) PROVE IInv'
  BY <1>6 DEF Crash
<1>7. CASE UNCHANGED vars
  BY <1>7 DEF vars
<1> QED BY <1>1, <1>2, <1>3, <1>4, <1>5, <1>6, <1>7 DEF Next

(* THEOREM: in every environment, crashes, lost answers and missing locks  *)
(* included, a stored credential is replaced by an older one in one way    *)
(* only: by the second save of a 401 refresh of cookies that a peer has    *)
(* overtaken. No step of RefreshAccountLocked does it.                     *)
THEOREM StoreMonotone == SafetySpec => StoreNeverGoesBack
<1> DEFINE Grows ==
      \A s \in Store :
        stored'[s].tok < stored[s].tok => \E a \in App : Overtaken(a) /\ SaveAgain(a)
<1>1. ASSUME IInv, [Next]_vars PROVE Grows
  <2> USE <1>1, HomeInStore DEF IInv, TypeOK, NoneAhead, OnlyCopy, KeptAtHome
  <2>1. CASE GetsOld
    BY <2>1 DEF GetsOld
  <2>2. ASSUME NEW p \in Process, DirectSave(p) PROVE Grows
    BY <2>2 DEF DirectSave, Stores
  <2>3. ASSUME NEW p \in Process, Save(p) PROVE Grows
    BY <2>3 DEF Save, Refreshed
  <2>4. ASSUME NEW p \in App, SaveAgain(p) PROVE Grows
    <3> SUFFICES ASSUME NEW s \in Store, stored'[s].tok < stored[s].tok
                 PROVE Overtaken(p)
      BY <2>4
    <3>1. Stores(p) /\ pc[p] = "again"
      BY <2>4 DEF SaveAgain
    <3> QED BY <3>1 DEF Stores, Overtaken, Process
  <2>5. CASE UNCHANGED stored
    BY <2>5
  <2> QED
    BY <2>1, <2>2, <2>3, <2>4, <2>5
       DEF Next, Expires, Tick, Start, Step, LockedStep, RestoreStep, Passes, Unauthorized,
           DirectRefresh, Retry, Fork, Push, RefreshCred, Acquire, Reload, Refresh, Crash, Same, vars
<1>2. IInv /\ [Next]_vars => [Grows]_vars
  BY <1>1
<1> QED BY <1>2, InitIInv, IInvStep, PTL DEF SafetySpec, StoreNeverGoesBack

-----------------------------------------------------------------------------
(* Only a fault, or a second save of old cookies, can lose the credential. *)

LEMMA RecoverableStep ==
  ASSUME faults' = 0, ~undone', IInv, IInv', Recoverable, [Next]_vars PROVE Recoverable'
<1>h. Home' = Home /\ \A p \in Process : RefreshStore(p)' = RefreshStore(p)
  BY HomeStays
<1> USE HomeInStore, <1>h DEF Recoverable, Saving
<1> USE DEF IInv, TypeOK, NoneAhead, OnlyCopy, KeptAtHome, Older, Go, Goto, Finish, Same, Bounds, Calls, Fault,
        local, server
<1>1. CASE GetsOld
  BY <1>1 DEF GetsOld
<1>2. CASE Expires
  BY <1>2 DEF Expires
<1>3. ASSUME NEW d \in Daemon, Tick(d) PROVE Recoverable'
  BY <1>3 DEF Tick, Process
<1>4. ASSUME NEW a \in App, Start(a) PROVE Recoverable'
  BY <1>4 DEF Start, Process
<1>5. ASSUME NEW p \in Process, Step(p) PROVE Recoverable'
  <2>1. CASE Passes(p)
    BY <2>1 DEF Passes, AfterCheck
  <2>2. CASE Unauthorized(p)
    BY <2>2 DEF Unauthorized
  <2>3. CASE DirectRefresh(p)
    BY <2>3 DEF DirectRefresh, Rotates
  <2>4. CASE DirectSave(p)
    BY <2>4 DEF DirectSave, Stores, AfterSave
  <2>12. CASE SaveAgain(p)
    BY <2>12 DEF SaveAgain, Stores, Overtaken
  <2>13. CASE Retry(p)
    BY <2>13 DEF Retry, AfterCheck
  <2>5. CASE Fork(p)
    BY <2>5 DEF Fork
  <2>6. CASE Push(p)
    BY <2>6 DEF Push
  <2>7. CASE RefreshCred(p)
    BY <2>7 DEF RefreshCred, Cred
  <2>8. CASE Acquire(p)
    BY <2>8 DEF Acquire
  <2>9. CASE Reload(p)
    BY <2>9 DEF Reload, Latest, Returns
  <2>10. CASE Refresh(p)
    BY <2>10 DEF Refresh, Rotates
  <2>11. CASE Save(p)
    BY <2>11 DEF Save, Refreshed, Returns
  <2> QED BY <1>5, <2>1, <2>2, <2>3, <2>4, <2>5, <2>6, <2>7, <2>8, <2>9, <2>10, <2>11, <2>12, <2>13
          DEF Step, LockedStep, RestoreStep
<1>6. ASSUME NEW p \in Process, Crash(p) PROVE Recoverable'
  BY <1>6 DEF Crash
<1>7. CASE UNCHANGED vars
  BY <1>7 DEF vars
<1> QED BY <1>1, <1>2, <1>3, <1>4, <1>5, <1>6, <1>7 DEF Next

LEMMA FaultsCount == ASSUME TypeOK, [Next]_vars PROVE faults' >= faults
  BY BoundAssumption
     DEF TypeOK, Next, GetsOld, Expires, Tick, Start, Step, LockedStep, RestoreStep, Passes,
         Unauthorized, DirectRefresh, DirectSave, SaveAgain, Retry, Fork, Push, RefreshCred, Acquire,
         Reload, Refresh, Save, Crash, Bounds, Calls, Fault, vars

LEMMA UndoneStays == ASSUME [Next]_vars, undone PROVE undone'
  BY DEF Next, GetsOld, Expires, Tick, Start, Step, LockedStep, RestoreStep, Passes, Unauthorized,
         DirectRefresh, DirectSave, SaveAgain, Retry, Fork, Push, RefreshCred, Acquire, Reload,
         Refresh, Save, Crash, Same, vars

(* THEOREM: with or without the lock, and with refreshes that bypass it,   *)
(* the account is not lost unless a process dies between a rotation and    *)
(* its save, an answer or a save fails, or the second save of a 401        *)
(* refresh of cookies undoes a peer's.                                     *)
THEOREM AccountKept == SafetySpec => []AccountNotLost
<1>1. Init => AccountNotLost
  BY HomeInStore DEF Init, Recoverable, AccountNotLost
<1>2. ASSUME IInv, IInv', AccountNotLost, [Next]_vars PROVE AccountNotLost'
  <2> SUFFICES ASSUME faults' = 0, ~undone' PROVE Recoverable'
    BY DEF AccountNotLost
  <2>1. faults = 0 /\ ~undone
    BY <1>2, FaultsCount, UndoneStays DEF IInv, TypeOK
  <2> QED BY <1>2, <2>1, RecoverableStep DEF AccountNotLost
<1> QED BY <1>1, <1>2, InitIInv, IInvStep, PTL DEF SafetySpec

-----------------------------------------------------------------------------
(* What the lock gives when every refresh takes it.                        *)
Critical == {"reload", "refresh", "save"}
Locked(p) ==
  /\ pc[p] \in Critical => lock = p
  /\ pc[p] = "refresh" => cur[p] = stored[RefreshStore(p)].tok
  /\ pc[p] \notin {"direct", "dsave", "again", "retry"}
LockInv == Coordinated => \A p \in Process : Locked(p)

LEMMA LockInvStep ==
  ASSUME TypeOK, LockInv, [Next]_vars PROVE LockInv'
<1>h. Home' = Home /\ \A p \in Process : RefreshStore(p)' = RefreshStore(p)
  BY HomeStays
<1>l. Locking' = Locking /\ Direct' = Direct
  BY EnvStays DEF Locking, Direct
<1> SUFFICES ASSUME Locking, ~Direct PROVE LockInv'
  BY <1>l DEF LockInv, Coordinated
<1> USE HomeInStore, ProcessAssumption, <1>h DEF LockInv, Locked, Critical, Coordinated
<1> USE DEF TypeOK, Go, Goto, Finish, Same, Bounds, Calls, Fault, local, server
<1>1. CASE GetsOld
  BY <1>1 DEF GetsOld
<1>2. CASE Expires
  BY <1>2 DEF Expires
<1>3. ASSUME NEW d \in Daemon, Tick(d) PROVE LockInv'
  BY <1>3 DEF Tick, Process
<1>4. ASSUME NEW a \in App, Start(a) PROVE LockInv'
  BY <1>4 DEF Start, Process
<1>5. ASSUME NEW p \in Process, Step(p) PROVE LockInv'
  <2>1. CASE Passes(p)
    BY <2>1 DEF Passes, AfterCheck
  <2>2. CASE Unauthorized(p)
    BY <2>2 DEF Unauthorized
  <2>3. CASE DirectRefresh(p)
    BY <2>3 DEF DirectRefresh
  <2>4. CASE DirectSave(p)
    BY <2>4 DEF DirectSave
  <2>12. CASE SaveAgain(p)
    BY <2>12 DEF SaveAgain
  <2>13. CASE Retry(p)
    BY <2>13 DEF Retry
  <2>5. CASE Fork(p)
    BY <2>5 DEF Fork
  <2>6. CASE Push(p)
    BY <2>6 DEF Push
  <2>7. CASE RefreshCred(p)
    BY <2>7 DEF RefreshCred, Cred
  <2>8. CASE Acquire(p)
    BY <2>8 DEF Acquire, Acquires
  <2>9. CASE Reload(p)
    BY <2>9 DEF Reload, Latest, Adopts, Returns, Release
  <2>10. CASE Refresh(p)
    BY <2>10 DEF Refresh, Rotates, Release
  <2>11. CASE Save(p)
    BY <2>11 DEF Save, Refreshed, Returns, Release
  <2> QED BY <1>5, <2>1, <2>2, <2>3, <2>4, <2>5, <2>6, <2>7, <2>8, <2>9, <2>10, <2>11, <2>12, <2>13
          DEF Step, LockedStep, RestoreStep
<1>6. ASSUME NEW p \in Process, Crash(p) PROVE LockInv'
  BY <1>6 DEF Crash, DropsLock
<1>7. CASE UNCHANGED vars
  BY <1>7 DEF vars
<1> QED BY <1>1, <1>2, <1>3, <1>4, <1>5, <1>6, <1>7 DEF Next

(* THEOREM: if every refresh takes the lock, crashes and failures do not   *)
(* make a process report a de-authed account that could still be used.     *)
THEOREM DeauthIsReal == SafetySpec => NoFalseDeauth
<1>1. Init => LockInv
  BY DEF Init, LockInv, Locked, Critical
<1>2. IInv /\ LockInv /\ [Next]_vars => LockInv'
  BY LockInvStep DEF IInv
<1>3. ASSUME IInv, LockInv, [Next]_vars, Coordinated PROVE Honest
  <2> SUFFICES ASSUME NEW p \in Process, outcome'[p] = "deauthed", outcome[p] # "deauthed"
               PROVE ~Recoverable
    BY DEF Honest
  <2> USE DEF IInv, TypeOK
  <2>l. \A q \in Process : Locked(q)
    BY <1>3 DEF LockInv
  <2>1. Refresh(p) /\ Rejects(cur[p])
    BY <1>3, <2>l DEF Next, GetsOld, Expires, Tick, Start, Step, LockedStep, RestoreStep, Passes,
         Unauthorized, DirectRefresh, DirectSave, SaveAgain, Retry, Fork, Push, RefreshCred, Acquire,
         Reload, Refresh, Save, Crash, Returns, Go, Finish, Same, Locked, Process, vars
  <2>2. pc[p] = "refresh" /\ cur[p] # live /\ cur[p] # 0
    BY <2>1 DEF Refresh, Rejects
  <2>3. stored[Home].tok # live
    BY <1>3, <2>l, <2>2 DEF Locked, KeptAtHome
  <2>4. \A q \in Process : ~Saving(q)
    BY <1>3, <2>l, <2>2 DEF Locked, Critical, Saving
  <2> QED BY <2>3, <2>4 DEF Recoverable
<1>4. IInv /\ LockInv /\ [Next]_vars => [Coordinated => Honest]_vars
  BY <1>3
<1> QED BY <1>1, <1>2, <1>4, InitIInv, IInvStep, PTL DEF SafetySpec, NoFalseDeauth

-----------------------------------------------------------------------------
(* A rotation is earned by an event. While every refresh of a bearer       *)
(* account takes the lock, whoever is on its way to a refresh with the     *)
(* credential the server accepts saw it due or expired: there have been as *)
(* many events as this credential's number. One that saw an older one      *)
(* finds another in the store when it reloads under the lock, or a         *)
(* credential the server rejects.                                          *)
Bearer == Coordinated /\ ~Cookie
Asked == {"cred", "lock", "reload", "refresh"}
Earned(p) ==
  /\ started[p] <= live
  /\ started[p] = live /\ (pc[p] \in Asked \/ (pc[p] = "check" /\ wasDue[p])) => live <= events
  /\ p \in App /\ pc[p] # "idle" /\ ~retried[p] => held[p] = started[p]
  /\ pc[p] = "refresh" => cur[p] = started[p]
EarnedInv ==
  Bearer =>
    /\ live <= events + 1
    /\ expired \/ (stored[Home].due /\ stored[Home].tok = live) => live <= events
    /\ \A p \in Process : Earned(p)

LEMMA EarnedStep ==
  ASSUME IInv, LockInv, EarnedInv, [Next]_vars PROVE EarnedInv'
<1>h. Home' = Home /\ \A p \in Process : RefreshStore(p)' = RefreshStore(p)
  BY HomeStays
<1>l. Locking' = Locking /\ Direct' = Direct /\ Cookie' = Cookie
  BY EnvStays DEF Locking, Direct, Cookie
<1> SUFFICES ASSUME Bearer PROVE EarnedInv'
  BY <1>l DEF EarnedInv, Bearer, Coordinated
<1>k. /\ ~Direct /\ ~Cookie /\ Home = "account" /\ \A p \in Process : RefreshStore(p) = Home
      /\ \A p \in Process : Locked(p)
  BY DEF Bearer, Coordinated, Home, RefreshStore, LockInv
<1>t. IInv'
  BY IInvStep
<1> USE HomeInStore, ProcessAssumption, BoundAssumption, <1>h, <1>k, <1>t
    DEF EarnedInv, Earned, Asked
<1> USE DEF IInv, TypeOK, NoneAhead, Go, Goto, Finish, Same, Bounds, Calls, Fault, local, server
<1>1. CASE GetsOld
  BY <1>1 DEF GetsOld
<1>2. CASE Expires
  BY <1>2 DEF Expires
<1>3. ASSUME NEW d \in Daemon, Tick(d) PROVE EarnedInv'
  BY <1>3 DEF Tick, Process
<1>4. ASSUME NEW a \in App, Start(a) PROVE EarnedInv'
  BY <1>4 DEF Start, Process
<1>5. ASSUME NEW p \in Process, Step(p) PROVE EarnedInv'
  <2>1. CASE Passes(p)
    BY <2>1 DEF Passes, AfterCheck
  <2>2. CASE Unauthorized(p)
    BY <2>2 DEF Unauthorized
  <2>3. CASE DirectRefresh(p) \/ DirectSave(p) \/ SaveAgain(p) \/ Retry(p)
    BY <2>3 DEF DirectRefresh, DirectSave, SaveAgain, Retry, Locked
  <2>5. CASE p \in App /\ Fork(p)
    BY <2>5 DEF Fork
  <2>6. CASE p \in App /\ Push(p)
    BY <2>6 DEF Push
  <2>7. CASE RefreshCred(p)
    BY <2>7 DEF RefreshCred, Cred
  <2>8. CASE Acquire(p)
    BY <2>8 DEF Acquire
  <2>9. CASE Reload(p)
    BY <2>9 DEF Reload, Latest, Adopts, Returns
  <2>10. CASE Refresh(p)
    BY <2>10 DEF Refresh, Rotates
  <2>11. CASE Save(p)
    BY <2>11 DEF Save, Refreshed, Returns
  <2> QED BY <1>5, <2>1, <2>2, <2>3, <2>5, <2>6, <2>7, <2>8, <2>9, <2>10, <2>11
          DEF Step, LockedStep, RestoreStep
<1>6. ASSUME NEW p \in Process, Crash(p) PROVE EarnedInv'
  BY <1>6 DEF Crash
<1>7. CASE UNCHANGED vars
  BY <1>7 DEF vars
<1> QED BY <1>1, <1>2, <1>3, <1>4, <1>5, <1>6, <1>7 DEF Next

(* THEOREM: however many programs start and daemons tick at once, and      *)
(* whatever fails, the credential of a bearer account whose refreshes all  *)
(* take the lock rotates once per event that makes it old or expires it.   *)
THEOREM RotationsEarned == SafetySpec => []OneRotationPerEvent
<1>1. Init => LockInv /\ EarnedInv
  BY HomeInStore DEF Init, LockInv, Locked, Critical, EarnedInv, Earned, Asked, Store
<1>2. IInv /\ LockInv /\ [Next]_vars => LockInv'
  BY LockInvStep DEF IInv
<1>3. IInv /\ LockInv /\ EarnedInv /\ [Next]_vars => EarnedInv'
  BY EarnedStep
<1>4. EarnedInv => OneRotationPerEvent
  BY DEF EarnedInv, Bearer, OneRotationPerEvent
<1> QED BY <1>1, <1>2, <1>3, <1>4, InitIInv, IInvStep, PTL DEF SafetySpec
=============================================================================
