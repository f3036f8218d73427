----------------------------- MODULE ConfigFile -----------------------------
(***************************************************************************)
(* The configuration file: `proton config set`, `unset` and `unset --all`, *)
(* which load it, change it and save it through a temporary file, and the  *)
(* programs that load it: `get`, `list`, `show`, the commands of a service *)
(* and the mount daemon.                                                   *)
(*                                                                         *)
(* A selector is a sequence of names: <<"core", field>>, <<service,        *)
(* field>>, <<"protonfs", field>> or <<"share", id, field>>; parsing and   *)
(* printing one is left out. A text is what the YAML of a file says: the   *)
(* values of the selectors it sets, and the entries of its shares. The     *)
(* kind of the others, which say nothing: no file ("none"), one that was   *)
(* truncated and not written ("empty"), one no YAML parser accepts         *)
(* ("torn").                                                               *)
(***************************************************************************)
EXTENDS Integers, FiniteSets, SequencesExt

CONSTANTS
  Proc,        \* programs that may run at a time
  Service,     \* services that have a namespace (api.Services)
  ShareId,     \* shares of the server
  Private,     \* of these, main and photos shares
  Input,       \* per field, the values a user may type
  Jobs,        \* values of -j, NoFlag included
  Version,     \* values of --app-version, NoFlag included
  Worlds,      \* how behaviours start: [fields, file]
  Workers,     \* api.DefaultMaxWorkers()
  NoFlag,      \* a command-line flag that is not given
  Overlap,     \* whether two commands that write may overlap
  MaxCommands, \* bound: programs that are run
  MaxFaults    \* bound: deaths, failed requests, failed writes

ASSUME ServiceAssumption == Service \cap {"core", "protonfs", "share"} = {}
ASSUME PrivateAssumption == Private \subseteq ShareId
ASSUME OverlapAssumption == Overlap \in BOOLEAN
ASSUME ConfigBoundAssumption == {MaxCommands, MaxFaults} \subseteq Nat
ASSUME ProcAssumption == IsFiniteSet(Proc)

VARIABLES
  fields,     \* the fields users of this behaviour touch
  inode,      \* content of the files on disk
  path, tmp,  \* the inodes config.yaml and config.yaml.tmp name, 0 for none
  accessible, \* server: the shares the account can reach
  doing, cmd, \* what each program does
  cfg,        \* the Config it has in memory
  fd,         \* the inode it writes
  dropped,    \* shares its cleanup removed from its Config
  wanted,     \* ghost: what the completed requests add up to
  commands, faults

disk == <<inode, path, tmp>>
own == <<cmd, cfg, fd, dropped>>
configVars == <<fields, disk, accessible, doing, own, wanted, commands, faults>>

Inode == 1..(Cardinality(Proc) + 2)

------------------------------------------------------------------------------
(* Fields and values.                                                      *)

coreFields == {"max_jobs", "account", "app_version"}
shareFields == {"memory_cache", "disk_cache"}
protonfsFields == {"prefetch_blocks", "block_cache_mode", "event_poll_interval"}

Param ==
  ({"core"} \cup Service) \X coreFields \cup {"protonfs"} \X protonfsFields
    \cup {<<"core", "memory_cache_watermark">>}
ShareParam == {"share"} \X ShareId \X shareFields
Typed == {sel \in Param \cup ShareParam : Last(sel) \in fields}

(* DefaultConfig                                                           *)
Default(f) ==
  CASE f = "max_jobs" -> Workers
    [] f = "account" -> "default"
    [] f = "app_version" -> ""
    [] f = "memory_cache_watermark" -> <<0, 0>>
    [] f = "prefetch_blocks" -> 1
    [] f = "block_cache_mode" -> "encrypted"
    [] f = "event_poll_interval" -> 5

(* parsePositiveInt and the other parsers `set` validates with             *)
Accepts(f, v) ==
  CASE f \in {"max_jobs", "event_poll_interval"} -> v > 0
    [] f \in {"account", "app_version"} -> v # ""
    [] f = "memory_cache_watermark" -> v[1] >= 0 /\ v[2] >= v[1]
    [] f = "prefetch_blocks" -> v >= 0
    [] f = "block_cache_mode" -> v \in {"encrypted", "decrypted"}
    [] f = "memory_cache" -> v \in {"disabled", "linkname", "metadata"}
    [] f = "disk_cache" -> v \in {"disabled", "objectstore"}

------------------------------------------------------------------------------
(* Config: value holds the Params whose source is not Unset, cli those     *)
(* whose source is CLI.                                                    *)

Nothing == <<>>
IsMap(f) == f = [x \in DOMAIN f |-> f[x]]
Override(f, x, v) == [k \in DOMAIN f \cup {x} |-> IF k = x THEN v ELSE f[k]]
Less(f, gone) == Restrict(f, DOMAIN f \ gone)

DefaultConfig == [value |-> Nothing, cli |-> {}, shares |-> Nothing]
Disabled == [memory_cache |-> "disabled", disk_cache |-> "disabled"]

IsSet(c, sel) == sel \in DOMAIN c.value
Value(c, sel) == IF IsSet(c, sel) THEN c.value[sel] ELSE Default(Last(sel))
SetFile(c, sel, v) ==
  [c EXCEPT !.value = Override(@, sel, v), !.cli = @ \ {sel}]
SetCLI(c, sel, v) ==
  [c EXCEPT !.value = Override(@, sel, v), !.cli = @ \cup {sel}]
Reset(c, sel) ==
  [c EXCEPT !.value = Less(@, {sel}), !.cli = @ \ {sel}]

Share(c, s) == IF s \in DOMAIN c.shares THEN c.shares[s] ELSE Disabled
Without(c, ids) == [c EXCEPT !.shares = Less(@, ids)]
PutShare(c, s, entry) == [c EXCEPT !.shares = Override(@, s, entry)]

(* MarshalYAML keeps what came from the file or was set for it.            *)
Blank(kind) == [kind |-> kind, value |-> Nothing, shares |-> Nothing]
Marshal(c) == [kind |-> "text", value |-> Less(c.value, c.cli), shares |-> c.shares]
Unmarshal(doc) == [value |-> doc.value, cli |-> {}, shares |-> doc.shares]

(* The selectors a document sets and to what: a share's field that is      *)
(* disabled is as good as absent.                                          *)
Enabled(c) ==
  {sel \in {"share"} \X (DOMAIN c.shares) \X shareFields : c.shares[sel[2]][sel[3]] # "disabled"}
Settings(c) ==
  [sel \in DOMAIN c.value \cup Enabled(c) |->
     IF sel[1] = "share" THEN c.shares[sel[2]][sel[3]] ELSE c.value[sel]]

(* GetField: a service's own value, else the core one, else the default.   *)
getShareField(c, sel) == Share(c, sel[2])[sel[3]]
getSubsystemField(c, sel) ==
  Value(c, IF IsSet(c, sel) THEN sel ELSE <<"core", Last(sel)>>)
GetField(c, sel) ==
  CASE sel[1] = "share" -> getShareField(c, sel)
    [] sel[1] \in Service -> getSubsystemField(c, sel)
    [] OTHER -> Value(c, sel)

setOnlyShareField(c, sel, v) == PutShare(c, sel[2], [Disabled EXCEPT ![sel[3]] = v])
setShareField(c, sel, v) ==
  PutShare(c, sel[2], [Share(c, sel[2]) EXCEPT ![sel[3]] = v])
Set(c, sel, v) ==
  IF sel[1] = "share" THEN setShareField(c, sel, v) ELSE SetFile(c, sel, v)

unsetShareField(c, sel) ==
  LET entry == [Share(c, sel[2]) EXCEPT ![sel[3]] = "disabled"]
  IN IF entry = Disabled THEN Without(c, {sel[2]}) ELSE PutShare(c, sel[2], entry)
UnsetField(c, sel) ==
  IF sel[1] = "share" THEN unsetShareField(c, sel) ELSE Reset(c, sel)

(* List: what the file sets; Show: every core and protonfs field, what     *)
(* services set, and both fields of every share with an entry.             *)
List(c) == Settings(Marshal(c))
Show(c) ==
  [sel \in {s \in Param : s[1] \in Service => IsSet(c, s)}
      \cup {s \in ShareParam : s[2] \in DOMAIN c.shares} |-> GetField(c, sel)]

(* MatchPrefix: whole segments; "share" alone ends before a '[' and        *)
(* matches no share's selector.                                            *)
MatchPrefix(sel, prefix) == prefix # <<"share">> /\ IsPrefix(prefix, sel)
GivenPrefix ==
  {<<>>} \cup Typed \cup {Front(sel) : sel \in Typed} \cup {<<sel[1]>> : sel \in Typed}

(* UnsetField of every selector that List names and the prefix matches.    *)
runUnsetAll(c, prefix) ==
  LET named == {sel \in DOMAIN List(c) : MatchPrefix(sel, prefix)}
      left(s) == [f \in shareFields |->
                    IF <<"share", s, f>> \in named THEN "disabled" ELSE c.shares[s][f]]
      gone == {s \in DOMAIN c.shares :
                 left(s) = Disabled /\ \E f \in shareFields : <<"share", s, f>> \in named}
  IN [value |-> Less(c.value, named), cli |-> c.cli \ named,
      shares |-> [s \in DOMAIN c.shares \ gone |-> left(s)]]

------------------------------------------------------------------------------
(* What programs make of the file.                                         *)

Content == IF path = 0 THEN Blank("none") ELSE inode[path]
Readable == Content.kind # "torn"
(* No file, or an empty one, says what DefaultConfig does.                 *)
LoadConfig == Unmarshal(Content)

(* PersistentPreRunE: a file that does not parse is as good as none; -j.   *)
Runtime(flag) ==
  LET c == IF Readable THEN LoadConfig ELSE DefaultConfig
  IN IF flag = NoFlag THEN c ELSE SetCLI(c, <<"core", "max_jobs">>, flag)

resolveMaxJobs(c, svc, flag) ==
  IF flag # NoFlag THEN flag ELSE GetField(c, <<svc, "max_jobs">>)
resolveVersionRC(c, svc, flag) ==
  IF flag # NoFlag THEN flag ELSE GetField(c, <<svc, "app_version">>)
applyAnyShareConfig(c) == [s \in ShareId |-> Share(c, s).disk_cache]
applyShareConfig(c) ==
  [s \in ShareId |-> IF s \in Private THEN "disabled" ELSE Share(c, s).disk_cache]
BuildSessionConfig(c, maxJobs) ==
  [max_jobs |-> maxJobs, watermark |-> Value(c, <<"core", "memory_cache_watermark">>),
   disk_cache |-> applyShareConfig(c)]

(* A command of a service, with -j and --app-version or without.           *)
SetupSession(c, svc, jobs, version) ==
  [session |-> BuildSessionConfig(c, resolveMaxJobs(c, svc, jobs)),
   app_version |-> resolveVersionRC(c, svc, version)]

(* The daemon asks for a file that parses and a mode it knows. It has the  *)
(* account of the "protonfs" namespace, which `set` does not know.         *)
DefaultAccount(c) == Value(c, <<"core", "account">>)
normalizeEventInterval(n) == IF n > 0 THEN n ELSE Default("event_poll_interval")
Clamp(n) == IF n < 0 THEN 0 ELSE IF n > 64 THEN 64 ELSE n
DaemonStarts(c) ==
  Value(c, <<"protonfs", "block_cache_mode">>) \in {"encrypted", "decrypted"}
DaemonConfig(c) ==
  [session |-> BuildSessionConfig(c, Value(c, <<"core", "max_jobs">>)),
   account |-> DefaultAccount(c),
   mode |-> Value(c, <<"protonfs", "block_cache_mode">>),
   prefetch |-> Clamp(Value(c, <<"protonfs", "prefetch_blocks">>)),
   interval |-> normalizeEventInterval(Value(c, <<"protonfs", "event_poll_interval">>))]

------------------------------------------------------------------------------
IsText(c) ==
  /\ IsMap(c.value) /\ DOMAIN c.value \subseteq Param
  /\ IsMap(c.shares) /\ DOMAIN c.shares \subseteq ShareId
  /\ \A s \in DOMAIN c.shares : IsMap(c.shares[s]) /\ DOMAIN c.shares[s] = shareFields
IsFile(d) ==
  /\ d = [kind |-> d.kind, value |-> d.value, shares |-> d.shares]
  /\ d.kind \in {"none", "empty", "torn", "text"}
  /\ IF d.kind = "text" THEN IsText(d) ELSE d = Blank(d.kind)
IsConfig(c) ==
  c = [value |-> c.value, cli |-> c.cli, shares |-> c.shares] /\ c.cli = {} /\ IsText(c)

ASSUME WorldAssumption == \A w \in Worlds : IsFile(w.file)

ConfigTypeOK ==
  /\ DOMAIN inode = Inode /\ \A i \in Inode : IsFile(inode[i])
  /\ path \in {0} \cup Inode /\ tmp \in {0} \cup Inode
  /\ accessible \subseteq ShareId
  /\ doing \in [Proc -> {"idle", "resolve", "cleanup", "open", "write", "rename",
                      "remove"}]
  /\ DOMAIN cmd = Proc
  /\ DOMAIN cfg = Proc /\ \A p \in Proc : IsConfig(cfg[p])
  /\ fd \in [Proc -> {0} \cup Inode]
  /\ dropped \in [Proc -> SUBSET ShareId]
  /\ IsMap(wanted) /\ DOMAIN wanted \subseteq Param \cup ShareParam
  /\ commands \in 0..MaxCommands /\ faults \in 0..MaxFaults

NoCommand == [op |-> "none"]
ConfigInit ==
  /\ \E w \in Worlds :
       /\ fields = w.fields
       /\ inode = [i \in Inode |-> IF i = 1 THEN w.file ELSE Blank("empty")]
       /\ path = IF w.file.kind = "none" THEN 0 ELSE 1
       /\ wanted = Settings(w.file)
  /\ tmp = 0
  /\ accessible = ShareId
  /\ doing = [p \in Proc |-> "idle"]
  /\ cmd = [p \in Proc |-> NoCommand]
  /\ cfg = [p \in Proc |-> DefaultConfig]
  /\ fd = [p \in Proc |-> 0]
  /\ dropped = [p \in Proc |-> {}]
  /\ commands = 0 /\ faults = 0

Fault == faults < MaxFaults /\ faults' = faults + 1
MoveTo(p, l) == doing' = [doing EXCEPT ![p] = l]

(* A program's memory goes with it.                                        *)
Exit(p) ==
  /\ MoveTo(p, "idle")
  /\ cmd' = [cmd EXCEPT ![p] = NoCommand]
  /\ cfg' = [cfg EXCEPT ![p] = DefaultConfig]
  /\ fd' = [fd EXCEPT ![p] = 0]
  /\ dropped' = [dropped EXCEPT ![p] = {}]

Edit(p, c, l) ==
  /\ cfg' = [cfg EXCEPT ![p] = c]
  /\ MoveTo(p, l)
  /\ UNCHANGED <<cmd, fd, dropped>>

(* A user starts a program; one that writes only after the one before it   *)
(* ended, unless Overlap.                                                  *)
Begin(p, c, l, config) ==
  /\ doing[p] = "idle" /\ commands < MaxCommands
  /\ Overlap \/ \A q \in Proc : doing[q] = "idle"
  /\ commands' = commands + 1
  /\ cmd' = [cmd EXCEPT ![p] = c]
  /\ cfg' = [cfg EXCEPT ![p] = config]
  /\ MoveTo(p, l)
  /\ UNCHANGED <<fields, disk, accessible, fd, dropped, wanted, faults>>

BeginSet(p) ==
  \E sel \in Typed, named \in BOOLEAN : \E v \in Input[Last(sel)] :
    /\ named => sel[1] = "share"
    /\ Begin(p, [op |-> "set", sel |-> sel, value |-> v, named |-> named],
             "resolve", DefaultConfig)

(* unset loads the file before it resolves a share's name.                 *)
BeginUnset(p) ==
  \E sel \in Typed, named \in BOOLEAN :
    /\ named => sel[1] = "share"
    /\ Readable
    /\ Begin(p, [op |-> "unset", sel |-> sel, named |-> named],
             "resolve", LoadConfig)

BeginUnsetAll(p) ==
  \E prefix \in GivenPrefix :
    /\ Readable
    /\ Begin(p, [op |-> "all", prefix |-> prefix], "open",
             runUnsetAll(LoadConfig, prefix))

(* resolveShareSelector: a name costs a request and must be a share's.     *)
Resolves(p) ==
  doing[p] = "resolve" /\ (cmd[p].named => cmd[p].sel[2] \in accessible)
ResolveFails(p) ==
  /\ doing[p] = "resolve" /\ cmd[p].named
  /\ IF cmd[p].sel[2] \in accessible THEN Fault ELSE UNCHANGED faults
  /\ Exit(p)
  /\ UNCHANGED <<fields, disk, accessible, wanted, commands>>

(* runSet: the file is loaded after that; a value that does not parse ends *)
(* the command.                                                            *)
LoadAndSet(p) ==
  /\ Resolves(p) /\ cmd[p].op = "set"
  /\ LET sel == cmd[p].sel
     IN IF Readable /\ Accepts(Last(sel), cmd[p].value)
        THEN Edit(p, Set(LoadConfig, sel, cmd[p].value),
                  IF sel[1] = "share" THEN "cleanup" ELSE "open")
        ELSE Exit(p)
  /\ UNCHANGED <<fields, disk, accessible, wanted, commands, faults>>

Unset(p) ==
  /\ Resolves(p) /\ cmd[p].op = "unset"
  /\ Edit(p, UnsetField(cfg[p], cmd[p].sel), "open")
  /\ UNCHANGED <<fields, disk, accessible, wanted, commands, faults>>

(* ListShares leaves out, without an error, shares whose GetShare failed.  *)
ListShares(failed) == accessible \ failed

(* cleanupStaleShares: entries of shares that are not in the list go.      *)
CleanUp(p) ==
  /\ doing[p] = "cleanup"
  /\ \E failed \in SUBSET accessible :
       LET gone == DOMAIN cfg[p].shares \ ListShares(failed)
       IN /\ IF failed = {} THEN UNCHANGED faults ELSE Fault
          /\ cfg' = [cfg EXCEPT ![p] = Without(@, gone)]
          /\ dropped' = [dropped EXCEPT ![p] = gone]
  /\ MoveTo(p, "open")
  /\ UNCHANGED <<fields, disk, accessible, cmd, fd, wanted, commands>>

(* Without a session, or a list, it is skipped.                            *)
SkipCleanUp(p) ==
  /\ doing[p] = "cleanup" /\ Fault
  /\ MoveTo(p, "open")
  /\ UNCHANGED <<fields, disk, accessible, own, wanted, commands>>

------------------------------------------------------------------------------
(* SaveConfig: os.WriteFile truncates or creates the file of the fixed     *)
(* temporary name and writes it; a rename follows.                         *)

Open == {fd[q] : q \in Proc}
OpenTmp(p) ==
  /\ doing[p] = "open"
  /\ LET free == Inode \ ({path, tmp} \cup Open)
         i == IF tmp # 0 THEN tmp ELSE CHOOSE n \in free : \A m \in free : n <= m
     IN /\ tmp' = i
        /\ inode' = [inode EXCEPT ![i] = Blank("empty")]
        /\ fd' = [fd EXCEPT ![p] = i]
  /\ MoveTo(p, "write")
  /\ UNCHANGED <<fields, path, accessible, cmd, cfg, dropped, wanted, commands, faults>>

(* Over a file another program wrote meanwhile, a shorter text leaves that *)
(* one's tail behind it.                                                   *)
WriteTmp(p) ==
  /\ doing[p] = "write"
  /\ \E text \in {Marshal(cfg[p])} \cup (IF inode[fd[p]].kind = "empty" THEN {} ELSE {Blank("torn")}) :
       inode' = [inode EXCEPT ![fd[p]] = text]
  /\ fd' = [fd EXCEPT ![p] = 0]
  /\ MoveTo(p, "rename")
  /\ UNCHANGED <<fields, path, tmp, accessible, cmd, cfg, dropped, wanted, commands, faults>>

(* What a request that was carried out does to the settings.               *)
After(w, c, gone) ==
  LET left == Less(w, {sel \in DOMAIN w : sel[1] = "share" /\ sel[2] \in gone})
      named == IF c.op = "all" THEN {sel \in DOMAIN left : MatchPrefix(sel, c.prefix)}
               ELSE {c.sel}
      kept == Less(left, named)
      share == c.op = "set" /\ c.sel[1] = "share"
  IN IF c.op # "set" \/ (share /\ (c.sel[2] \in gone \/ c.value = "disabled")) THEN kept
     ELSE Override(kept, c.sel, c.value)

Rename(p) ==
  /\ doing[p] = "rename" /\ tmp # 0
  /\ path' = tmp /\ tmp' = 0
  /\ inode' = [i \in Inode |-> IF i = path /\ i \notin Open THEN Blank("empty") ELSE inode[i]]
  /\ wanted' = After(wanted, cmd[p], dropped[p])
  /\ Exit(p)
  /\ UNCHANGED <<fields, accessible, commands, faults>>

(* The name is gone, another program renamed it: the error path removes    *)
(* whatever has the name by then.                                          *)
RenameFails(p) ==
  /\ doing[p] = "rename"
  /\ IF tmp = 0 THEN UNCHANGED faults ELSE Fault
  /\ MoveTo(p, "remove")
  /\ UNCHANGED <<fields, disk, accessible, own, wanted, commands>>
RemoveTmp(p) ==
  /\ doing[p] = "remove"
  /\ tmp' = 0
  /\ Exit(p)
  /\ UNCHANGED <<fields, inode, path, accessible, wanted, commands, faults>>

(* No directory or no space; or the program dies, anywhere.                *)
SaveFails(p) ==
  /\ doing[p] \in {"open", "write"} /\ Fault
  /\ Exit(p)
  /\ UNCHANGED <<fields, disk, accessible, wanted, commands>>
Dies(p) ==
  /\ doing[p] # "idle" /\ Fault
  /\ Exit(p)
  /\ UNCHANGED <<fields, disk, accessible, wanted, commands>>

------------------------------------------------------------------------------
(* The owner of a share takes it back.                                     *)
ShareGoes(s) ==
  /\ s \in accessible
  /\ accessible' = accessible \ {s}
  /\ UNCHANGED <<fields, disk, doing, own, wanted, commands, faults>>

ConfigNext ==
  \/ \E p \in Proc :
       \/ BeginSet(p) \/ BeginUnset(p) \/ BeginUnsetAll(p)
       \/ ResolveFails(p) \/ LoadAndSet(p) \/ Unset(p)
       \/ CleanUp(p) \/ SkipCleanUp(p)
       \/ OpenTmp(p) \/ WriteTmp(p) \/ Rename(p) \/ RenameFails(p) \/ RemoveTmp(p)
       \/ SaveFails(p) \/ Dies(p)
  \/ \E s \in ShareId : ShareGoes(s)

ConfigSpec == ConfigInit /\ [][ConfigNext]_configVars

------------------------------------------------------------------------------
(* Properties.                                                             *)

(* What programs load from the file is what the completed requests add up  *)
(* to, whatever died half way: nothing half written, no value beside the   *)
(* one a command names, none that came from a flag.                        *)
FileIsWhatWasAsked ==
  Settings(Content) = wanted

FirstOf(sels, dflt) ==
  LET set == {i \in DOMAIN sels : sels[i] \in DOMAIN wanted}
  IN IF set = {} THEN dflt
     ELSE wanted[sels[CHOOSE i \in set : \A j \in set : i <= j]]

(* A program that only reads does so in one step and changes nothing, so   *)
(* what one that starts now would see is said of every state. `list`,      *)
(* `show` and `get` tell what the requests add up to. A command obeys      *)
(* "(highest to lowest)" its flag, its service's value, the core one, the  *)
(* default (docs/config.md:36). And no program caches a share's objects on *)
(* disk unless the last request about that share was for it, nor ever      *)
(* those of a private share.                                               *)
ReadersTell ==
  LET c == Runtime(NoFlag)
  IN /\ List(c) = wanted
     /\ \A sel \in DOMAIN wanted : sel \in DOMAIN Show(c) /\ Show(c)[sel] = wanted[sel]
     /\ \A sel \in Typed : sel[1] \in Service =>
          GetField(c, sel) = FirstOf(<<sel, <<"core", sel[2]>>>>, Default(sel[2]))
Obeys(used, svc, jobs, version) ==
  /\ used.session.max_jobs =
       IF jobs # NoFlag THEN jobs
       ELSE FirstOf(<<<<svc, "max_jobs">>, <<"core", "max_jobs">>>>, Workers)
  /\ used.app_version =
       IF version # NoFlag THEN version
       ELSE FirstOf(<<<<svc, "app_version">>, <<"core", "app_version">>>>,
                    Default("app_version"))
CommandsObey ==
  \A svc \in Service, jobs \in Jobs, version \in Version :
    Obeys(SetupSession(Runtime(jobs), svc, jobs, version), svc, jobs, version)
CachedOnRequest(used) ==
  \A s \in ShareId : used.session.disk_cache[s] = "objectstore" =>
    /\ s \notin Private
    /\ FirstOf(<<<<"share", s, "disk_cache">>>>, "disabled") = "objectstore"
ProgramsObey ==
  /\ ReadersTell
  /\ CommandsObey
  /\ \A svc \in Service : CachedOnRequest(SetupSession(Runtime(NoFlag), svc, NoFlag, NoFlag))
  /\ Readable /\ DaemonStarts(LoadConfig) => CachedOnRequest(DaemonConfig(LoadConfig))

(* "uses atomic write (temp file + rename) to prevent corruption"          *)
(* (config.go:264): no program finds a file that was truncated, or mixed.  *)
NeverCorrupt == Content.kind \notin {"empty", "torn"}
==============================================================================
