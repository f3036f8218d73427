---------------------------- MODULE MCConfigFile ----------------------------
EXTENDS ConfigFile

CONSTANTS p1, p2, s1, s2

Inputs ==
  [max_jobs |-> {0, 2}, account |-> {"", "work"}, app_version |-> {"", "9.9"},
   memory_cache_watermark |-> {<<8, 4>>, <<4, 8>>}, prefetch_blocks |-> {-1, 70},
   block_cache_mode |-> {"plain", "decrypted"}, event_poll_interval |-> {0, 60},
   memory_cache |-> {"disabled", "metadata"}, disk_cache |-> {"disabled", "objectstore"}]

(* A file somebody wrote by hand says what no `set` accepts.               *)
ByHand ==
  [kind |-> "text",
   value |-> (<<"core", "max_jobs">> :> 3) @@ (<<"drive", "app_version">> :> "1.0")
     @@ (<<"protonfs", "event_poll_interval">> :> 0)
     @@ (<<"protonfs", "block_cache_mode">> :> "plain"),
   shares |-> (s1 :> [memory_cache |-> "linkname", disk_cache |-> "objectstore"])]

JobFlags == {NoFlag, 2}
VersionFlags == {NoFlag, "9.9"}

FieldSets ==
  {{"max_jobs", "disk_cache"}, {"memory_cache", "disk_cache"},
   {"app_version", "memory_cache_watermark"}, {"account", "prefetch_blocks"},
   {"block_cache_mode", "event_poll_interval"}}
AllWorlds ==
  {[fields |-> f, file |-> d] : f \in FieldSets, d \in {Blank("none"), ByHand}}
    \cup {[fields |-> {"max_jobs"}, file |-> Blank("torn")]}
FewWorlds == {[fields |-> {"max_jobs"}, file |-> Blank("none")]}

(* `unset --all` is UnsetField of one selector after the other.            *)
Texts ==
  {[kind |-> "text", value |-> [sel \in d |-> 1], shares |-> s] :
     d \in SUBSET {<<"core", "max_jobs">>, <<"core", "account">>, <<"drive", "max_jobs">>},
     s \in UNION {[ids -> [memory_cache : {"disabled", "linkname"}, disk_cache : {"disabled", "objectstore"}]] :
                   ids \in SUBSET ShareId}}
SomePrefixes ==
  {<<>>, <<"core">>, <<"core", "max_jobs">>, <<"share">>, <<"share", s1>>, <<"share", s1, "disk_cache">>}
ASSUME UnsetAllAssumption ==
  \A text \in Texts, prefix \in SomePrefixes :
    LET c == Unmarshal(text)
    IN runUnsetAll(c, prefix) =
         FoldSet(LAMBDA sel, acc : UnsetField(acc, sel), c,
                 {sel \in DOMAIN List(c) : MatchPrefix(sel, prefix)})

Symmetry == Permutations({p1, p2})
==============================================================================
