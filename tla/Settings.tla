------------------------------ MODULE Settings ------------------------------
(* Which setting applies (config/config.go, cli_resolve.go, network.go,    *)
(* server/daemon_cli.go): flags, then the environment, then the project's  *)
(* file, then the user's.  Keys are grouped by how they are merged.        *)
EXTENDS Integers, Sequences, SequencesExt

CONSTANTS
  Scalars,    \* strings and numbers, unset when zero: port, output, author, ...
  Flags,      \* booleans whose presence in the file counts: no_open, quiet, ...
  Pointers,   \* values that may be null: lsp, lsp_worktree_max_mb
  Lists,      \* patterns of both files apply: ignore_patterns, ...
  Maps,       \* merged entry by entry: prompts, hooks
  Private     \* never taken from a project: host, agent_cmd, open_cmd, ...

Keys == Scalars \cup Flags \cup Pointers \cup Lists \cup Maps \cup Private

Unset == "unset"
Zero(k) == IF k \in Lists \cup Maps THEN <<>> ELSE Unset
Empty == [k \in Keys |-> Zero(k)]

(* A file is missing, garbled, or an object with some keys; those in bad   *)
(* have a value of the wrong type, which the decoder skips and reports; an *)
(* unknown view is dropped, if nothing else was wrong.                     *)
Known(k, value) == k # "default_markdown_view" \/ value \in {"diff", "document"}
LoadConfigFile(file) ==
  LET keys == IF file.kind = "json" THEN DOMAIN file.keys ELSE {}
      bad  == IF file.kind = "json" THEN file.bad ELSE {}
      good == {k \in keys \ bad : bad # {} \/ Known(k, file.keys[k])}
  IN [cfg      |-> [k \in Keys |-> IF k \in good THEN file.keys[k] ELSE Zero(k)],
      presence |-> keys \cap (Flags \cup Lists),
      failed   |-> file.kind = "garbled" \/ bad # {}]

(* Mutant: an explicit false of the project does not count.                *)
MergeTruths(global, project, presence) ==
  [k \in Keys |->
     CASE k \in Private -> global[k]
       [] k \in Lists   -> global[k] \o project[k]
       [] k \in Maps    -> project[k] @@ global[k]
       [] OTHER         -> IF project[k] \in {Unset, "off"} THEN global[k] ELSE project[k]]

MergeConfigs(global, project, presence) ==
  [k \in Keys |->
     CASE k \in Private -> global[k]
       [] k \in Lists   -> global[k] \o project[k]
       [] k \in Maps    -> project[k] @@ global[k]
       [] k \in Flags   -> IF k \in presence THEN project[k] ELSE global[k]
       [] OTHER         -> IF project[k] = Unset THEN global[k] ELSE project[k]]

(* The user's name, from the configured tool first; absent where unknown.  *)
AuthorTools(vcs) == CASE vcs = "sl" -> <<"sl", "git">>
                      [] vcs = "jj" -> <<"jj", "git">>
                      [] OTHER      -> <<"git", "sl">>

FallbackAuthor(vcs, names) ==
  LET known == SelectSeq(AuthorTools(vcs), LAMBDA tool : names[tool] # Unset)
  IN IF known = <<>> THEN Unset ELSE names[Head(known)]

(* In the home directory the project's file is the user's own, read once.  *)
LoadConfig(globalFile, projectFile, sameFile, names) ==
  LET global  == LoadConfigFile(globalFile)
      project == LoadConfigFile(IF sameFile THEN [kind |-> "missing"] ELSE projectFile)
      merged  == MergeConfigs(global.cfg, project.cfg, project.presence)
      told    == global.presence \cup project.presence
  IN [merged EXCEPT
        !["ignore_patterns"] = IF "ignore_patterns" \in told THEN @ ELSE <<".crit/">>,
        !["host"]   = IF @ = Unset THEN "127.0.0.1" ELSE @,
        !["author"] = IF @ = Unset THEN FallbackAuthor(merged["vcs"], names) ELSE @]

(* The entries by layer: a project's file that does not parse counts for   *)
(* nothing here, the user's for what could be read.                        *)
LayerMaps(globalFile, projectFile, sameFile, map) ==
  LET project == LoadConfigFile(projectFile)
  IN [global  |-> LoadConfigFile(globalFile).cfg[map],
      project |-> IF sameFile \/ project.failed THEN <<>> ELSE project.cfg[map]]

(* Flags that are on unless, or off unless, the user says otherwise.       *)
Enabled(value, default) == IF value = Unset THEN default ELSE value = "on"
AtLeastOneOr(days, default) == IF days = Unset \/ days < 1 THEN default ELSE days

(* env is absent as Unset; a port that is no number is passed over.        *)
ResolvePort(flag, env, cfg) ==
  IF flag # Unset THEN flag ELSE IF env \notin {Unset, "nonsense"} THEN env ELSE cfg

ResolveHost(flag, env, cfg) ==
  IF flag # Unset THEN flag ELSE IF env # Unset THEN env ELSE cfg

NeedsUnauthenticatedNetworkAck(host, publicUrl) ==
  publicUrl # Unset \/ (host # Unset /\ host \notin {"localhost", "127.0.0.1"})

(* The daemon's settings, or a refusal to be reachable from elsewhere      *)
(* without a word of the user's.                                           *)
ResolveDaemonCLIConfig(flags, env, cfg) ==
  LET host == ResolveHost(flags.host, env.host, cfg["host"])
      url  == ResolveHost(flags.publicUrl, env.publicUrl, cfg["public_url"])
      open == NeedsUnauthenticatedNetworkAck(host, url)
  IN IF open /\ ~flags.ack /\ ~env.ack THEN [refused |-> TRUE]
     ELSE [refused |-> FALSE, host |-> host, publicUrl |-> url,
           port   |-> ResolvePort(flags.port, env.port, cfg["port"]),
           quiet  |-> flags.quiet \/ cfg["quiet"] = "on",
           output |-> IF flags.output # Unset \/ flags.plan THEN flags.output ELSE cfg["output"],
           ignore |-> IF flags.noIgnore THEN <<>> ELSE cfg["ignore_patterns"]]
-----------------------------------------------------------------------------
(* What a project's file can do: nothing to the user's own settings, and   *)
(* no more than its keys say.  Where it says something it is obeyed, also  *)
(* when it turns off what the user turned on; what it does not mention, or *)
(* mentions with a wrong type, stays the user's, but for a flag, which     *)
(* even a wrong value resets to its default.  Nobody's patterns are lost,  *)
(* and one file read from two places counts once.                          *)
ProjectHasItsSay(globalFile, projectFile, names) ==
  LET both  == LoadConfig(globalFile, projectFile, FALSE, names)
      alone == LoadConfig(globalFile, [kind |-> "missing"], FALSE, names)
      says  == IF projectFile.kind = "json" THEN projectFile.keys ELSE <<>>
      good  == IF projectFile.kind = "json"
               THEN {k \in DOMAIN says \ projectFile.bad : Known(k, says[k])}
               ELSE {}
      user  == LoadConfigFile(globalFile).cfg
  IN /\ \A k \in Private : both[k] = alone[k]
     /\ \A k \in good \cap (Scalars \cup Pointers) : says[k] # Unset => both[k] = says[k]
     /\ \A k \in good \cap Flags : both[k] = says[k]
     /\ \A k \in (Scalars \cup Pointers) \ good : k # "author" => both[k] = alone[k]
     /\ \A k \in Flags \ DOMAIN says : both[k] = alone[k]
     /\ \A k \in Lists : /\ Range(user[k]) \subseteq Range(both[k])
                         /\ k \in good => Range(says[k]) \subseteq Range(both[k])
     /\ \A k \in Maps :
          /\ DOMAIN both[k] = DOMAIN user[k] \cup (IF k \in good THEN DOMAIN says[k] ELSE {})
          /\ \A e \in DOMAIN both[k] :
               both[k][e] = IF k \in good /\ e \in DOMAIN says[k] THEN says[k][e] ELSE user[k][e]
     /\ LoadConfig(globalFile, globalFile, TRUE, names) = alone

(* The daemon listens, or is announced, beyond this machine only with the  *)
(* user's word in a flag or the environment, whatever any file says, and a *)
(* project cannot bring it about.                                          *)
ReachableByConsent(flags, env, globalFile, projectFile, names) ==
  LET With(project) ==
        ResolveDaemonCLIConfig(flags, env, LoadConfig(globalFile, project, FALSE, names))
      sc == With(projectFile)
      alone == With([kind |-> "missing"])
  IN /\ sc.refused = alone.refused
     /\ ~sc.refused => /\ sc.host = alone.host /\ sc.publicUrl = alone.publicUrl
                       /\ \/ flags.ack \/ env.ack
                          \/ sc.host \in {"localhost", "127.0.0.1"} /\ sc.publicUrl = Unset
=============================================================================
