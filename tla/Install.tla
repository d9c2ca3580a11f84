------------------------------- MODULE Install ------------------------------
(* crit install and crit check (cmd/crit/cli_install.go, integrations.go,  *)
(* opencode_install.go, aider_install.go): files that come with crit are   *)
(* put among those of an agent, and entries into its settings, in a place  *)
(* where the user works too.  Each agent's place is modelled for itself.   *)
EXTENDS Integers, Sequences, SequencesExt

CONSTANT MaxActs    \* bound on installs, edits and releases

VARIABLES agent, disk, last, acts
vars == <<agent, disk, last, acts>>

Agents == {"windsurf", "opencode", "codex-plugin", "gemini", "aider"}
(* What a file holds: this release's text, an earlier one's, the user's.   *)
Content == {"none", "stock", "past", "mine"}
Files(d) == DOMAIN d \cap {"file", "legacy", "command", "v1", "v2", "skill", "plugin"}
-----------------------------------------------------------------------------
Done(d) == [ok |-> TRUE, disk |-> d]
Failed(d) == [ok |-> FALSE, disk |-> d]

(* Mutant: files that are there are written over.                          *)
OneFileForced(content, force) == "stock"
InstallOneFile(content, force) == IF content = "none" \/ force THEN "stock" ELSE content

(* A file of an earlier crit that the agent would load by itself goes,     *)
(* unless the user has changed it; "past" is the only text it was shipped  *)
(* with.                                                                   *)
CleanupLegacyFile(content) == IF content = "past" THEN "none" ELSE content

InstallPlain(d, force) ==
  Done([d EXCEPT !.file = InstallOneFile(@, force), !.legacy = CleanupLegacyFile(@)])
CheckPlain(d) == {"file"} \cap {p \in {"file"} : d[p] \notin {"none", "stock"}}
-----------------------------------------------------------------------------
(* OpenCode loads whatever is in its folder: only the files of the major   *)
(* version that is installed may be there.  Version 1 also needs an entry  *)
(* in its settings, version 2 a package.                                   *)
PluginFile(major) == IF major = 1 THEN "v1" ELSE "v2"
Other(major) == PluginFile(3 - major)
IsUnmodifiedPlugin(file, content) == content = "stock" \/ (content = "past" /\ file = "v1")

(* The settings are rewritten only if they hold nothing but the list.      *)
Rewritable(conf) == conf.kind \in {"missing", "plain"}
InstallPluginEntry(conf, force) ==
  IF ~Rewritable(conf) \/ "crit" \in Range(conf.plugins) THEN conf
  ELSE [kind |-> "plain", plugins |-> Append(conf.plugins, "crit")]
RemovePluginEntry(conf) ==
  IF conf.kind # "plain" THEN conf
  ELSE [conf EXCEPT !.plugins = SelectSeq(@, LAMBDA e : e # "crit")]

(* Writes the version into package.json and has it installed, which may    *)
(* fail after the file was written; "odd" is JSON of another shape.        *)
InstallPluginDependency(d, force, npm) ==
  LET wanted == [d EXCEPT !.package = d.version]
      Fetch(e) == IF npm THEN Done([e EXCEPT !.modules = d.version]) ELSE Failed(e)
  IN IF d.package = "odd" THEN Failed(d)
     ELSE IF d.package = d.version
       THEN IF d.modules = d.version THEN Done(d) ELSE Fetch(d)
     ELSE IF d.package # "none" /\ ~force THEN Failed(d)
     ELSE Fetch(wanted)

Major(d) == IF d.version = "1" THEN 1 ELSE 2
(* Mutant: the other major version's files stay.                           *)
OpencodeKeepsOther(d, force, npm) ==
  LET dep == IF Major(d) = 2 THEN InstallPluginDependency(d, force, npm) ELSE Done(d)
      put == [dep.disk EXCEPT
                !.command = InstallOneFile(@, force),
                ![PluginFile(Major(d))] = InstallOneFile(@, force),
                !.legacy = CleanupLegacyFile(@),
                !.conf = IF Major(d) = 1 THEN InstallPluginEntry(@, force)
                         ELSE RemovePluginEntry(@)]
  IN IF ~dep.ok THEN dep ELSE Done(put)
InstallOpencode(d, force, npm) ==
  LET stale == d[Other(Major(d))]
      dep   == IF Major(d) = 2 THEN InstallPluginDependency(d, force, npm) ELSE Done(d)
      put   == [dep.disk EXCEPT
                  ![Other(Major(d))] = "none",
                  !.command = InstallOneFile(@, force),
                  ![PluginFile(Major(d))] = InstallOneFile(@, force),
                  !.legacy = CleanupLegacyFile(@),
                  !.conf = IF Major(d) = 1 THEN InstallPluginEntry(@, force)
                           ELSE RemovePluginEntry(@)]
  IN IF stale # "none" /\ ~force /\ ~IsUnmodifiedPlugin(Other(Major(d)), stale) THEN Failed(d)
     ELSE IF ~dep.ok THEN dep ELSE Done(put)

CheckOpencode(d) ==
  {p \in {"command", PluginFile(Major(d))} : d[p] \notin {"none", "stock"}}
  \cup IF Major(d) = 2 /\ d.v2 # "none" /\ ~(d.package = d.version /\ d.modules = d.version)
       THEN {"package"} ELSE {}
-----------------------------------------------------------------------------
(* Codex: skills, a plugin with an entry in a marketplace, a copy in a     *)
(* cache, and switches in config.toml.  A line of that file is a table, a  *)
(* key with its value, blank, or something else; arrays of tables are      *)
(* tables of another name.                                                 *)
Tables(lines) == {i \in DOMAIN lines : lines[i].kind = "table"}
SectionEnd(lines, i) ==
  LET later == {j \in Tables(lines) : j > i} IN
  IF later = {} THEN Len(lines) ELSE Min(later) - 1
Named(lines, table) == {i \in Tables(lines) : lines[i].name = table}
KeyLines(lines, table, key) ==
  LET i == Min(Named(lines, table)) IN
  {j \in (i + 1)..SectionEnd(lines, i) : lines[j].kind = "key" /\ lines[j].name = key}

Key(key) == [kind |-> "key", name |-> key, on |-> TRUE]
Table(name) == [kind |-> "table", name |-> name]
Blank == [kind |-> "blank"]

UpsertTomlBool(lines, table, key) ==
  IF Named(lines, table) = {}
  THEN IF \A i \in DOMAIN lines : lines[i] = Blank THEN <<Table(table), Key(key)>>
       ELSE lines \o <<Blank, Table(table), Key(key)>>
  ELSE IF KeyLines(lines, table, key) # {}
  THEN [lines EXCEPT ![Min(KeyLines(lines, table, key))] = Key(key)]
  ELSE LET i == Min(Named(lines, table))
           full == {j \in i..SectionEnd(lines, i) : lines[j] # Blank}
       IN InsertAt(lines, Max(full) + 1, Key(key))

TomlBoolEnabled(lines, table, key) ==
  /\ Named(lines, table) # {}
  /\ KeyLines(lines, table, key) # {}
  /\ lines[Min(KeyLines(lines, table, key))].on

(* The marketplace: its name, which may be unfit for a folder, and its     *)
(* plugins; "crit" is the wanted entry, "old" an entry for crit with other *)
(* fields, "moved" one that points elsewhere.                              *)
OfCrit == {"crit", "old", "moved"}
InstallMarketplace(m, force) ==
  LET start == IF m.kind = "plain" THEN m ELSE [kind |-> "plain", name |-> "", plugins |-> <<>>]
      name  == IF start.name \in {"", "unfit"} THEN "local" ELSE start.name
      Place(out, e) ==
        IF e \notin OfCrit THEN Append(out, e)
        ELSE IF Range(out) \cap OfCrit # {} THEN out ELSE Append(out, "crit")
      placed == FoldLeft(Place, <<>>, start.plugins)
  IN IF ~force /\ (m.kind = "broken" \/ start.name = "unfit") THEN Failed(m)
     ELSE Done([kind |-> "plain", name |-> name,
                plugins |-> IF "crit" \in Range(placed) THEN placed ELSE Append(placed, "crit")])

ReadMarketplaceName(m) ==
  IF m.kind = "plain" /\ Range(m.plugins) \cap {"crit", "old"} # {} /\ m.name # "unfit"
  THEN IF m.name = "" THEN "local" ELSE m.name
  ELSE "none"

InstallCodexPlugin(d, force) ==
  LET market == InstallMarketplace(d.market, force)
  IN IF ~market.ok THEN Failed(d)
     ELSE Done([d EXCEPT
            !.market = market.disk,
            !.skill  = InstallOneFile(@, force),
            !.plugin = InstallOneFile(@, TRUE),
            !.legacy = CleanupLegacyFile(@),
            !.cache  = [@ EXCEPT ![market.disk.name] = "stock"],
            !.toml   = UpsertTomlBool(UpsertTomlBool(@, "features", "plugins"),
                                      market.disk.name, "enabled")])

CheckCodexPlugin(d) ==
  LET name == ReadMarketplaceName(d.market)
      used == IF name = "none" THEN "local" ELSE name
  IN {p \in {"skill", "plugin"} : d[p] \notin {"none", "stock"}}
     \cup {c \in {"cache"} : d.cache[used] \notin {"none", "stock"}}
     \cup IF d.plugin = "none" THEN {}
          ELSE {c \in {"market"} : name = "none"}
               \cup {c \in {"toml"} : ~(/\ TomlBoolEnabled(d.toml, "features", "plugins")
                                        /\ TomlBoolEnabled(d.toml, used, "enabled"))}
               \cup {c \in {"cache"} : d.cache[used] = "none"}
-----------------------------------------------------------------------------
(* Gemini: a hook for leaving plan mode.  "custom" is the user's hook for  *)
(* it, "odd" settings whose hooks are no list, which are written over.     *)
ForPlans == {"crit", "custom"}
InstallGemini(d, force) ==
  LET put   == [d EXCEPT !.file = InstallOneFile(@, force)]
      hooks == IF d.settings.kind = "plain" THEN d.settings.hooks ELSE <<>>
      others == SelectSeq(hooks, LAMBDA h : h \notin ForPlans)
  IN IF d.settings.kind = "broken" THEN Failed(put)
     ELSE IF Range(hooks) \cap ForPlans # {} /\ ~force THEN Done(put)
     ELSE Done([put EXCEPT !.settings = [kind |-> "plain", hooks |-> Append(others, "crit")]])
CheckGemini(d) == {p \in {"file"} : d[p] \notin {"none", "stock"}}

(* Aider: the conventions are among the files it reads.                    *)
InstallAider(d, force) ==
  LET put == [d EXCEPT !.file = InstallOneFile(@, force)]
  IN IF d.conf.kind \in {"broken", "several", "odd"} THEN Failed(put)
     ELSE IF "crit" \in Range(d.conf.read) THEN Done(put)
     ELSE Done([put EXCEPT !.conf = [kind |-> "plain", read |-> Append(d.conf.read, "crit")]])
-----------------------------------------------------------------------------
InstallOutcome(a, d, force, npm) ==
  CASE a = "windsurf"     -> InstallPlain(d, force)
    [] a = "opencode"     -> InstallOpencode(d, force, npm)
    [] a = "codex-plugin" -> InstallCodexPlugin(d, force)
    [] a = "gemini"       -> InstallGemini(d, force)
    [] a = "aider"        -> InstallAider(d, force)
Check(a, d) ==
  CASE a = "windsurf"     -> CheckPlain(d)
    [] a = "opencode"     -> CheckOpencode(d)
    [] a = "codex-plugin" -> CheckCodexPlugin(d)
    [] a = "gemini"       -> CheckGemini(d)
    [] a = "aider"        -> {}

(* What the user may make of a place; the rest comes from installs.        *)
Configs == [kind : {"plain", "comments", "extra", "broken", "odd"}, plugins : {<<>>}]
           \cup {[kind |-> "plain", plugins |-> p] : p \in {<<"x">>, <<"crit", "x">>, <<"crit">>}}
           \cup {[kind |-> k, plugins |-> <<"crit">>] : k \in {"extra", "comments"}}
           \cup {[kind |-> "missing", plugins |-> <<>>]}
Markets == {[kind |-> k, name |-> "", plugins |-> <<>>] : k \in {"missing", "broken"}}
           \cup [kind : {"plain"}, name : {"", "team", "unfit"},
                 plugins : {<<>>, <<"x">>, <<"old", "x", "crit">>, <<"x", "moved">>}]
Tomls == {<<>>, <<Blank>>, <<[kind |-> "other"], Table("team"), Blank>>,
          <<Table("features"), [Key("plugins") EXCEPT !.on = FALSE], Blank, Table("x"), Key("plugins")>>,
          <<Table("x"), Key("enabled"), Table("features"), Key("y"), Blank>>}
Place(a) ==
  CASE a = "windsurf" -> [file : Content, legacy : {"none", "past", "mine"}]
    [] a = "opencode" ->
         [command : {"none", "mine"}, v1 : Content, v2 : Content, legacy : {"none", "past"},
          version : {"1", "2.0", "2.1"}, package : {"none", "2.0", "odd"},
          modules : {"none", "2.0"}, conf : Configs]
    [] a = "codex-plugin" ->
         [skill : {"none", "mine"}, plugin : {"none", "mine"}, legacy : {"none"},
          market : Markets, cache : [{"local", "team"} -> {"none", "past"}], toml : Tomls]
    [] a = "gemini" ->
         [file : Content, settings : [kind : {"missing", "broken", "odd"}, hooks : {<<>>}]
            \cup [kind : {"plain"}, hooks : {<<>>, <<"x">>, <<"custom", "x">>, <<"x", "crit">>}]]
    [] a = "aider" ->
         [file : Content, conf : [kind : {"missing", "broken", "several", "odd"}, read : {<<>>}]
            \cup [kind : {"plain"}, read : {<<>>, <<"x">>, <<"crit", "x">>}]]

NoInstall == [force |-> FALSE, ok |-> FALSE]
Init == agent \in Agents /\ disk \in Place(agent) /\ last = NoInstall /\ acts = 0

RunInstall ==
  \E force, npm \in BOOLEAN :
    LET out == InstallOutcome(agent, disk, force, npm) IN
    /\ disk' = out.disk
    /\ last' = [force |-> force, ok |-> out.ok]

(* A new release of crit, or of the agent.                                 *)
Release ==
  /\ disk' = [p \in DOMAIN disk |-> IF p \in Files(disk) /\ disk[p] = "stock" THEN "past"
                                     ELSE disk[p]]
  /\ last' = NoInstall
Upgrade ==
  /\ agent = "opencode"
  /\ \E v \in {"1", "2.0", "2.1"} \ {disk.version} : disk' = [disk EXCEPT !.version = v]
  /\ last' = NoInstall

Next ==
  /\ acts < MaxActs
  /\ RunInstall \/ Release \/ Upgrade
  /\ acts' = acts + 1
  /\ UNCHANGED agent
Spec == Init /\ [][Next]_vars
-----------------------------------------------------------------------------
Foreign(list) == SelectSeq(list, LAMBDA e : e = "x")

(* An install takes nothing from the user: what others have registered     *)
(* stays, in its order, forced or not; without force no file the user has  *)
(* changed is touched, but the plugin crit packages for Codex; a failed    *)
(* one removes no file.                                                    *)
UserWorkSurvives ==
  RunInstall =>
    /\ ~last'.force => \A p \in Files(disk) \ {"plugin"} : disk[p] = "mine" => disk'[p] = "mine"
    /\ ~last'.ok => \A p \in Files(disk) : disk'[p] = "none" => disk[p] = "none"
    /\ agent = "opencode" => /\ Foreign(disk'.conf.plugins) = Foreign(disk.conf.plugins)
                             /\ ~Rewritable(disk.conf) => disk'.conf = disk.conf
    /\ agent = "codex-plugin" =>
         /\ Foreign(disk'.market.plugins) = Foreign(disk.market.plugins)
         /\ disk.market.name = "team" => disk'.market.name = "team"
         /\ \A i \in DOMAIN disk.toml : disk.toml[i].kind # "blank" =>
              \/ disk.toml[i] = [Key("plugins") EXCEPT !.on = FALSE]
              \/ disk.toml[i] \in Range(disk'.toml)
    /\ agent = "gemini" /\ disk.settings.kind = "plain" =>
         Foreign(disk'.settings.hooks) = Foreign(disk.settings.hooks)
    /\ agent = "aider" => Foreign(disk'.conf.read) = Foreign(disk.conf.read)

(* After an install that succeeded a second one has nothing to do; after a *)
(* forced one the check finds nothing to complain about; and of OpenCode's *)
(* two kinds of plugin only the one its version loads is there.            *)
InstallSettles ==
  last.ok =>
    /\ InstallOutcome(agent, disk, FALSE, TRUE) = Done(disk)
    /\ last.force => Check(agent, disk) = {}
    /\ agent = "opencode" =>
         /\ disk[Other(Major(disk))] = "none"
         /\ Major(disk) = 2 /\ disk.conf.kind = "plain" => "crit" \notin Range(disk.conf.plugins)
=============================================================================
