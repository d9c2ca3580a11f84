------------------------------ MODULE MCTools -------------------------------
(* An instance of Tools, and with it what TLC is enough for: comments      *)
(* given on the command line, installs, and the pure algorithms, which are *)
(* given a job, whose result the invariants judge.                         *)
EXTENDS Tools, Sequences, SequencesExt

CONSTANTS p1, p2

VARIABLES reviews, agent, last
all == <<vars, reviews, agent, last>>
MCActs == [folders |-> 4, trust |-> 4, plans |-> 2, story |-> 3, root |-> 2, rounds |-> 5]
-----------------------------------------------------------------------------
(* Stories as agents write them.                                           *)
Draft(refs, mark) == [prologue |-> TRUE, fingerprint |-> mark, support |-> <<>>, coverage |-> None,
                      by |-> None, chapters |-> <<[id |-> "a", refs |-> refs]>>]
Drafts == {Draft(<<1, 2>>, None), Draft(<<1>>, {1, 2}), Draft(<<1, 1, 2>>, None)}
Prose == BoundedSeq({"x", " ", "nl", "fence"}, 3)
Fenced == [before : {<<"fence", "nl">>, <<" ", "fence", "x", "nl", "nl">>},
           after : {<<"nl", "fence">>, <<"fence", "x", "nl">>, <<" ", "fence", "nl">>}]
Objects == {<<"{", "}">>, <<"{", "x", "fence", "nl", "x", "fence", "}">>, <<"{", "{", "nl", "}", "}">>}
Chapters == [id : {"a", "b", "overview"}, refs : {<<>>, <<1>>, <<2>>, <<1, 2>>, <<1, 1>>, <<3>>}]
Tales == [prologue : {TRUE}, fingerprint : {None, {1, 2}}, by : {None}, coverage : {None},
          chapters : BoundedSeq(Chapters, 2),
          support : BoundedSeq([refs : {<<1>>, <<3>>, <<9>>}, reason : {"moved", "ignored"}], 1)]
-----------------------------------------------------------------------------
Merge == INSTANCE ReviewMerge
Text  == INSTANCE Positions WITH Break <- 0, CutLength <- 3
Conf  == INSTANCE Settings WITH
           Scalars  <- {"port", "author", "vcs", "output", "default_markdown_view"},
           Flags    <- {"quiet", "cleanup_on_approve"},
           Pointers <- {"lsp"},
           Lists    <- {"ignore_patterns"},
           Maps     <- {"prompts"},
           Private  <- {"host", "public_url"}
View  == INSTANCE Peek WITH TooLong <- 0
Diffs == INSTANCE WorkTree WITH Path <- 1..3
Path  == INSTANCE Resume WITH Inside <- {<<"r", "r/a">>}
Inst  == INSTANCE Install WITH MaxActs <- 3
-----------------------------------------------------------------------------
(* What an agent sends with crit comment, and the reviews it may find.     *)
Plain(body) == [body |-> body, replyTo |-> None, resolve |-> FALSE, file |-> None, path |-> None,
                line |-> 0, spec |-> None, end |-> 0, scope |-> None, selector |-> None,
                route |-> None, quote |-> "none"]
ReplyTo(body, id, resolve) == [Plain(body) EXCEPT !.replyTo = id, !.resolve = resolve]
Comment(body, file, line) == [Plain(body) EXCEPT !.file = file, !.line = line]
Pin(body, selector, route) == [Plain(body) EXCEPT !.selector = selector, !.route = route]
Entry(b) ==
  {Plain(b), Comment(b, <<"f">>, 2), Comment(b, <<".", "g">>, 1), Comment(b, <<"f">>, 0),
   Comment(b, <<".", "..", "f">>, 1), [Comment(b, <<"f">>, 0) EXCEPT !.scope = "file"],
   [Plain(b) EXCEPT !.path = <<"g">>], [Comment(b, <<"f">>, 0) EXCEPT !.spec = <<3, 1>>],
   [Comment(b, <<"f">>, 0) EXCEPT !.spec = <<>>], [Plain(b) EXCEPT !.quote = "text"],
   [Comment(b, <<"f">>, 0) EXCEPT !.spec = <<>>, !.scope = "file"],
   [Comment(b, <<"f">>, 2) EXCEPT !.quote = "text"],
   [Comment(b, <<"f">>, 2) EXCEPT !.quote = "nowhere"],
   [Plain(b) EXCEPT !.line = 1, !.scope = "review"],
   Pin(b, "in page", None), Pin(b, "elsewhere", <<"p">>), Pin(b, "malformed", <<>>),
   Pin(b, None, <<"..">>), ReplyTo(b, "c1", FALSE), ReplyTo(b, "c2", TRUE),
   [ReplyTo(b, "c1", TRUE) EXCEPT !.file = <<"g">>], Plain(None)}
Few(b) == {Plain(b), Comment(b, <<"f">>, 2), Pin(b, "in page", <<"p">>), Comment(b, <<"f">>, 0),
           ReplyTo(b, "c1", FALSE), ReplyTo(b, "c2", TRUE)}
Batches == [entries : {<<e>> : e \in Entry("n1")}, redirect : BOOLEAN, reply : {FALSE}]
           \cup [entries : {<<e, f>> : e \in Few("n1"), f \in Few("n2")}, redirect : {TRUE},
                reply : {FALSE}]
           \cup [entries : {<<e>> : e \in {x \in Entry("n1") : x.replyTo # None}},
                redirect : BOOLEAN, reply : {TRUE}]
Batch == INSTANCE CommentBatch WITH
           Primary <- "A", Other <- {"B", "C"}, MaxActs <- 1, Batches <- Batches
Old(id, line, resolved) == [id |-> id, scope |-> IF line = 0 THEN "file" ELSE "line", start |-> line,
                            end |-> line, pin |-> 0, resolved |-> resolved, replies |-> <<>>]
OfGit(top, files) == [kind |-> "git", top |-> top, files |-> files]
Found == {None, Batch!Garbled,
          OfGit(<<>>, <<"f">> :> <<Old("c1", 3, TRUE), Old("c3", 2, FALSE), Old("c2", 0, TRUE)>>),
          OfGit(<<Old("c2", 0, FALSE)>>, <<"f">> :> <<Old("c1", 3, TRUE)>> @@ <<"g">> :> <<Old("c1", 3, TRUE)>>),
          [kind |-> "live", top |-> <<>>, origin |-> <<"home">>,
           files |-> <<"p">> :> <<[Old("c1", 1, FALSE) EXCEPT !.pin = 2]>>],
          [kind |-> "preview", top |-> <<Old("c1", 0, FALSE)>>, files |-> <<>>]}
Reachable == {f \in [{"A", "B", "C"} -> Found] :
                f["C"] \in {None, OfGit(<<>>, <<"f">> :> <<Old("c1", 3, TRUE), Old("c3", 2, FALSE),
                                                         Old("c2", 0, TRUE)>>)}}
ByName == <<<<"f">>, <<"g">>, <<"home">>, <<"p">>, <<"preview-content">>,
            <<"preview-content", "p">>>>
Compound == {[tag |-> t, rest |-> r] : t \in {<<"a">>, <<"b", "a">>, <<>>},
               r \in {<<"#", "a">>, <<"[", "b", "'", ">", "]", "'", "]">>, <<":", "a", "(", "a", " ", "b", ")">>,
                      <<"[", "'", "\\", "'", " ", "b", "'", "]">>}}
-----------------------------------------------------------------------------
(* Texts and comments.                                                     *)
Line  == {<<1>>, <<2>>, <<1, 1, 1, 2>>, <<1, 1, 1, 1>>}
Texts == BoundedSeq(Line, 3)
Words == BoundedSeq({1, 2}, 4)

Reps == {<<>>, <<[id |-> 1, body |-> 1]>>, <<[id |-> 1, body |-> 2]>>, <<[id |-> 2, body |-> 1]>>}
Full == {<<>>} \cup {<<[id |-> 1, body |-> b, resolved |-> r, replies |-> p]>> :
                       b \in {1, 2}, r \in BOOLEAN, p \in Reps}
Thin == BoundedSeq([id : {0, 1, 2}, body : {1, 2}, resolved : {FALSE}, replies : {<<>>}], 2)
Files == {<<>>} \cup [{1} -> [status : {1, 2}, hash : {1}, comments :
           {<<[id |-> 1, body |-> b, resolved |-> FALSE, replies |-> <<>>]>> : b \in {1, 2}}]]
Reviews == [top : {[round |-> 1], [round |-> 2]}, review : {<<>>}, files : Files,
            pending : {{}, {7}, {7, 8}}]
Said == [type : {"turn"}, turn : {"u", "v"}] \cup [type : {"other"}]
         \cup [type : {"message"}, plans : {<<>>, <<2>>, <<3, 4, None>>}]

TextJob ==
  \/ \E o, n \in Texts : job' = [kind |-> "diff", old |-> o, new |-> n]
  \/ \E o, n \in Texts : \E f, t \in DOMAIN o :
       f <= t /\ job' = [kind |-> "remap", old |-> o, new |-> n, from |-> f, to |-> t]
  \/ \E cs \in BoundedSeq(Compound, 2) \ {<<>>}, by \in {<<" ">>, <<" ", ">", " ">>} :
       job' = [kind |-> "selector", compounds |-> cs, by |-> by]
  \/ \E word \in {<<>>, <<None>>, <<1, None>>}, turn \in {None, "u"}, t \in BoundedSeq(Said, 4) :
       job' = [kind |-> "codex", event |-> [last |-> word, turn |-> turn, transcript |-> t]]
  \/ \E w \in Fenced \cup {v \in [before : Prose, after : Prose] :
                              Tale!TrimSpace(v.before) = <<>> \/ Tale!TrimSpace(v.before)[1] # "fence"},
        object \in Objects :
       job' = [kind |-> "answer", before |-> w.before, object |-> object, after |-> w.after]
  \/ \E file \in BoundedSeq({0, 1, 2}, 4), target \in 1..5, full \in 0..3, context \in 0..2 :
       job' = [kind |-> "peek", file |-> file, target |-> target, full |-> full, context |-> context]
  \/ \E a, b \in Words : job' = [kind |-> "edit", a |-> a, b |-> b]
  \/ \E o \in {<<>>, <<<<1>>>>}, n \in {<<>>, <<<<2>>>>} :
     \E now \in BoundedSeq({3, 4}, 2), before \in BoundedSeq({1, 2}, 2) :
       /\ IsInjective(now) /\ IsInjective(before)
       /\ job' = [kind |-> "carry", old |-> o, new |-> n, now |-> now, before |-> before]
CommentOf(i, carried) ==
  [id |-> i, kind |-> IF i = 1 THEN "file" ELSE "line", start |-> 1, end |-> 1,
   anchor |-> <<>>, drifted |-> FALSE, carried |-> carried]
(* Comments follow the text and what others wrote is read as they wrote    *)
(* it: Text!DiffIsShortest and the others of modules LineDiff and          *)
(* Positions, View!PeekShowsTarget, Batch!LeafTagIsLast,                   *)
(* Plan!PlanIsOfTurn and Tale!ExtractFinds.                                *)
TextIsFollowed ==
  tool = "text" =>
    CASE job.kind = "diff"  -> /\ Text!DiffIsShortest(job.old, job.new)
                              /\ Text!HunksShowChanges(job.old, job.new, 1)
      [] job.kind = "remap" -> Text!RemapFollowsText(job.old, job.new, job.from, job.to)
      [] job.kind = "selector" -> Batch!LeafTagIsLast(job.compounds, job.by)
      [] job.kind = "codex" -> Plan!PlanIsOfTurn(job.event)
      [] job.kind = "answer" -> Tale!ExtractFinds(job.before, job.object, job.after)
      [] job.kind = "peek"  -> View!PeekShowsTarget(job.file, job.target, job.full, job.context)
      [] job.kind = "edit"  -> Text!DistanceIsLeast(job.a, job.b, {1, 2})
      [] job.kind = "carry" ->
           Text!EachCarriedOnce([i \in DOMAIN job.now |-> CommentOf(job.now[i], FALSE)],
                                [i \in DOMAIN job.before |-> CommentOf(job.before[i], TRUE)],
                                job.old, job.new)
      [] OTHER -> TRUE

MergeJob ==
  \/ \E b, m, t \in Full : job' = [kind |-> "comments", b |-> b, m |-> m, t |-> t]
  \/ \E b, m, t \in Thin : job' = [kind |-> "comments", b |-> b, m |-> m, t |-> t]
  \/ \E b, m, t \in Reviews : job' = [kind |-> "review", b |-> b, m |-> m, t |-> t]
  \/ \E st \in Tales \cup {[Draft(<<1, 2>>, None) EXCEPT !.prologue = FALSE]},
        known \in {{}, {1, 2}, {1, 2, 3}}, now \in {{}, {9}} :
       job' = [kind |-> "story", st |-> st, scope |-> Tale!StoryScope(known, now)]

(* Files a and b are there from the start; c only with one content.        *)
Content(p) == IF p = 3 THEN 0..1 ELSE 0..2
Contents == {t \in [1..3 -> 0..2] : \A p \in 1..3 : t[p] \in Content(p)}
Snapshots == {t \in Contents : Cardinality({p \in 1..3 : t[p] # 0}) <= 2}
Dirs == {<<"a">>, <<"b">>, <<"a", "a">>, <<"a", "b">>, <<"node_modules", "a">>}
Patterns == [kind : {"dir", "path"}, names : Dirs \cup {<<"a", "*">>}]
            \cup [kind : {"name"}, names : {<<"a">>, <<"*">>}]
TreeJob ==
  \/ \E base, head, index, work \in Snapshots, feature \in BOOLEAN :
       /\ ~feature => base = head
       /\ job' = [kind |-> "repo", r |-> [base |-> base, head |-> head, index |-> index,
                                         work |-> work, feature |-> feature]]
  \/ \E ps \in {{p, q} : p, q \in Patterns} : job' = [kind |-> "walk", patterns |-> ps]

(* No comment, hunk or change is lost in a merge, an ingest or a list of   *)
(* changes: Merge!MergeKeepsBoth and Merge!SaveKeepsBoth,                  *)
(* Tale!IngestIsExact, Diffs!ChangesAreListed and the others of module     *)
(* WorkTree.                                                               *)
NothingMissing ==
  /\ tool = "merge" =>
       CASE job.kind = "comments" -> Merge!MergeKeepsBoth(job.b, job.m, job.t)
         [] job.kind = "review"   -> /\ Merge!SaveKeepsBoth(job.b, job.m, {job.t})
                                    /\ Merge!SaveKeepsBoth(job.b, job.m, {})
         [] job.kind = "story"    -> Tale!IngestIsExact(job.st, job.scope)
         [] OTHER -> TRUE
  /\ tool = "tree" =>
       CASE job.kind = "repo" -> /\ Diffs!ChangesAreListed(job.r)
                                /\ Diffs!ScopesShowTheirChanges(job.r)
                                /\ Diffs!UnresolvedAreCounted(job.r, 1 :> 2 @@ 2 :> 1, {3})
         [] job.kind = "walk" -> Diffs!WalkMissesNothing(
                                  Dirs \cup {Append(d, "b") : d \in Dirs}, job.patterns,
                                  {"node_modules"})
         [] OTHER -> TRUE
-----------------------------------------------------------------------------
(* Settings, prompts and hooks.                                            *)
Values(k) ==
  CASE k \in {"quiet", "cleanup_on_approve"} -> {"on", "off", "unset"}
    [] k = "lsp"             -> {"on", "off"}
    [] k = "ignore_patterns" -> {<<>>, <<"a">>, <<"b">>}
    [] k = "prompts"         -> {"e" :> "a", "e" :> "b", "f" :> "b"}
    [] k = "vcs"             -> {"sl", "jj"}
    [] k = "host"            -> {"0.0.0.0", "localhost"}
    [] k = "public_url"      -> {"u"}
    [] k = "default_markdown_view" -> {"diff", "huge"}
    [] OTHER                 -> {"v", "w"}
ConfFile ==
  {[kind |-> "missing"], [kind |-> "garbled"]}
  \cup UNION {{[kind |-> "json", keys |-> k :> v, bad |-> b] : v \in Values(k), b \in {{}, {k}}} :
                k \in Conf!Keys}
  \cup {[kind |-> "json", keys |-> "vcs" :> "sl" @@ k :> v, bad |-> b] :
          k \in {"quiet", "port"}, v \in {"off", "unset"}, b \in {{}, {"vcs"}}}
Names == [{"git", "sl", "jj"} -> {"unset", "n"}]

Entries == UNION {[ks -> {"blank", "inline", "lost"}] : ks \in SUBSET {<<"h", "story">>, <<"h">>}}
Layer   == [entries : Entries, found : SUBSET {<<"h", "story">>, <<"h">>}]

ConfJob ==
  \/ \E g, p \in ConfFile : \E names \in {[t \in {"git", "sl", "jj"} |-> "n"]} :
       job' = [kind |-> "merge", global |-> g, project |-> p, names |-> names]
  \/ \E g, p \in ConfFile : \E host, url \in {"unset", "0.0.0.0"}, ack \in BOOLEAN :
       /\ g.kind = "json" => DOMAIN g.keys \subseteq {"host", "public_url"}
       /\ job' = [kind |-> "listen", global |-> g, project |-> p, host |-> host, url |-> url,
                 ack |-> ack]
  \/ \E g, p \in Layer, use \in BOOLEAN, stock \in SUBSET {<<"h", "story">>, <<"h">>} :
       job' = [kind |-> "finish", global |-> g, project |-> p, use |-> use, stock |-> stock]
(* Where a command is run, with which sessions alive, and what it is told. *)
Session == {Path!Launch(d, b, a, p, o) : d \in {"r", "r/a", "x"}, b \in {"b1", None},
                                          a \in {{}, {"f"}}, p \in {None, "p"}, o \in {None, "o"}}
Live    == {{s, t} : s, t \in Session} \cup {{}}
PathJob ==
  \/ \E live \in {l \in Live : \A s, t \in l : s.key = t.key => s = t} :
     \E at \in {<<"r", "r">>, <<"r/a", "r">>, <<"r/a", None>>} :
     \E output \in {None, "o"}, config \in {None, "c"}, plan \in {None, "p"},
        key \in {None, Path!SessionKey("r", "b1", {}), Path!PlanSessionKey("p")} :
       job' = [kind |-> "find", w |->
              [dir |-> at[1], root |-> at[2], branch |-> IF at[2] = None THEN None ELSE "b1", live |-> live, output |-> output,
               config |-> config, session |-> key, plan |-> plan]]
  \/ \E foci \in {{f, g} : f, g \in [of : {1, 2}, kind : {"range"}, head : {1, 2}, scope : {"layer", "full-stack"}]
                                  \cup [of : {1, 2}, kind : {"working-tree"}]} \cup {{}},
        override \in {None, "working-tree", "layer", "full-stack"},
        active \in {None, "layer", "full-stack"} :
       job' = [kind |-> "stamp", foci |-> foci, override |-> override, active |-> active]
(* What was started with key k, which may have become that of a plan.      *)
K == Path!SessionKey("d", "b1", {})
Started == {Path!Plain(K, f) : f \in {<<>>, <<"f">>, <<"f", "g">>}}
             \cup {[Path!Plain(K, <<>>) EXCEPT !.live = "u"], [Path!Plain(K, <<>>) EXCEPT !.preview = "h"],
                   [Path!Plain(K, <<>>) EXCEPT !.range = "r"]}
Launched == Started \cup {[s EXCEPT !.output = "o"] : s \in Started}
              \cup {[Path!Plain(Path!PlanSessionKey("p"), <<"current">>) EXCEPT !.plan = "p"]}
Kept(id, s, cwd) == [id |-> id, cli |-> Path!CliArgs(s), cwd |-> cwd]
World(s, at, cwd, entry, others, gone, now, running) ==
  [disk |-> at :> Kept("mine", s, cwd) @@ [p \in others |-> Kept("other", s, "d")],
   stale |-> IF entry THEN [path |-> at, dir |-> "d"] ELSE None,
   gone |-> gone, config |-> now, here |-> "x", legacy |-> at = Path!LegacyOutput(at.root),
   running |-> IF running THEN [path |-> at, mode |-> <<"files">>, dir |-> "d"] ELSE None]
ResumeJob ==
  \/ \E s \in Launched, config, now \in {None, "c"}, cwd \in {None, "d"}, entry, running \in BOOLEAN,
        gone \in {{}, {"d"}}, others \in SUBSET {Path!Identity("home", K), Path!Identity("o", K)} :
     \E at \in {Path!Serve(s, config, "d").path} \cup (IF s.output = "o" THEN {Path!LegacyOutput("o")} ELSE {}) :
       job' = [kind |-> "reopen", s |-> s, config |-> config,
              w |-> World(s, at, cwd, entry, others, gone, now, running)]
  \/ \E json, entry, running \in BOOLEAN, gone \in {{}, {"d"}}, cwd \in {None, "d"} :
     \E fs \in SUBSET [key : {K, Path!SessionKey("e", "b1", {})}, json : {json}, at : {1, 2}, readable : BOOLEAN] :
       /\ Cardinality({f.key : f \in fs}) = Cardinality(fs)
       /\ job' = [kind |-> "list", folders |-> fs,
                 w |-> World(Path!Plain(K, <<>>), Path!Identity("home", K), cwd, entry, {}, gone, None, running)]

(* Conf!ProjectHasItsSay and others of module Settings, and                *)
(* Trust!TakenInOrder and Trust!StoryHasItsPrompt.  What a command is told *)
(* comes before what is live, and that before what is set:                 *)
(* Path!CommandsAgree and others of module ReviewPath.                     *)
LayersInOrder ==
  /\ tool = "path" =>
    CASE job.kind = "find"  -> Path!CommandsAgree(job.w) /\ Path!StatusTellsTheReview(job.w)
      [] job.kind = "reopen" -> /\ job.w.running = None => Path!ResumeReopens(job.s, job.config, job.w)
                               /\ ~job.w.legacy => Path!NextRoundIsSame(job.s, job.config, job.w)
      [] job.kind = "list" -> Path!ListedCanResume(job.folders, job.w)
      [] job.kind = "stamp" -> Path!StampsAreShown(job.override, job.foci, job.active)
      [] OTHER -> TRUE
  /\ tool = "conf" =>
    CASE job.kind = "merge"  -> Conf!ProjectHasItsSay(job.global, job.project, job.names)
      [] job.kind = "listen" ->
           Conf!ReachableByConsent(
             [host |-> job.host, publicUrl |-> "unset", port |-> "unset", quiet |-> FALSE,
              output |-> "unset", plan |-> FALSE, noIgnore |-> FALSE, ack |-> FALSE],
             [host |-> "unset", publicUrl |-> job.url, port |-> "nonsense", ack |-> job.ack],
             job.global, job.project, [t \in {"git", "sl", "jj"} |-> "n"])
      [] job.kind = "finish" ->
           LET keys == Trust!Keys("h", "story") IN
           /\ Trust!TakenInOrder(job.global, job.project, keys, job.use)
           /\ Trust!StoryHasItsPrompt(job.global, job.project, job.stock, keys, job.use)
      [] OTHER -> TRUE
-----------------------------------------------------------------------------
NoJob == [kind |-> "none"]
Pure  == {"text", "merge", "tree", "conf", "path"}
Beside == <<pc, daemon, tree, hist, unheard, ofFolders, ofTrust, ofPlans, ofRoot, ofRounds>>
NotBeside ==
  /\ pc = None /\ daemon = None /\ tree = None /\ hist = None /\ unheard = None
  /\ NoFolders /\ NoTrust /\ NoPlans /\ NoRoot /\ NoRounds
MCInit ==
  \/ Init /\ reviews = None /\ agent = None /\ last = None
  \/ /\ tool \in Pure /\ job = NoJob /\ NotBeside
     /\ disk = None /\ acts = None /\ reviews = None /\ agent = None /\ last = None
  \/ /\ tool = "batch" /\ reviews \in Reachable /\ Batch!Init /\ NotBeside
     /\ disk = None /\ agent = None /\ last = None
  \/ /\ tool = "install" /\ Inst!Init /\ NotBeside
     /\ job = None /\ reviews = None

Alone(Kind) == job = NoJob /\ Kind /\ UNCHANGED <<tool, disk, acts, reviews, agent, last, Beside>>
MCNext ==
  \/ Next /\ UNCHANGED <<reviews, agent, last>>
  \/ tool = "text"  /\ Alone(TextJob)
  \/ tool = "merge" /\ Alone(MergeJob)
  \/ tool = "tree"  /\ Alone(TreeJob)
  \/ tool = "conf"  /\ Alone(ConfJob)
  \/ tool = "path"  /\ Alone(PathJob \/ ResumeJob)
  \/ tool = "batch" /\ Batch!Next /\ UNCHANGED <<tool, disk, agent, last, Beside>>
  \/ tool = "install" /\ Inst!Next /\ UNCHANGED <<tool, job, reviews, Beside>>
MCSpec == MCInit /\ [][MCNext]_all

(* The algorithms give what their definitions promise, for every job.      *)
ResultsAreRight == TextIsFollowed /\ NothingMissing /\ LayersInOrder

(* What a command reports done is done, all of it: Inst!InstallSettles,    *)
(* Batch!BatchIsWhole and Batch!ListIsComplete.                            *)
WorkIsDone ==
  /\ tool = "install" => Inst!InstallSettles
  /\ tool = "batch" => Batch!BatchIsWhole /\ Batch!ListIsComplete(ByName)

(* What a user or an agent wrote gives way only to what was asked for:     *)
(* Batch!CommandsOnlyAdd, Inst!UserWorkSurvives; and a daemon refuses a    *)
(* story only for a difference it sees: Tale!RefusedForCause.              *)
OnlyWhatWasAsked ==
  [][/\ tool = "batch" => Batch!CommandsOnlyAdd
     /\ tool = "install" => Inst!UserWorkSurvives
     /\ tool = "story" => Tale!RefusedForCause]_all
=============================================================================
