------------------------------- MODULE Story --------------------------------
(* crit story: chapters that an agent writes over the hunks of a diff.     *)
(* What is taken of them (story/ingest.go), how the command saves them and *)
(* shows them to a running daemon (cmd/crit/cli_handlers_story.go), and    *)
(* the daemon's own copy (server_story.go, session/story_mutators.go).     *)
EXTENDS Integers, Sequences, FiniteSets, SequencesExt

CONSTANTS
  Command,    \* runs of crit story
  Trees,      \* diffs there may be: sets of hunks
  Ignored,    \* hunks of files that ignore_patterns name
  SafeId,     \* chapter ids of letters, digits, - and _
  Answers,    \* what agents and authors write
  None,
  MaxActs     \* bound on what is begun

VARIABLES
  disk,       \* the story in review.json
  daemon,     \* the daemon of this review: phase, story, hunks it knows of
  tree,       \* the diff as it is
  job,        \* what each command is doing
  unheard,    \* stories saved that the daemon refused or was not told of
  acts

vars == <<disk, daemon, tree, job, unheard, acts>>
-----------------------------------------------------------------------------
(* The hunks an author is to place, and those placed for it.               *)
StoryScope(known, now) == [indexed |-> known \ Ignored, ignored |-> now \cap Ignored]
Fingerprint(hunks) == hunks

ValidChapterID(id) == id \in SafeId
ValidateShape(st) ==
  /\ st.prologue
  /\ \A i \in DOMAIN st.chapters :
       /\ ValidChapterID(st.chapters[i].id) /\ st.chapters[i].id \notin {"overview", "support"}
       /\ \A j \in 1..i - 1 : st.chapters[j].id # st.chapters[i].id

BackfillSupport(st, hunks, reason) ==
  [st EXCEPT !.support = Append(@, [refs |-> SetToSortSeq(hunks, <), reason |-> reason])]
PrePlaceIgnored(st, ignored) ==
  IF ignored = {} THEN st ELSE BackfillSupport(st, ignored, "ignored")

Positions(parts, h) ==
  {p \in {<<i, k>> : i \in DOMAIN parts, k \in 1..3} :
     p[2] \in DOMAIN parts[p[1]].refs /\ parts[p[1]].refs[p[2]] = h}
(* How often chapters and support name a hunk; ignored entries aside.      *)
TallyPlacement(st, h) ==
  Cardinality(Positions(st.chapters, h))
    + Cardinality(Positions(SelectSeq(st.support, LAMBDA e : e.reason # "ignored"), h))

Rejected(st, error) == [saved |-> FALSE, story |-> st, error |-> error]
Covered(st, scope, missing) ==
  [saved |-> TRUE, error |-> None, story |->
    [(IF missing = {} THEN st ELSE BackfillSupport(st, missing, "auto-repaired")) EXCEPT !.coverage =
      [indexed |-> Cardinality(scope.indexed), missing |-> missing, ok |-> missing = {}]]]
BelowFloor(scope, missing) ==
  missing # {} /\ 2 * Cardinality(scope.indexed \ missing) < Cardinality(scope.indexed)
(* Run, once ignored hunks are in their place.                             *)
Place(st, scope) ==
  LET missing == {h \in scope.indexed : TallyPlacement(st, h) = 0}
  IN IF \E h \in scope.indexed : TallyPlacement(st, h) > 1 THEN Rejected(st, "duplicate")
     ELSE IF BelowFloor(scope, missing) THEN Rejected(st, "below floor")
     ELSE Covered(st, scope, missing)
Run(st, scope) ==
  IF ~ValidateShape(st) THEN Rejected(st, "shape")
  ELSE IF st.fingerprint # None /\ st.fingerprint # Fingerprint(scope.indexed)
       THEN Rejected(st, "drift")
  ELSE Place(PrePlaceIgnored(st, scope.ignored), scope)

(* What an author is given, and may copy the fingerprint from.             *)
BuildPrep(scope) ==
  [indexed |-> SetToSortSeq(scope.indexed, <), fingerprint |-> Fingerprint(scope.indexed)]
(* --skip-llm: everything in support, and no prologue.                     *)
Stub(scope) ==
  [prologue |-> FALSE, fingerprint |-> BuildPrep(scope).fingerprint, chapters |-> <<>>,
   support |-> <<[refs |-> BuildPrep(scope).indexed, reason |-> "stub"]>>,
   coverage |-> [indexed |-> Cardinality(scope.indexed), missing |-> {}, ok |-> TRUE],
   by |-> None]
-----------------------------------------------------------------------------
(* An agent's answer as tokens: what stands in one fence, or else from the *)
(* first brace to the last.                                                *)
Blank(t) == t \in {" ", "nl"}
TrimSpace(s) ==
  LET kept == {i \in DOMAIN s : ~Blank(s[i])}
  IN IF kept = {} THEN <<>> ELSE SubSeq(s, Min(kept), Max(kept))
At(s, t) == {i \in DOMAIN s : s[i] = t}
StripFence(s) ==
  IF s = <<>> \/ Head(s) # "fence" \/ At(s, "nl") = {} THEN None
  ELSE LET rest == SubSeq(s, Min(At(s, "nl")) + 1, Len(s))
       IN IF At(rest, "fence") = {} THEN None ELSE SubSeq(rest, 1, Max(At(rest, "fence")) - 1)
FromBraces(s) ==
  IF \A i \in At(s, "{"), j \in At(s, "}") : j < i THEN s
  ELSE SubSeq(s, Min(At(s, "{")), Max(At(s, "}")))
Candidate(s) == IF StripFence(s) = None THEN FromBraces(s) ELSE TrimSpace(StripFence(s))
ExtractJSON(out) == Candidate(TrimSpace(out))
-----------------------------------------------------------------------------
NoJob == [at |-> "idle", kind |-> None, scope |-> None, story |-> None,
          to |-> 0, retried |-> FALSE]
Daemon(phase, story, hunks, gen) == [phase |-> phase, story |-> story, hunks |-> hunks, gen |-> gen]
Goto(c, at)      == job' = [job EXCEPT ![c].at = at]
End(c)           == job' = [job EXCEPT ![c] = NoJob]
StoryDaemonAlive == daemon.phase # "down"
Act              == acts < MaxActs /\ acts' = acts + 1

(* A story may have been saved before, and a daemon show it.               *)
Init ==
  /\ tree \in Trees
  /\ \E st \in {None} \cup {Run(a, StoryScope(tree, tree)).story :
                              a \in {b \in Answers : Run(b, StoryScope(tree, tree)).saved}} :
       /\ disk = st
       /\ daemon \in {Daemon("down", None, {}, 0), Daemon("ready", st, tree, 0)}
  /\ job = [c \in Command |-> NoJob]
  /\ unheard = FALSE /\ acts = 0
-----------------------------------------------------------------------------
(* What is asked for, by the first of these flags that is given.           *)
Kind(flags) ==
  CASE "clear" \in flags -> "clear"
    [] flags \cap {"prep", "guide"} # {} -> "author's"
    [] "story-file" \in flags -> "file"
    [] "skip-llm" \in flags -> "stub"
    [] "no-spend" \in flags -> "nospend"
    [] OTHER -> "llm"
(* With the story as it is found in the file; --prep and --guide change    *)
(* nothing here.  Without --refresh a story there is shown again.          *)
FirstStep(kind, refresh) ==
  CASE kind = "clear" -> "clear"
    [] kind = "author's" \/ (kind = "nospend" /\ disk = None) -> "idle"
    [] kind = "nospend" \/ (disk # None /\ ~refresh) -> "resume"
    [] kind = "file" -> "read"
    [] OTHER -> "look"
RunStory(c) ==
  /\ job[c].at = "idle" /\ Act
  /\ \E flags \in SUBSET {"clear", "prep", "guide", "story-file", "skip-llm", "no-spend", "refresh"} :
       LET at == FirstStep(Kind(flags), "refresh" \in flags) IN
       job' = [job EXCEPT ![c] = IF at = "idle" THEN NoJob
                                 ELSE [NoJob EXCEPT !.kind = Kind(flags), !.at = at]]
  /\ UNCHANGED <<disk, daemon, tree, unheard>>

ReadStoryFile(c) ==
  /\ job[c].at = "read"
  /\ \/ \E st \in Answers : job' = [job EXCEPT ![c].at = "look", ![c].story = [st EXCEPT !.by = c]]
     \/ End(c)
  /\ UNCHANGED <<disk, daemon, tree, unheard, acts>>

(* An agent works on what was looked at, however long it takes.            *)
BuildStoryScope(c) ==
  /\ job[c].at = "look"
  /\ LET scope == StoryScope(tree, tree) IN
     job' = [job EXCEPT ![c].scope = scope,
               ![c].at    = CASE job[c].kind = "llm" -> "guide" [] job[c].kind = "stub" -> "save"
                              [] OTHER -> "ingest",
               ![c].story = IF job[c].kind = "stub" THEN [Stub(scope) EXCEPT !.by = c] ELSE @]
  /\ UNCHANGED <<disk, daemon, tree, unheard, acts>>

(* An agent is not asked with prompts of a project that is not trusted.    *)
ResolveStoryGuide(c) ==
  /\ job[c].at = "guide" /\ (Goto(c, "agent") \/ End(c))
  /\ UNCHANGED <<disk, daemon, tree, unheard, acts>>

(* The agent's command fails or is out of time; or its answer is no story, *)
(* once or twice; or is one.                                               *)
GenerateStory(c) ==
  /\ job[c].at = "agent"
  /\ \/ End(c)
     \/ ~job[c].retried /\ job' = [job EXCEPT ![c].retried = TRUE]
     \/ \E st \in Answers : /\ ValidateShape(st)
                            /\ job' = [job EXCEPT ![c].at = "ingest", ![c].story = [st EXCEPT !.by = c]]
  /\ UNCHANGED <<disk, daemon, tree, unheard, acts>>

IngestStory(c) ==
  /\ job[c].at = "ingest"
  /\ \E res \in {Run(job[c].story, job[c].scope)} :
       IF res.saved THEN job' = [job EXCEPT ![c].at = "save", ![c].story = res.story] ELSE End(c)
  /\ UNCHANGED <<disk, daemon, tree, unheard, acts>>

(* The file is read again under its lock.                                  *)
SetStory(st) == disk' = st
SaveStory(c) ==
  /\ job[c].at = "save"
  /\ \/ SetStory(job[c].story) /\ unheard' = FALSE /\ Goto(c, "find")
     \/ End(c) /\ UNCHANGED <<disk, unheard>>
  /\ UNCHANGED <<daemon, tree, acts>>

PostIngest(c) ==
  /\ job[c].at = "find"
  /\ job' = [job EXCEPT ![c].at = IF StoryDaemonAlive THEN "post" ELSE "spawn", ![c].to = daemon.gen]
  /\ UNCHANGED <<disk, daemon, tree, unheard, acts>>
ResumeStory(c) ==
  /\ job[c].at = "resume"
  /\ IF StoryDaemonAlive THEN End(c) ELSE Goto(c, "spawn")
  /\ UNCHANGED <<disk, daemon, tree, unheard, acts>>
StartDaemon == daemon' = IF StoryDaemonAlive THEN daemon
                         ELSE Daemon("starting", None, {}, daemon.gen + 1)
SpawnStoryDaemon(c) ==
  /\ job[c].at = "spawn" /\ End(c)
  /\ StartDaemon \/ UNCHANGED daemon
  /\ UNCHANGED <<disk, tree, unheard, acts>>
-----------------------------------------------------------------------------
Ready(c) == daemon.phase = "ready" /\ daemon.gen = job[c].to
(* The command says that the daemon was not told; what it saved stays.     *)
NotTold(c) == End(c) /\ unheard' = (unheard \/ disk = job[c].story) /\ UNCHANGED <<disk, daemon>>

HandleStoryPost(c) ==
  /\ job[c].at = "post" /\ Ready(c)
  /\ \E res \in {Run(job[c].story, StoryScope(daemon.hunks, tree))} :
       IF res.saved
       THEN /\ daemon' = [daemon EXCEPT !.story = res.story]
            /\ Goto(c, "persist") /\ UNCHANGED <<disk, unheard>>
       ELSE NotTold(c)
  /\ UNCHANGED <<tree, acts>>
(* The daemon has gone, or is not ready in thirty seconds.                 *)
PostFails(c) ==
  /\ job[c].at = "post" /\ ~Ready(c) /\ NotTold(c)
  /\ UNCHANGED <<tree, acts>>

ClearStory(c) ==
  /\ job[c].at = "clear"
  /\ job' = [job EXCEPT ![c].at = IF StoryDaemonAlive THEN "delete" ELSE "drop", ![c].to = daemon.gen]
  /\ UNCHANGED <<disk, daemon, tree, unheard, acts>>
HandleStoryDelete(c) ==
  /\ job[c].at = "delete" /\ Ready(c)
  /\ daemon' = [daemon EXCEPT !.story = None] /\ Goto(c, "persist")
  /\ UNCHANGED <<disk, tree, unheard, acts>>
DeleteFails(c) ==
  /\ job[c].at = "delete" /\ ~Ready(c)
  /\ IF StoryDaemonAlive THEN End(c) ELSE Goto(c, "drop")
  /\ UNCHANGED <<disk, daemon, tree, unheard, acts>>
(* A daemon that started since is not told.                                *)
DropStory(c) ==
  /\ job[c].at = "drop" /\ End(c)
  /\ \/ SetStory(None) /\ unheard' = StoryDaemonAlive
     \/ UNCHANGED <<disk, unheard>>
  /\ UNCHANGED <<daemon, tree, acts>>

SyncWriteFiles(c) ==
  /\ job[c].at = "persist"
  /\ \/ /\ Ready(c) /\ End(c)
        /\ disk' = daemon.story /\ unheard' = FALSE
     \/ /\ IF job[c].kind = "clear" /\ ~StoryDaemonAlive THEN Goto(c, "drop") ELSE End(c)
        /\ unheard' = TRUE /\ UNCHANGED disk
  /\ UNCHANGED <<daemon, tree, acts>>
-----------------------------------------------------------------------------
(* crit, in the same place.                                                *)
DaemonStarts == Act /\ ~StoryDaemonAlive /\ StartDaemon /\ UNCHANGED <<disk, tree, job, unheard>>
LoadCritJSON ==
  /\ daemon.phase = "starting"
  /\ daemon' = [daemon EXCEPT !.phase = "loaded", !.story = disk, !.hunks = tree]
  /\ unheard' = FALSE
  /\ UNCHANGED <<disk, tree, job, acts>>
SetSession ==
  /\ daemon.phase = "loaded" /\ daemon' = [daemon EXCEPT !.phase = "ready"]
  /\ UNCHANGED <<disk, tree, job, unheard, acts>>
(* Any save of the daemon's writes its story.                          *)
BuildCritJSON ==
  /\ daemon.phase = "ready"
  /\ disk' = daemon.story /\ unheard' = FALSE
  /\ UNCHANGED <<daemon, tree, job, acts>>
RefreshFiles ==
  /\ daemon.phase = "ready" /\ daemon.hunks # tree /\ daemon' = [daemon EXCEPT !.hunks = tree]
  /\ UNCHANGED <<disk, tree, job, unheard, acts>>
DaemonEnds ==
  /\ StoryDaemonAlive /\ Act
  /\ daemon' = Daemon("down", None, {}, daemon.gen) /\ unheard' = FALSE
  /\ UNCHANGED <<disk, tree, job>>

Edit == Act /\ \E t \in Trees \ {tree} : tree' = t /\ UNCHANGED <<disk, daemon, job, unheard>>

Next ==
  \/ \E c \in Command :
       \/ RunStory(c) \/ ReadStoryFile(c) \/ BuildStoryScope(c) \/ ResolveStoryGuide(c) \/ GenerateStory(c) \/ IngestStory(c)
       \/ SaveStory(c) \/ PostIngest(c) \/ ResumeStory(c) \/ SpawnStoryDaemon(c)
       \/ HandleStoryPost(c) \/ PostFails(c) \/ ClearStory(c) \/ HandleStoryDelete(c) \/ DeleteFails(c)
       \/ DropStory(c) \/ SyncWriteFiles(c)
  \/ DaemonStarts \/ LoadCritJSON \/ SetSession \/ BuildCritJSON \/ RefreshFiles \/ DaemonEnds
  \/ Edit
-----------------------------------------------------------------------------
(* Ingest is the boundary of trust: a story it takes places every hunk of  *)
(* the diff exactly once, keeps the author's chapters, which their ids     *)
(* tell apart, and says what it added; one it refuses has one of the four faults.  What it took it      *)
(* takes again, as when the command posts it to the daemon.                *)
IngestIsExact(st, scope) ==
  \A res \in {Run(st, scope)} :
    IF res.saved
    THEN /\ \A h \in scope.indexed : TallyPlacement(res.story, h) = 1
         /\ \A h \in scope.ignored : \E i \in DOMAIN res.story.support :
              /\ res.story.support[i].reason = "ignored"
              /\ \E k \in DOMAIN res.story.support[i].refs : res.story.support[i].refs[k] = h
         /\ res.story.chapters = st.chapters
         /\ IsInjective([i \in DOMAIN st.chapters |-> st.chapters[i].id])
         /\ res.story.coverage.ok = (\A h \in scope.indexed : TallyPlacement(st, h) = 1)
         /\ \A again \in {Run(res.story, scope)} :
              again.saved /\ again.story.chapters = st.chapters
    ELSE \/ ~st.prologue
         \/ \E i, j \in DOMAIN st.chapters :
              \/ st.chapters[i].id \in {"overview", "support"} \/ st.chapters[i].id \notin SafeId
              \/ i # j /\ st.chapters[i].id = st.chapters[j].id
         \/ st.fingerprint \notin {None, scope.indexed}
         \/ \E h \in scope.indexed : TallyPlacement(st, h) > 1
         \/ 2 * Cardinality({h \in scope.indexed : TallyPlacement(st, h) > 0})
              < Cardinality(scope.indexed)

(* A story that stands alone, in prose without braces or in one fence is   *)
(* found whole, fences inside it included.                                 *)
ExtractFinds(before, object, after) == ExtractJSON(before \o object \o after) = object

(* The daemon writes its own story with every save, and reads the file's   *)
(* only when it starts.  So the two agree, but while a command is about to *)
(* tell the daemon, or when the daemon refused or was not reached.         *)
StoryInStep ==
  daemon.phase \in {"loaded", "ready"} =>
    \/ daemon.story = disk
    \/ unheard
    \/ \E c \in Command : \/ job[c].at \in {"find", "post"} /\ job[c].story = disk
                          \/ job[c].at = "persist"

(* The daemon refuses what the command has saved only if it is a stub, or  *)
(* the two saw different diffs.                                            *)
RefusedForCause ==
  \A c \in Command :
    (job[c].at = "post" /\ Ready(c) /\ job'[c].at = "idle") =>
      job[c].kind = "stub" \/ job[c].scope # StoryScope(daemon.hunks, tree)
=============================================================================
