----------------------------- MODULE ToolsProofs -----------------------------
(* What is proved of the parts of Tools: of each an inductive invariant,   *)
(* TrustInv, StoryInv, FoldersInv, RootInv, PlansInv and TimesInv, and     *)
(* from them NoWorkIsLost, TrustIsKept and StepsTakeNothing, for any       *)
(* processes, files, commits, slugs, texts and bounds.                     *)
EXTENDS Tools, TLAPS
------------------------------------------------------------------------------
(* Trust.  Whoever writes the settings read them under the lock, which     *)
(* nobody else has meanwhile.                                              *)
TrustEntries  == [mode : Trust!Modes \cup {"none"}, hash : Trust!Content]
TrustSettings == [trusted : [Project -> TrustEntries], other : Int]
TrustUses     == [stage : {"gate", "prompt", "hooks"}, at : {"ready", "hashed", "judged", "used"},
                  hash : Trust!Content, edited : BOOLEAN, project : BOOLEAN, said : TrustEntries,
                  took : Trust!Content]
TrustTypes ==
  /\ content \in [Project -> Trust!Content]
  /\ settings \in TrustSettings
  /\ job \in [Project -> [at : {"idle"}] \cup
                         [at : {"locking", "writing"}, entry : TrustEntries, read : TrustSettings]]
  /\ asked \in [Project -> TrustEntries]
  /\ used \in [Project -> TrustUses]
(* What was hashed is still there, unless p was edited; and what is taken  *)
(* was judged by the last answer.                                          *)
TrustJudged(u, c) ==
  /\ u.at \in {"hashed", "judged"} /\ ~u.edited => u.hash = c
  /\ u.at = "judged" => (u.project <=> Trust!Trusts(u.said, u.hash))
TrustTaken(u) ==
  u.at = "used" /\ ~u.edited =>
    /\ u.took # 0 => Trust!Trusts(u.said, u.took)
    /\ Trust!Trusts(u.said, u.hash) => u.took = u.hash
TrustInv ==
  /\ TrustTypes
  /\ \A p \in Project : job[p].at = "writing" => job[p].read = settings
  /\ \A p, q \in Project : job[p].at = "writing" /\ job[q].at = "writing" => p = q
  /\ Trust!AnswersStay
  /\ \A p \in Project : TrustJudged(used[p], content[p]) /\ TrustTaken(used[p])

(* The finish that there never was.                                        *)
LEMMA TrustNotUsed ==
  /\ Trust!NoEntry \in TrustEntries /\ Trust!NotUsed \in TrustUses
  /\ \A c \in Trust!Content : ~Trust!Trusts(Trust!NoEntry, c)
  /\ \A c \in Trust!Content : TrustJudged(Trust!NotUsed, c)
  /\ TrustTaken(Trust!NotUsed)
  BY DEF TrustEntries, TrustUses, Trust!NoEntry, Trust!NotUsed, Trust!Content, Trust!Trusts, TrustJudged,
    TrustTaken

LEMMA TrustMarked ==
  ASSUME NEW u \in TrustUses, NEW edited \in BOOLEAN
  PROVE  [u EXCEPT !.edited = edited] \in TrustUses
  BY DEF TrustUses

(* No project trusted yet.                                                 *)
LEMMA TrustStarts == Trust!Init => TrustInv
  <1> SUFFICES ASSUME Trust!Init PROVE TrustInv
    OBVIOUS
  <1> USE DEF Trust!Init
  <1>1. TrustTypes
    BY TrustNotUsed DEF TrustTypes, TrustSettings
  <1>2. Trust!AnswersStay
    BY DEF Trust!AnswersStay
  <1>3. \A p \in Project : used[p] = Trust!NotUsed /\ content[p] \in Trust!Content
    OBVIOUS
  <1> QED
    BY <1>1, <1>2, <1>3, TrustNotUsed DEF TrustInv

(* Every step of ProjectTrust keeps TrustInv.                              *)
LEMMA TrustHolds ==
  ASSUME TrustInv, Trust!Next
  PROVE  TrustInv'
  <1> USE DEF TrustInv, TrustTypes
  <1>1. CASE Trust!SaveOther
    <2> USE <1>1 DEF Trust!SaveOther, Trust!Act
    <2>1. /\ settings'.trusted = settings.trusted
          /\ settings' \in TrustSettings
      BY DEF TrustSettings
    <2>2. Trust!AnswersStay'
      BY <2>1 DEF Trust!AnswersStay
    <2> QED
      BY <2>1, <2>2
  <1>2. ASSUME NEW p \in Project, Trust!EditProject(p) PROVE TrustInv'
    <2> USE <1>2 DEF Trust!EditProject, Trust!Act
    <2> DEFINE edited == used[p].edited \/ used[p].at \in {"hashed", "judged"}
    <2>1. content' \in [Project -> Trust!Content] /\ \A q \in Project \ {p} : content'[q] = content[q]
      OBVIOUS
    <2>2. edited \in BOOLEAN
      BY Zenon
    <2>3. /\ used' = [used EXCEPT ![p].edited = edited]
          /\ used[p].at \in {"hashed", "judged"} => edited
          /\ used[p].at = "used" => edited = used[p].edited
      <3>1. used[p].edited \in BOOLEAN /\ used[p].at \in {"ready", "hashed", "judged", "used"}
        BY DEF TrustUses
      <3> QED
        BY <3>1
    <2> HIDE DEF edited
    <2>4. /\ used'[p] = [used[p] EXCEPT !.edited = edited]
          /\ \A q \in Project \ {p} : used'[q] = used[q]
      BY <2>3
    <2>5. used'[p] \in TrustUses
      <3>1. used[p] \in TrustUses
        OBVIOUS
      <3> QED
        BY <2>2, <2>4, <3>1, TrustMarked, Zenon
    <2>6. TrustTypes'
      BY <2>1, <2>4, <2>5
    <2>7. TrustJudged(used'[p], content'[p]) /\ TrustTaken(used'[p])
      <3>1. TrustJudged(used[p], content[p]) /\ TrustTaken(used[p])
        OBVIOUS
      <3>2. /\ used'[p].at = used[p].at /\ used'[p].hash = used[p].hash /\ used'[p].edited = edited
            /\ used'[p].project = used[p].project /\ used'[p].said = used[p].said
            /\ used'[p].took = used[p].took
        BY <2>4 DEF TrustUses
      <3> QED
        BY <2>3, <3>1, <3>2 DEF TrustJudged, TrustTaken
    <2> QED
      BY <2>1, <2>4, <2>6, <2>7 DEF Trust!AnswersStay
  <1>3. ASSUME NEW p \in Project, Trust!LockGlobalConfig(p) PROVE TrustInv'
    <2> USE <1>3 DEF Trust!LockGlobalConfig
    <2>1. job[p] \in [at : {"locking", "writing"}, entry : TrustEntries, read : TrustSettings]
      OBVIOUS
    <2>2. job'[p] = [at |-> "writing", entry |-> job[p].entry, read |-> settings]
      BY <2>1
    <2>3. \A q \in Project \ {p} : job'[q] = job[q]
      OBVIOUS
    <2>4. TrustTypes'
      BY <2>1, <2>2, <2>3
    <2>5. /\ \A q \in Project : job'[q].at = "writing" => job'[q].read = settings'
          /\ \A q, r \in Project : job'[q].at = "writing" /\ job'[r].at = "writing" => q = r
      BY <2>2, <2>3
    <2> QED
      BY <2>4, <2>5 DEF Trust!AnswersStay
  <1>4. ASSUME NEW p \in Project, Trust!SaveFails(p) PROVE TrustInv'
    <2> USE <1>4 DEF Trust!SaveFails
    <2>1. /\ job'[p] = [at |-> "idle"]
          /\ \A q \in Project \ {p} : job'[q] = job[q]
      OBVIOUS
    <2>2. TrustTypes'
      BY <2>1
    <2> QED
      BY <2>1, <2>2 DEF Trust!AnswersStay
  <1>5. ASSUME NEW p \in Project, Trust!SaveTrustChoice(p) PROVE TrustInv'
    <2> USE <1>5 DEF Trust!SaveTrustChoice
    <2>1. job[p] \in [at : {"locking", "writing"}, entry : TrustEntries, read : TrustSettings]
      OBVIOUS
    <2>2. /\ job'[p] = [at |-> "idle"]
          /\ \A q \in Project \ {p} : job'[q] = job[q] /\ job[q].at # "writing"
      OBVIOUS
    <2>3. /\ settings'.trusted = [settings.trusted EXCEPT ![p] = job[p].entry]
          /\ settings' \in TrustSettings
      BY <2>1 DEF TrustSettings
    <2>4. TrustTypes'
      BY <2>1, <2>2, <2>3
    <2>5. Trust!AnswersStay'
      BY <2>1, <2>3 DEF Trust!AnswersStay, TrustSettings
    <2> QED
      BY <2>2, <2>4, <2>5
  <1>6. ASSUME NEW p \in Project, NEW u \in TrustUses, used' = [used EXCEPT ![p] = u],
               UNCHANGED <<content, settings, job, asked>>, TrustJudged(u, content[p]), TrustTaken(u)
        PROVE  TrustInv'
    <2>1. used'[p] = u /\ \A q \in Project \ {p} : used'[q] = used[q]
      BY <1>6
    <2>2. TrustTypes'
      BY <1>6, <2>1
    <2>3. \A q \in Project : TrustJudged(used'[q], content'[q]) /\ TrustTaken(used'[q])
      BY <1>6, <2>1
    <2> QED
      BY <1>6, <2>2, <2>3 DEF Trust!AnswersStay
  <1>7. ASSUME NEW p \in Project, Trust!Finish(p) \/ Trust!ContentHash(p) \/ Trust!EvaluateTrust(p)
                                 \/ Trust!EvaluateFails(p) \/ Trust!Use(p)
        PROVE  TrustInv'
    <2>1. CASE Trust!Finish(p)
      <3> DEFINE u == [Trust!NotUsed EXCEPT !.stage = "gate", !.at = "ready"]
      <3>1. u \in TrustUses /\ u.at = "ready"
        BY TrustNotUsed DEF TrustUses
      <3> HIDE DEF u
      <3> QED
        BY <1>6, <2>1, <3>1 DEF Trust!Finish, u, TrustJudged, TrustTaken
    <2>2. CASE Trust!ContentHash(p)
      <3> DEFINE stage == IF used[p].at = "used" THEN "hooks" ELSE used[p].stage
                 u == [used[p] EXCEPT !.stage = stage, !.at = "hashed", !.hash = content[p], !.edited = FALSE]
      <3>1. used' = [used EXCEPT ![p] = u] /\ UNCHANGED <<content, settings, job, asked>>
        BY <2>2 DEF Trust!ContentHash
      <3>2. stage \in {"gate", "prompt", "hooks"} /\ used[p] \in TrustUses /\ content[p] \in Trust!Content
        BY DEF TrustUses
      <3> HIDE DEF stage
      <3>3. u \in TrustUses /\ u.at = "hashed" /\ u.hash = content[p]
        BY <3>2 DEF TrustUses
      <3> HIDE DEF u
      <3> QED
        BY <1>6, <3>1, <3>3 DEF TrustJudged, TrustTaken
    <2>3. CASE Trust!EvaluateTrust(p)
      <3> DEFINE project == Trust!Trusts(settings.trusted[p], used[p].hash)
                 w == [used[p] EXCEPT !.at = "judged", !.project = project, !.said = asked[p]]
                 g == [used[p] EXCEPT !.stage = "prompt", !.at = "ready"]
      <3>1. /\ used' \in {[used EXCEPT ![p] = w], [used EXCEPT ![p] = Trust!NotUsed], [used EXCEPT ![p] = g]}
            /\ used[p].at = "hashed" /\ UNCHANGED <<content, settings, job, asked>>
        BY <2>3 DEF Trust!EvaluateTrust
      <3>2. project \in BOOLEAN
        BY Zenon DEF Trust!Trusts
      <3>3. project <=> Trust!Trusts(asked[p], used[p].hash)
        BY DEF Trust!AnswersStay
      <3>4. used[p] \in TrustUses /\ asked[p] \in TrustEntries /\ TrustJudged(used[p], content[p])
            /\ content[p] \in Trust!Content
        OBVIOUS
      <3> HIDE DEF project
      <3>5. /\ w \in TrustUses /\ w.at = "judged" /\ w.project = project /\ w.said = asked[p]
            /\ w.hash = used[p].hash /\ w.edited = used[p].edited
            /\ g \in TrustUses /\ g.at = "ready"
        BY <3>2, <3>4 DEF TrustUses
      <3> HIDE DEF w, g
      <3>6. TrustJudged(w, content[p]) /\ TrustTaken(w) /\ TrustJudged(g, content[p]) /\ TrustTaken(g)
        BY <3>1, <3>3, <3>4, <3>5 DEF TrustJudged, TrustTaken
      <3> QED
        BY <1>6, <3>1, <3>4, <3>5, <3>6, TrustNotUsed
    <2>4. CASE Trust!EvaluateFails(p)
      <3> DEFINE w == [used[p] EXCEPT !.at = "judged", !.project = FALSE, !.said = Trust!NoEntry]
                 g == [used[p] EXCEPT !.stage = "prompt", !.at = "ready"]
      <3>1. used[p] \in TrustUses /\ used[p].stage \in {"gate", "prompt", "hooks"}
            /\ TrustJudged(used[p], content[p]) /\ content[p] \in Trust!Content
            /\ used[p].hash \in Trust!Content
        BY DEF TrustUses
      <3>2. /\ used' \in {[used EXCEPT ![p] = w], [used EXCEPT ![p] = Trust!NotUsed], [used EXCEPT ![p] = g]}
            /\ used[p].at = "hashed" /\ UNCHANGED <<content, settings, job, asked>>
        BY <2>4, <3>1 DEF Trust!EvaluateFails
      <3>3. /\ w \in TrustUses /\ w.at = "judged" /\ ~w.project /\ w.said = Trust!NoEntry
            /\ w.hash = used[p].hash /\ w.edited = used[p].edited
            /\ g \in TrustUses /\ g.at = "ready"
        BY <3>1, TrustNotUsed DEF TrustUses
      <3> HIDE DEF w, g
      <3>4. TrustJudged(w, content[p]) /\ TrustTaken(w) /\ TrustJudged(g, content[p]) /\ TrustTaken(g)
        BY <3>1, <3>2, <3>3, TrustNotUsed DEF TrustJudged, TrustTaken
      <3> QED
        BY <1>6, <3>1, <3>2, <3>3, <3>4, TrustNotUsed
    <2>5. CASE Trust!Use(p)
      <3>1. PICK c \in IF used[p].project THEN {used[p].hash, content[p]} ELSE {0} :
              used' = [used EXCEPT ![p].at = "used", ![p].took = c]
        BY <2>5 DEF Trust!Use
      <3> DEFINE u == [used[p] EXCEPT !.at = "used", !.took = c]
      <3>2. /\ used[p] \in TrustUses /\ TrustJudged(used[p], content[p]) /\ c \in Trust!Content
            /\ used[p].at = "judged" /\ used[p].hash \in Trust!Content
        BY <2>5 DEF Trust!Use, Trust!Content, TrustUses
      <3>3. used' = [used EXCEPT ![p] = u] /\ UNCHANGED <<content, settings, job, asked>>
        BY <2>5, <3>1 DEF Trust!Use
      <3>4. /\ u \in TrustUses /\ u.at = "used" /\ u.took = c /\ u.hash = used[p].hash
            /\ u.said = used[p].said /\ u.edited = used[p].edited
        BY <3>2 DEF TrustUses
      <3> HIDE DEF u
      <3>5. TrustTaken(u)
        <4> SUFFICES ASSUME ~used[p].edited
                     PROVE  /\ c # 0 => Trust!Trusts(used[p].said, c)
                            /\ Trust!Trusts(used[p].said, used[p].hash) => c = used[p].hash
          BY <3>4 DEF TrustTaken
        <4>1. used[p].hash = content[p] /\ (used[p].project <=> Trust!Trusts(used[p].said, used[p].hash))
          BY <3>2 DEF TrustJudged
        <4> QED
          BY <3>1, <4>1
      <3>6. TrustJudged(u, content[p])
        BY <3>4 DEF TrustJudged
      <3> QED
        BY <1>6, <3>3, <3>4, <3>5, <3>6
    <2> QED
      BY <1>7, <2>1, <2>2, <2>3, <2>4, <2>5
  <1>8. ASSUME NEW p \in Project, NEW mode \in Trust!Modes, Trust!Choose(p, mode) PROVE TrustInv'
    <2> USE <1>8 DEF Trust!Choose, Trust!Act
    <2>1. Trust!Entry(mode, content[p]) \in TrustEntries
      BY DEF Trust!Entry, TrustEntries, Trust!Content
    <2>2. /\ job'[p] = [at |-> "locking", entry |-> Trust!Entry(mode, content[p]), read |-> settings]
          /\ \A q \in Project \ {p} : job'[q] = job[q]
      OBVIOUS
    <2>3. TrustTypes'
      BY <2>1, <2>2
    <2> QED
      BY <2>2, <2>3 DEF Trust!AnswersStay
  <1> QED
    BY <1>1, <1>2, <1>3, <1>4, <1>5, <1>7, <1>8, Zenon DEF Trust!Next

(* TrustInv reads the variables of ProjectTrust only.                      *)
LEMMA TrustStutter == ASSUME TrustInv, UNCHANGED Trust!vars PROVE TrustInv'
  BY DEF TrustInv, Trust!vars, TrustTypes, Trust!AnswersStay

(* TrustInv is strong enough.                                              *)
LEMMA TrustSuffices == TrustInv => Trust!AnswersStay /\ Trust!UsedAsAnswered
  BY Zenon DEF TrustInv, TrustTaken, Trust!UsedAsAnswered

(* An answer for one project keeps the keys of all others.                 *)
LEMMA TrustTakesNothing ==
  ASSUME TrustInv, Trust!Next \/ UNCHANGED Trust!vars
  PROVE  Trust!OthersKeysStay
  <1> USE DEF TrustInv, TrustTypes, TrustSettings, Trust!OthersKeysStay
  <1>1. CASE Trust!SaveOther
    BY <1>1 DEF Trust!SaveOther
  <1>2. CASE \E p \in Project : Trust!SaveTrustChoice(p)
    <2> PICK p \in Project : Trust!SaveTrustChoice(p)
      BY <1>2
    <2>1. settings' = [settings EXCEPT !.trusted[p] = job[p].entry]
      BY DEF Trust!SaveTrustChoice
    <2> QED
      BY <2>1
  <1>3. CASE settings' = settings
    BY <1>3
  <1> QED
    BY <1>1, <1>2, <1>3 DEF Trust!Next, Trust!EditProject, Trust!LockGlobalConfig, Trust!SaveFails,
      Trust!Finish, Trust!ContentHash, Trust!EvaluateTrust, Trust!EvaluateFails, Trust!Use, Trust!Choose,
      Trust!vars
------------------------------------------------------------------------------
(* Stories.  Commands are records of the fields of NoJob, and StoryInStep  *)
(* names those of whose story the daemon is still to be told.              *)
StoryAts == {"idle", "read", "look", "guide", "agent", "ingest", "save", "find", "post", "spawn",
             "resume", "clear", "delete", "drop", "persist"}
StoryJob(j) ==
  \E at \in StoryAts, retried \in BOOLEAN : \E kind, scope, story, to :
    j = [at |-> at, kind |-> kind, scope |-> scope, story |-> story, to |-> to, retried |-> retried]
StoryDaemon(d) ==
  \E phase \in {"down", "starting", "loaded", "ready"} : \E story, hunks, gen : d = Tale!Daemon(phase, story, hunks, gen)
StoryInv ==
  /\ job = [c \in Command |-> job[c]] /\ \A c \in Command : StoryJob(job[c])
  /\ StoryDaemon(daemon)
  /\ Tale!StoryInStep

StoryBecomes(c, j) ==
  /\ job'[c] = j
  /\ \A e \in Command \ {c} : job'[e] = job[e]
  /\ job' = [e \in Command |-> job'[e]]
StoryTelling(j, d) == (j.at \in {"find", "post"} /\ j.story = d) \/ j.at = "persist"

(* A daemon of which one field changes.                                    *)
LEMMA StoryDaemonChanges ==
  ASSUME StoryInv, NEW x, NEW phase \in {"down", "starting", "loaded", "ready"}
  PROVE  /\ daemon' = [daemon EXCEPT !.story = x] =>
              daemon' = Tale!Daemon(daemon.phase, x, daemon.hunks, daemon.gen)
         /\ daemon' = [daemon EXCEPT !.hunks = x] =>
              daemon' = Tale!Daemon(daemon.phase, daemon.story, x, daemon.gen)
         /\ daemon' = [daemon EXCEPT !.phase = phase] =>
              daemon' = Tale!Daemon(phase, daemon.story, daemon.hunks, daemon.gen)
         /\ daemon.phase \in {"down", "starting", "loaded", "ready"}
  <1>1. PICK q \in {"down", "starting", "loaded", "ready"} : \E a, b, c : daemon = Tale!Daemon(q, a, b, c)
    BY DEF StoryInv, StoryDaemon
  <1>0. PICK story, hunks, gen : daemon = Tale!Daemon(q, story, hunks, gen)
    BY <1>1
  <1> DEFINE S == {story, hunks, gen}
  <1>2. daemon \in [phase : {"down", "starting", "loaded", "ready"}, story : S, hunks : S, gen : S]
    BY <1>0 DEF Tale!Daemon
  <1> QED
    BY <1>2 DEF Tale!Daemon

(* A daemon that is told of a story.                                       *)
LEMMA StoryToldDaemon ==
  ASSUME StoryInv, NEW x, daemon' = [daemon EXCEPT !.story = x]
  PROVE  StoryDaemon(daemon')
  <1>1. /\ daemon' = Tale!Daemon(daemon.phase, x, daemon.hunks, daemon.gen)
        /\ daemon.phase \in {"down", "starting", "loaded", "ready"}
    BY StoryDaemonChanges
  <1> QED
    BY <1>1, Zenon DEF StoryDaemon

(* A literal record is one of a command.                                   *)
LEMMA StoryRecord ==
  ASSUME NEW at \in StoryAts, NEW retried \in BOOLEAN, NEW kind, NEW scope, NEW story, NEW to
  PROVE  StoryJob([at |-> at, kind |-> kind, scope |-> scope, story |-> story, to |-> to,
                   retried |-> retried])
  BY Zenon DEF StoryJob

(* A command that has ended is one.                                        *)
LEMMA StoryIdle == StoryJob(Tale!NoJob) /\ Tale!NoJob.at = "idle"
  <1>1. StoryJob([at |-> "idle", kind |-> None, scope |-> None, story |-> None, to |-> 0,
                  retried |-> FALSE])
    BY StoryRecord DEF StoryAts
  <1> QED
    BY <1>1 DEF Tale!NoJob

(* End resets one command.                                                 *)
LEMMA StoryEnds ==
  ASSUME StoryInv, NEW c \in Command, Tale!End(c)
  PROVE  StoryBecomes(c, Tale!NoJob)
  <1>1. job = [e \in Command |-> job[e]]
    BY DEF StoryInv
  <1>2. job' = [job EXCEPT ![c] = Tale!NoJob]
    BY DEF Tale!End
  <1> QED
    BY <1>1, <1>2 DEF StoryBecomes

(* The fields of a command that have a type.                               *)
LEMMA StoryFields ==
  ASSUME StoryInv, NEW c \in Command
  PROVE  job[c].at \in StoryAts /\ job[c].retried \in BOOLEAN
  BY DEF StoryInv, StoryJob

(* A record with some of its fields changed.                               *)
LEMMA StoryChanges ==
  ASSUME StoryInv, NEW c \in Command, NEW at \in StoryAts, NEW x, NEW y, NEW b \in BOOLEAN
  PROVE  /\ job' = [job EXCEPT ![c].at = at] =>
              StoryBecomes(c, [at |-> at, kind |-> job[c].kind, scope |-> job[c].scope,
                          story |-> job[c].story, to |-> job[c].to, retried |-> job[c].retried])
         /\ job' = [job EXCEPT ![c].retried = TRUE] =>
              StoryBecomes(c, [at |-> job[c].at, kind |-> job[c].kind, scope |-> job[c].scope,
                          story |-> job[c].story, to |-> job[c].to, retried |-> TRUE])
         /\ job' = [job EXCEPT ![c].at = at, ![c].story = x] =>
              StoryBecomes(c, [at |-> at, kind |-> job[c].kind, scope |-> job[c].scope,
                          story |-> x, to |-> job[c].to, retried |-> job[c].retried])
         /\ job' = [job EXCEPT ![c].at = at, ![c].to = x] =>
              StoryBecomes(c, [at |-> at, kind |-> job[c].kind, scope |-> job[c].scope,
                          story |-> job[c].story, to |-> x, retried |-> job[c].retried])
         /\ job' = [job EXCEPT ![c].scope = x, ![c].at = at, ![c].story = IF b THEN y ELSE @] =>
              StoryBecomes(c, [at |-> at, kind |-> job[c].kind, scope |-> x,
                          story |-> IF b THEN y ELSE job[c].story, to |-> job[c].to,
                          retried |-> job[c].retried])
  <1> USE DEF StoryInv
  <1>0. PICK a \in StoryAts, r \in BOOLEAN : \E k, sc, st, t :
          job[c] = [at |-> a, kind |-> k, scope |-> sc, story |-> st, to |-> t, retried |-> r]
    BY DEF StoryJob
  <1>1. PICK kind, scope, story, to :
          job[c] = [at |-> a, kind |-> kind, scope |-> scope, story |-> story, to |-> to, retried |-> r]
    BY <1>0
  <1> DEFINE S == {kind, scope, story, to}
  <1>2. job[c] \in [at : StoryAts, kind : S, scope : S, story : S, to : S, retried : BOOLEAN]
    BY <1>1
  <1>3. job = [e \in Command |-> job[e]]
    OBVIOUS
  <1>4. ASSUME job' = [job EXCEPT ![c].at = at]
        PROVE  StoryBecomes(c, [at |-> at, kind |-> job[c].kind, scope |-> job[c].scope,
                           story |-> job[c].story, to |-> job[c].to, retried |-> job[c].retried])
    BY <1>2, <1>3, <1>4 DEF StoryBecomes
  <1>5. ASSUME job' = [job EXCEPT ![c].retried = TRUE]
        PROVE  StoryBecomes(c, [at |-> job[c].at, kind |-> job[c].kind, scope |-> job[c].scope,
                           story |-> job[c].story, to |-> job[c].to, retried |-> TRUE])
    BY <1>2, <1>3, <1>5 DEF StoryBecomes
  <1>6. ASSUME job' = [job EXCEPT ![c].at = at, ![c].story = x]
        PROVE  StoryBecomes(c, [at |-> at, kind |-> job[c].kind, scope |-> job[c].scope,
                           story |-> x, to |-> job[c].to, retried |-> job[c].retried])
    BY <1>2, <1>3, <1>6 DEF StoryBecomes
  <1>7. ASSUME job' = [job EXCEPT ![c].at = at, ![c].to = x]
        PROVE  StoryBecomes(c, [at |-> at, kind |-> job[c].kind, scope |-> job[c].scope,
                           story |-> job[c].story, to |-> x, retried |-> job[c].retried])
    BY <1>2, <1>3, <1>7 DEF StoryBecomes
  <1>8. ASSUME job' = [job EXCEPT ![c].scope = x, ![c].at = at, ![c].story = IF b THEN y ELSE @]
        PROVE  StoryBecomes(c, [at |-> at, kind |-> job[c].kind, scope |-> x,
                           story |-> IF b THEN y ELSE job[c].story, to |-> job[c].to,
                           retried |-> job[c].retried])
    BY <1>2, <1>3, <1>8 DEF StoryBecomes
  <1> QED
    BY <1>4, <1>5, <1>6, <1>7, <1>8

(* What a command does where the daemon is not concerned.                  *)
LEMMA StoryAside ==
  ASSUME StoryInv, NEW c \in Command, ~StoryTelling(job[c], disk), NEW j, StoryJob(j), StoryBecomes(c, j),
         UNCHANGED <<disk, daemon, unheard>>
  PROVE  StoryInv'
  <1> USE DEF StoryInv, StoryBecomes
  <1>1. \A e \in Command : StoryJob(job'[e])
    OBVIOUS
  <1>2. Tale!StoryInStep'
    BY DEF Tale!StoryInStep, StoryTelling
  <1> QED
    BY <1>1, <1>2

(* A command that has told the daemon, or given up and said so.            *)
LEMMA StoryTold ==
  ASSUME StoryInv, NEW c \in Command, job[c].at = "post", Tale!NotTold(c)
  PROVE  StoryInv'
  <1>1. StoryBecomes(c, Tale!NoJob)
    BY StoryEnds DEF Tale!NotTold
  <1>2. \A e \in Command : StoryJob(job'[e])
    BY <1>1, StoryIdle DEF StoryInv, StoryBecomes
  <1>3. Tale!StoryInStep'
    BY <1>1 DEF StoryInv, StoryBecomes, Tale!StoryInStep, Tale!NotTold
  <1> QED
    BY <1>1, <1>2, <1>3 DEF StoryInv, StoryBecomes, Tale!NotTold

(* Where commands wait: none of these is one that tells.                   *)
LEMMA StoryLeaves ==
  ASSUME StoryInv, NEW c \in Command, ~StoryTelling(job[c], disk), Tale!End(c),
         UNCHANGED <<disk, daemon, unheard>>
  PROVE  StoryInv'
  BY StoryEnds, StoryIdle, StoryAside

(* A command that owes the daemon nothing may move on.                     *)
LEMMA StoryGoesTo ==
  ASSUME StoryInv, NEW c \in Command, ~StoryTelling(job[c], disk), NEW at \in StoryAts, Tale!Goto(c, at),
         UNCHANGED <<disk, daemon, unheard>>
  PROVE  StoryInv'
  <1> DEFINE j == [at |-> at, kind |-> job[c].kind, scope |-> job[c].scope, story |-> job[c].story,
                   to |-> job[c].to, retried |-> job[c].retried]
  <1>1. StoryBecomes(c, j)
    BY StoryChanges DEF Tale!Goto
  <1>2. StoryJob(j)
    BY StoryFields, StoryRecord
  <1> HIDE DEF j
  <1> QED
    BY <1>1, <1>2, StoryAside

(* The steps of a command before it saves.                                 *)
LEMMA StoryCommands ==
  ASSUME StoryInv, NEW c \in Command,
         \/ Tale!RunStory(c) \/ Tale!ReadStoryFile(c) \/ Tale!BuildStoryScope(c)
         \/ Tale!ResolveStoryGuide(c) \/ Tale!GenerateStory(c) \/ Tale!IngestStory(c)
         \/ Tale!ResumeStory(c) \/ Tale!ClearStory(c) \/ Tale!DeleteFails(c)
  PROVE  StoryInv'
  <1>0. /\ job[c].at \in StoryAts /\ job[c].retried \in BOOLEAN
        /\ job[c].at \notin {"find", "post", "persist"} => ~StoryTelling(job[c], disk)
    BY StoryFields DEF StoryTelling
  <1>1. CASE Tale!RunStory(c)
    <2> USE <1>1 DEF Tale!RunStory
    <2>1. PICK flags \in SUBSET {"clear", "prep", "guide", "story-file", "skip-llm", "no-spend", "refresh"} :
            LET at == Tale!FirstStep(Tale!Kind(flags), "refresh" \in flags) IN
            job' = [job EXCEPT ![c] = IF at = "idle" THEN Tale!NoJob
                                      ELSE [Tale!NoJob EXCEPT !.kind = Tale!Kind(flags), !.at = at]]
      OBVIOUS
    <2> DEFINE at == Tale!FirstStep(Tale!Kind(flags), "refresh" \in flags)
               j == IF at = "idle" THEN Tale!NoJob
                    ELSE [at |-> at, kind |-> Tale!Kind(flags), scope |-> None, story |-> None,
                          to |-> 0, retried |-> FALSE]
    <2>2. at \in StoryAts
      BY DEF Tale!FirstStep, StoryAts
    <2>3. job' = [job EXCEPT ![c] = j]
      BY <2>1, ZenonT(60) DEF Tale!NoJob
    <2>4. StoryJob(j)
      BY <2>2, StoryIdle, StoryRecord
    <2> HIDE DEF j
    <2>5. StoryBecomes(c, j)
      BY <2>3 DEF StoryBecomes, StoryInv
    <2> QED
      BY <1>0, <2>4, <2>5, StoryAside
  <1>2. CASE Tale!ReadStoryFile(c)
    <2> USE <1>2 DEF Tale!ReadStoryFile
    <2>1. CASE Tale!End(c)
      BY <1>0, <2>1, StoryLeaves
    <2>2. ASSUME NEW st \in Answers,
                 job' = [job EXCEPT ![c].at = "look", ![c].story = [st EXCEPT !.by = c]]
          PROVE  StoryInv'
      <3> DEFINE x == [st EXCEPT !.by = c]
                 j == [at |-> "look", kind |-> job[c].kind, scope |-> job[c].scope, story |-> x,
                       to |-> job[c].to, retried |-> job[c].retried]
      <3> HIDE DEF x
      <3>1. StoryBecomes(c, j)
        BY <2>2, StoryChanges, ZenonT(30) DEF x, StoryAts
      <3>2. StoryJob(j)
        BY <1>0, StoryRecord DEF StoryAts
      <3> HIDE DEF j
      <3> QED
        BY <1>0, <3>1, <3>2, StoryAside, SMTT(30)
    <2> QED
      BY <2>1, <2>2
  <1>3. CASE Tale!BuildStoryScope(c)
    <2> USE <1>3 DEF Tale!BuildStoryScope
    <2> DEFINE scope == Tale!StoryScope(tree, tree)
               at == CASE job[c].kind = "llm" -> "guide" [] job[c].kind = "stub" -> "save"
                       [] OTHER -> "ingest"
               stub == [Tale!Stub(scope) EXCEPT !.by = c]
               b == job[c].kind = "stub"
               j == [at |-> at, kind |-> job[c].kind, scope |-> scope,
                     story |-> IF b THEN stub ELSE job[c].story,
                     to |-> job[c].to, retried |-> job[c].retried]
    <2>1. at \in StoryAts /\ b \in BOOLEAN
      BY DEF StoryAts
    <2>2. job' = [job EXCEPT ![c].scope = scope, ![c].at = at, ![c].story = IF b THEN stub ELSE @]
      OBVIOUS
    <2> HIDE DEF at, stub, b, scope
    <2>3. StoryBecomes(c, j)
      BY <2>1, <2>2, StoryChanges
    <2>4. StoryJob(j)
      BY <1>0, <2>1, StoryRecord
    <2> HIDE DEF j
    <2> QED
      BY <1>0, <2>3, <2>4, StoryAside
  <1>4. CASE Tale!ResolveStoryGuide(c)
    BY <1>0, <1>4, StoryGoesTo, StoryLeaves DEF StoryAts, Tale!ResolveStoryGuide
  <1>5. CASE Tale!GenerateStory(c)
    <2> USE <1>5 DEF Tale!GenerateStory
    <2>1. CASE Tale!End(c)
      BY <1>0, <2>1, StoryLeaves
    <2>2. CASE job' = [job EXCEPT ![c].retried = TRUE]
      <3> DEFINE j == [at |-> job[c].at, kind |-> job[c].kind, scope |-> job[c].scope,
                       story |-> job[c].story, to |-> job[c].to, retried |-> TRUE]
      <3>1. StoryBecomes(c, j)
        BY <2>2, StoryChanges, ZenonT(30) DEF StoryAts
      <3>2. StoryJob(j)
        BY <1>0, StoryRecord DEF StoryAts
      <3> HIDE DEF j
      <3> QED
        BY <1>0, <3>1, <3>2, StoryAside, SMTT(30)
    <2>3. ASSUME NEW st \in Answers,
                 job' = [job EXCEPT ![c].at = "ingest", ![c].story = [st EXCEPT !.by = c]]
          PROVE  StoryInv'
      <3> DEFINE x == [st EXCEPT !.by = c]
                 j == [at |-> "ingest", kind |-> job[c].kind, scope |-> job[c].scope, story |-> x,
                       to |-> job[c].to, retried |-> job[c].retried]
      <3> HIDE DEF x
      <3>1. StoryBecomes(c, j)
        BY <2>3, StoryChanges, ZenonT(30) DEF x, StoryAts
      <3>2. StoryJob(j)
        BY <1>0, StoryRecord DEF StoryAts
      <3> HIDE DEF j
      <3> QED
        BY <1>0, <3>1, <3>2, StoryAside, SMTT(30)
    <2> QED
      BY <2>1, <2>2, <2>3
  <1>6. CASE Tale!IngestStory(c)
    <2> USE <1>6 DEF Tale!IngestStory
    <2>1. CASE Tale!End(c)
      BY <1>0, <2>1, StoryLeaves
    <2>2. ASSUME NEW x, job' = [job EXCEPT ![c].at = "save", ![c].story = x]
          PROVE  StoryInv'
      <3> DEFINE j == [at |-> "save", kind |-> job[c].kind, scope |-> job[c].scope, story |-> x,
                       to |-> job[c].to, retried |-> job[c].retried]
      <3>1. StoryBecomes(c, j)
        BY <2>2, StoryChanges, ZenonT(30) DEF StoryAts
      <3>2. StoryJob(j)
        BY <1>0, StoryRecord DEF StoryAts
      <3> HIDE DEF j
      <3> QED
        BY <1>0, <3>1, <3>2, StoryAside, SMTT(30)
    <2> QED
      BY <2>1, <2>2
  <1>7. CASE Tale!ResumeStory(c)
    BY <1>0, <1>7, StoryGoesTo, StoryLeaves DEF StoryAts, Tale!ResumeStory
  <1>8. CASE Tale!ClearStory(c)
    <2> USE <1>8 DEF Tale!ClearStory
    <2> DEFINE at == IF Tale!StoryDaemonAlive THEN "delete" ELSE "drop"
               j == [at |-> at, kind |-> job[c].kind, scope |-> job[c].scope, story |-> job[c].story,
                     to |-> daemon.gen, retried |-> job[c].retried]
    <2>1. at \in StoryAts
      BY DEF StoryAts
    <2>2. job' = [job EXCEPT ![c].at = at, ![c].to = daemon.gen]
      OBVIOUS
    <2> HIDE DEF at
    <2>3. StoryBecomes(c, j)
      BY <2>1, <2>2, StoryChanges
    <2>4. StoryJob(j)
      BY <1>0, <2>1, StoryRecord
    <2> HIDE DEF j
    <2> QED
      BY <1>0, <2>3, <2>4, StoryAside
  <1>9. CASE Tale!DeleteFails(c)
    BY <1>0, <1>9, StoryGoesTo, StoryLeaves DEF StoryAts, Tale!DeleteFails
  <1> QED
    BY <1>1, <1>2, <1>3, <1>4, <1>5, <1>6, <1>7, <1>8, <1>9

(* What a command does with what it has to tell.                           *)
LEMMA StoryTells ==
  ASSUME StoryInv, NEW c \in Command,
         \/ Tale!SaveStory(c) \/ Tale!PostIngest(c) \/ Tale!SpawnStoryDaemon(c)
         \/ Tale!HandleStoryPost(c) \/ Tale!PostFails(c) \/ Tale!HandleStoryDelete(c)
         \/ Tale!DropStory(c) \/ Tale!SyncWriteFiles(c)
  PROVE  StoryInv'
  <1> DEFINE At(at) == [at |-> at, kind |-> job[c].kind, scope |-> job[c].scope, story |-> job[c].story,
                        to |-> job[c].to, retried |-> job[c].retried]
  <1>0. /\ job[c].at \in StoryAts /\ job[c].retried \in BOOLEAN
        /\ job[c].at \notin {"find", "post", "persist"} => ~StoryTelling(job[c], disk)
    BY StoryFields DEF StoryTelling
  <1>a. ASSUME NEW at \in StoryAts, Tale!Goto(c, at)
        PROVE  StoryBecomes(c, At(at)) /\ StoryJob(At(at)) /\ At(at).at = at /\ At(at).story = job[c].story
    <2>1. StoryBecomes(c, At(at))
      BY <1>a, StoryChanges DEF Tale!Goto
    <2>2. StoryJob(At(at))
      BY <1>0, StoryRecord
    <2> QED
      BY <2>1, <2>2
  <1> HIDE DEF At
  <1>b. ASSUME NEW j, StoryJob(j), StoryBecomes(c, j)
        PROVE  job' = [e \in Command |-> job'[e]] /\ \A e \in Command : StoryJob(job'[e])
    BY <1>b DEF StoryBecomes, StoryInv
  <1>1. CASE Tale!SaveStory(c)
    <2> USE <1>1 DEF Tale!SaveStory
    <2>1. CASE Tale!End(c) /\ UNCHANGED <<disk, unheard>>
      BY <1>0, <2>1, StoryLeaves
    <2>2. CASE Tale!SetStory(job[c].story) /\ unheard' = FALSE /\ Tale!Goto(c, "find")
      <3>1. StoryBecomes(c, At("find")) /\ StoryJob(At("find")) /\ At("find").at = "find"
              /\ At("find").story = job[c].story
        BY <1>a, <2>2 DEF StoryAts
      <3>2. Tale!StoryInStep'
        BY <2>2, <3>1 DEF Tale!StoryInStep, Tale!SetStory, StoryBecomes
      <3> QED
        BY <1>b, <3>1, <3>2 DEF StoryInv
    <2> QED
      BY <2>1, <2>2
  <1>2. CASE Tale!PostIngest(c)
    <2> USE <1>2 DEF Tale!PostIngest
    <2> DEFINE at == IF Tale!StoryDaemonAlive THEN "post" ELSE "spawn"
               j == [at |-> at, kind |-> job[c].kind, scope |-> job[c].scope, story |-> job[c].story,
                     to |-> daemon.gen, retried |-> job[c].retried]
    <2>1. at \in StoryAts
      BY DEF StoryAts
    <2>2. job' = [job EXCEPT ![c].at = at, ![c].to = daemon.gen]
      OBVIOUS
    <2>3. daemon.phase \in {"loaded", "ready"} => at = "post"
      BY DEF Tale!StoryDaemonAlive
    <2> HIDE DEF at
    <2>4. StoryBecomes(c, j)
      BY <2>1, <2>2, StoryChanges
    <2>5. StoryJob(j)
      BY <1>0, <2>1, StoryRecord
    <2>6. j.at = at /\ j.story = job[c].story
      OBVIOUS
    <2> HIDE DEF j
    <2>7. ASSUME daemon.phase \in {"loaded", "ready"}, daemon.story # disk, ~unheard
          PROVE  \E e \in Command : StoryTelling(job'[e], disk)
      <3>1. PICK e \in Command : StoryTelling(job[e], disk)
        BY <2>7 DEF StoryInv, Tale!StoryInStep, StoryTelling
      <3>2. CASE e = c
        <4>1. job[c].story = disk
          BY <3>1, <3>2 DEF StoryTelling
        <4>2. job'[c].at = "post" /\ job'[c].story = disk
          BY <2>3, <2>4, <2>6, <2>7, <4>1 DEF StoryBecomes
        <4> QED
          BY <4>2 DEF StoryTelling
      <3>3. CASE e # c
        BY <2>4, <3>1, <3>3 DEF StoryBecomes
      <3> QED
        BY <3>2, <3>3
    <2>8. Tale!StoryInStep'
      BY <2>7 DEF Tale!StoryInStep, StoryTelling
    <2> QED
      BY <1>b, <2>4, <2>5, <2>8 DEF StoryInv
  <1>3. CASE Tale!SpawnStoryDaemon(c)
    <2> USE <1>3 DEF Tale!SpawnStoryDaemon
    <2>1. CASE daemon' = daemon
      BY <1>0, <2>1, StoryLeaves
    <2>2. CASE daemon' = Tale!Daemon("starting", None, {}, daemon.gen + 1)
      <3>1. StoryDaemon(daemon') /\ daemon'.phase = "starting"
        BY <2>2 DEF StoryDaemon, Tale!Daemon
      <3>2. Tale!StoryInStep'
        BY <3>1 DEF Tale!StoryInStep
      <3> QED
        BY <1>b, <3>1, <3>2, StoryEnds, StoryIdle DEF StoryInv
    <2> QED
      BY <2>1, <2>2 DEF Tale!StartDaemon
  <1>4. CASE Tale!HandleStoryPost(c)
    <2> USE <1>4 DEF Tale!HandleStoryPost
    <2>1. CASE Tale!NotTold(c)
      BY <2>1, StoryTold
    <2>2. ASSUME NEW x, daemon' = [daemon EXCEPT !.story = x], Tale!Goto(c, "persist"),
                 UNCHANGED <<disk, unheard>>
          PROVE  StoryInv'
      <3>1. StoryBecomes(c, At("persist")) /\ StoryJob(At("persist")) /\ At("persist").at = "persist"
        BY <1>a, <2>2 DEF StoryAts
      <3>2. StoryDaemon(daemon')
        BY <2>2, StoryToldDaemon
      <3>3. Tale!StoryInStep'
        BY <3>1 DEF Tale!StoryInStep, StoryBecomes
      <3> QED
        BY <1>b, <3>1, <3>2, <3>3 DEF StoryInv
    <2> QED
      BY <2>1, <2>2
  <1>5. CASE Tale!PostFails(c)
    BY <1>5, StoryTold DEF Tale!PostFails
  <1>6. CASE Tale!HandleStoryDelete(c)
    <2> USE <1>6 DEF Tale!HandleStoryDelete
    <2>1. StoryBecomes(c, At("persist")) /\ StoryJob(At("persist")) /\ At("persist").at = "persist"
      BY <1>a DEF StoryAts
    <2>2. StoryDaemon(daemon')
      BY StoryToldDaemon
    <2>3. Tale!StoryInStep'
      BY <2>1 DEF Tale!StoryInStep, StoryBecomes
    <2> QED
      BY <1>b, <2>1, <2>2, <2>3 DEF StoryInv
  <1>7. CASE Tale!DropStory(c)
    <2> USE <1>7 DEF Tale!DropStory
    <2>1. CASE UNCHANGED <<disk, unheard>>
      BY <1>0, <2>1, StoryLeaves
    <2>2. CASE unheard' = Tale!StoryDaemonAlive
      <3>1. Tale!StoryInStep'
        BY <2>2 DEF Tale!StoryInStep, Tale!StoryDaemonAlive
      <3> QED
        BY <1>b, <3>1, StoryEnds, StoryIdle DEF StoryInv
    <2> QED
      BY <2>1, <2>2
  <1>8. CASE Tale!SyncWriteFiles(c)
    <2> USE <1>8 DEF Tale!SyncWriteFiles
    <2>1. \E j : StoryJob(j) /\ StoryBecomes(c, j)
      BY <1>a, StoryEnds, StoryIdle DEF StoryAts
    <2>2. Tale!StoryInStep'
      BY DEF Tale!StoryInStep
    <2> QED
      BY <1>b, <2>1, <2>2 DEF StoryInv
  <1> QED
    BY <1>1, <1>2, <1>3, <1>4, <1>5, <1>6, <1>7, <1>8

(* Every step of Story keeps StoryInv.                                     *)
LEMMA StoryHolds ==
  ASSUME StoryInv, Tale!Next
  PROVE  StoryInv'
  <1>1. CASE \E c \in Command :
               \/ Tale!RunStory(c) \/ Tale!ReadStoryFile(c) \/ Tale!BuildStoryScope(c)
               \/ Tale!ResolveStoryGuide(c) \/ Tale!GenerateStory(c) \/ Tale!IngestStory(c)
               \/ Tale!ResumeStory(c) \/ Tale!ClearStory(c) \/ Tale!DeleteFails(c)
    BY <1>1, StoryCommands
  <1>2. CASE \E c \in Command :
               \/ Tale!SaveStory(c) \/ Tale!PostIngest(c) \/ Tale!SpawnStoryDaemon(c)
               \/ Tale!HandleStoryPost(c) \/ Tale!PostFails(c) \/ Tale!HandleStoryDelete(c)
               \/ Tale!DropStory(c) \/ Tale!SyncWriteFiles(c)
    BY <1>2, StoryTells
  <1>3. CASE Tale!DaemonStarts \/ Tale!DaemonEnds
    <2>1. /\ StoryDaemon(daemon') /\ daemon'.phase \in {"starting", "down"}
          /\ UNCHANGED job
      BY <1>3 DEF Tale!DaemonStarts, Tale!DaemonEnds, Tale!StartDaemon, StoryDaemon, Tale!Daemon
    <2>2. Tale!StoryInStep'
      BY <2>1 DEF Tale!StoryInStep
    <2> QED
      BY <2>1, <2>2 DEF StoryInv
  <1>4. CASE Tale!LoadCritJSON
    <2> USE <1>4 DEF Tale!LoadCritJSON
    <2>0. PICK q \in {"down", "starting", "loaded", "ready"} :
            \E s, h, g : daemon = Tale!Daemon(q, s, h, g)
      BY DEF StoryInv, StoryDaemon
    <2>1. PICK story, hunks, gen : daemon = Tale!Daemon(q, story, hunks, gen)
      BY <2>0
    <2>2. daemon' = Tale!Daemon("loaded", disk, tree, gen)
      BY <2>1 DEF Tale!Daemon
    <2>3. StoryDaemon(daemon') /\ daemon'.story = disk'
      BY <2>2 DEF StoryDaemon, Tale!Daemon
    <2>4. Tale!StoryInStep'
      BY <2>3 DEF Tale!StoryInStep
    <2> QED
      BY <2>3, <2>4 DEF StoryInv
  <1>5. CASE Tale!SetSession \/ Tale!RefreshFiles
    <2> USE <1>5 DEF Tale!SetSession, Tale!RefreshFiles
    <2>1. /\ StoryDaemon(daemon') /\ daemon'.story = daemon.story
          /\ daemon.phase \in {"loaded", "ready"}
      BY StoryDaemonChanges DEF StoryDaemon, StoryInv, Tale!Daemon
    <2>2. Tale!StoryInStep'
      BY <2>1 DEF Tale!StoryInStep, StoryInv
    <2> QED
      BY <2>1, <2>2 DEF StoryInv
  <1>6. CASE Tale!BuildCritJSON
    <2>1. Tale!StoryInStep'
      BY <1>6 DEF Tale!StoryInStep, Tale!BuildCritJSON
    <2> QED
      BY <1>6, <2>1 DEF StoryInv, Tale!BuildCritJSON
  <1>7. CASE Tale!Edit
    BY <1>7 DEF StoryInv, Tale!Edit, Tale!StoryInStep
  <1> QED
    BY <1>1, <1>2, <1>3, <1>4, <1>5, <1>6, <1>7 DEF Tale!Next

(* No story yet or one, a daemon that shows it or none.                    *)
LEMMA StoryStarts == Tale!Init => StoryInv
  <1> SUFFICES ASSUME Tale!Init PROVE StoryInv
    OBVIOUS
  <1>1. /\ daemon \in {Tale!Daemon("down", None, {}, 0), Tale!Daemon("ready", disk, tree, 0)}
        /\ job = [c \in Command |-> Tale!NoJob]
    BY DEF Tale!Init
  <1>2. \A c \in Command : job[c] = Tale!NoJob
    BY <1>1
  <1>3. job = [c \in Command |-> job[c]]
    BY <1>1
  <1>4. \A c \in Command : StoryJob(job[c])
    BY <1>2, StoryIdle
  <1>5. CASE daemon = Tale!Daemon("down", None, {}, 0)
    <2>1. StoryDaemon(daemon) /\ daemon.phase = "down"
      BY <1>5 DEF StoryDaemon, Tale!Daemon
    <2> QED
      BY <1>3, <1>4, <2>1 DEF StoryInv, Tale!StoryInStep
  <1>6. CASE daemon = Tale!Daemon("ready", disk, tree, 0)
    <2>1. StoryDaemon(daemon) /\ daemon.story = disk
      BY <1>6 DEF StoryDaemon, Tale!Daemon
    <2> QED
      BY <1>3, <1>4, <2>1 DEF StoryInv, Tale!StoryInStep
  <1> QED
    BY <1>1, <1>5, <1>6

(* StoryInv reads the variables of Story only.                             *)
LEMMA StoryStutter == ASSUME StoryInv, UNCHANGED Tale!vars PROVE StoryInv'
  BY DEF StoryInv, Tale!vars, StoryDaemon, StoryJob, Tale!StoryInStep
------------------------------------------------------------------------------
(* Folders.  As long as no two migrate at once, every comment is in one of *)
(* the three names, a flat review is alone with its migration, and what a  *)
(* migration left half way is owned by one that is under way or broke off. *)
FoldersAts == {"idle", "look", "rename", "wipe", "move", "side", "place", "make", "done", "failed"}
FoldersEntry == [kind : {"file", "dir"}, review : SUBSET (Process \cup {"first"}), snaps : BOOLEAN,
                 old : BOOLEAN]
FoldersTypes ==
  /\ disk \in [Folders!Name -> FoldersEntry \cup {None}]
  /\ sidecar \subseteq {"id", "legacy"}
  /\ session \in [file : BOOLEAN, alive : BOOLEAN]
  /\ pc \in [Process -> [at : FoldersAts, flat : {"id", "legacy"}]]
  /\ cleanup \in [at : {"idle", "delete"}, stale : SUBSET Folders!Name,
                  sidecars : SUBSET {"id", "legacy"}, live : BOOLEAN, raced : BOOLEAN]
  /\ made \subseteq Process \cup {"first"}
  /\ overlap \in BOOLEAN
Held(n) == IF disk[n] = None THEN {} ELSE disk[n].review

OneMigrates == \A p, q \in Process : Folders!Migrating(p) /\ Folders!Migrating(q) => p = q
FlatIsAlone ==
  \A n \in {"id", "legacy"} : Folders!IsFile(n) =>
    /\ \A m \in {"id", "legacy"} \ {n} : ~Folders!Exists(m)
    /\ \A p \in Process : pc[p].at \in {"idle", "look", "wipe", "move", "failed"}
    /\ Held("tmp") = {} /\ Held(n) \subseteq {"first"}
WipesNothing == \A p \in Process : pc[p].at \in {"wipe", "move"} => Held("tmp") = {}
AllIsHeld ==
  /\ made = Held("id") \cup Held("legacy") \cup Held("tmp")
  /\ Held("legacy") \cup Held("tmp") \subseteq {"first"}
  /\ \A n, m \in Folders!Name : "first" \in Held(n) /\ "first" \in Held(m) => n = m
Owns(p, n) ==
  \/ pc[p].at = "failed"
  \/ pc[p].at = "side" /\ pc[p].flat = n
  \/ pc[p].at = "place" /\ ~Folders!IsDir("tmp")
LeftoversAreOwned ==
  /\ Folders!Exists("tmp") => \E p \in Process : pc[p].at \in {"move", "side", "place", "failed"}
  /\ \A n \in sidecar : Folders!IsFile(n) \/ \E p \in Process : Owns(p, n)
FoldersKept == OneMigrates /\ FlatIsAlone /\ WipesNothing /\ AllIsHeld /\ LeftoversAreOwned
FoldersClean ==
  /\ cleanup.live => session.file /\ session.alive /\ cleanup.stale \subseteq {"tmp"}
  /\ cleanup.at = "delete" /\ ~cleanup.raced =>
       \A n \in cleanup.stale : Folders!Exists(n) => disk[n].old
FoldersInv == FoldersTypes /\ (~overlap => FoldersKept) /\ FoldersClean

(* Files and folders are entries, and none of them is None.                *)
LEMMA FoldersEntries ==
  /\ None \notin FoldersEntry
  /\ \A r \in SUBSET (Process \cup {"first"}), snaps, old \in BOOLEAN :
       /\ Folders!Flat(r, old) \in FoldersEntry
       /\ Folders!Folder(r, snaps, old) \in FoldersEntry
       /\ Folders!Flat(r, old).kind = "file" /\ Folders!Flat(r, old).review = r
       /\ Folders!Folder(r, snaps, old).kind = "dir" /\ Folders!Folder(r, snaps, old).review = r
  BY ToolsAssumption DEF FoldersEntry, Folders!Flat, Folders!Folder

(* A flat review, a folder, or none at all.                                *)
LEMMA FoldersStart == Folders!Init => FoldersInv
  <1> SUFFICES ASSUME Folders!Init PROVE FoldersInv
    OBVIOUS
  <1>1. PICK old \in BOOLEAN, snaps \in BOOLEAN :
          /\ \/ disk = [n \in Folders!Name |-> CASE n = "id" -> Folders!Folder({"first"}, snaps, old)
                                                [] OTHER -> None]
             \/ disk = [n \in Folders!Name |-> CASE n = "legacy" -> Folders!Folder({"first"}, snaps, old)
                                                [] OTHER -> None]
             \/ \E at \in {"id", "legacy"} :
                  disk = [n \in Folders!Name |-> IF n = at THEN Folders!Flat({"first"}, old) ELSE None]
          /\ sidecar = {n \in {"id", "legacy"} : Folders!IsFile(n) /\ snaps}
    BY DEF Folders!Init
  <1>2. \E at \in {"id", "legacy"}, e \in FoldersEntry :
          /\ disk = [n \in Folders!Name |-> IF n = at THEN e ELSE None]
          /\ e.review = {"first"}
    <2>1. /\ Folders!Folder({"first"}, snaps, old) \in FoldersEntry
          /\ Folders!Flat({"first"}, old) \in FoldersEntry
          /\ Folders!Folder({"first"}, snaps, old).review = {"first"}
          /\ Folders!Flat({"first"}, old).review = {"first"}
      BY <1>1, FoldersEntries
    <2> QED
      BY <1>1, <2>1
  <1>3. PICK at \in {"id", "legacy"}, e \in FoldersEntry :
          /\ disk = [n \in Folders!Name |-> IF n = at THEN e ELSE None]
          /\ e.review = {"first"}
    BY <1>2
  <1>4. /\ disk[at] = e /\ e # None
        /\ \A n \in Folders!Name \ {at} : disk[n] = None
        /\ {"id", "legacy", "tmp"} = Folders!Name
    BY <1>3, FoldersEntries DEF Folders!Name
  <1>5. FoldersTypes
    <2>1. disk \in [Folders!Name -> FoldersEntry \cup {None}]
      BY <1>3
    <2>2. sidecar \subseteq {"id", "legacy"}
      BY <1>1
    <2>3. session \in [file : BOOLEAN, alive : BOOLEAN]
      <3>1. /\ [file : {TRUE}, alive : BOOLEAN] \subseteq [file : BOOLEAN, alive : BOOLEAN]
            /\ [file |-> FALSE, alive |-> FALSE] \in [file : BOOLEAN, alive : BOOLEAN]
        BY Zenon
      <3> QED
        BY <3>1, Zenon DEF Folders!Init
    <2>5. pc \in [Process -> [at : FoldersAts, flat : {"id", "legacy"}]]
      BY DEF Folders!Init, FoldersAts
    <2>4. cleanup \in [at : {"idle", "delete"}, stale : SUBSET Folders!Name,
                       sidecars : SUBSET {"id", "legacy"}, live : BOOLEAN, raced : BOOLEAN]
      BY DEF Folders!Init
    <2> QED
      BY <2>1, <2>2, <2>3, <2>4, <2>5 DEF FoldersTypes, Folders!Init
  <1>6. \A p \in Process : pc[p].at = "idle"
    BY DEF Folders!Init
  <1>7. OneMigrates /\ FlatIsAlone /\ WipesNothing
    BY <1>3, <1>4, <1>6 DEF OneMigrates, FlatIsAlone, WipesNothing, Folders!Migrating, Folders!IsFile,
      Folders!Exists, Held
  <1>8. AllIsHeld
    BY <1>3, <1>4 DEF AllIsHeld, Held, Folders!Init
  <1>9. LeftoversAreOwned
    BY <1>1, <1>4 DEF LeftoversAreOwned, Folders!Exists
  <1>10. FoldersClean
    BY DEF FoldersClean, Folders!Init
  <1> QED
    BY <1>5, <1>7, <1>8, <1>9, <1>10 DEF FoldersInv, FoldersKept

(* Goto moves one process.                                                 *)
LEMMA FoldersGoto ==
  ASSUME FoldersTypes, NEW p \in Process, NEW at \in FoldersAts, Folders!Goto(p, at)
  PROVE  /\ pc' \in [Process -> [at : FoldersAts, flat : {"id", "legacy"}]]
         /\ pc'[p] = [at |-> at, flat |-> pc[p].flat] /\ pc'[p].at = at /\ pc'[p].flat = pc[p].flat
         /\ \A q \in Process \ {p} : pc'[q] = pc[q]
  BY DEF FoldersTypes, Folders!Goto

(* A cleanup that is raced keeps what it has found.                        *)
LEMMA FoldersRaced ==
  ASSUME FoldersTypes, Folders!Raced
  PROVE  /\ cleanup' \in [at : {"idle", "delete"}, stale : SUBSET Folders!Name,
                           sidecars : SUBSET {"id", "legacy"}, live : BOOLEAN, raced : BOOLEAN]
         /\ cleanup'.raced /\ cleanup'.live = cleanup.live /\ cleanup'.stale = cleanup.stale
         /\ cleanup'.at = cleanup.at
  BY DEF FoldersTypes, Folders!Raced

(* A step of one process that changes nothing on disk.                     *)
LEMMA FoldersGoes ==
  ASSUME FoldersInv, NEW p \in Process, Folders!Begin(p) \/ Folders!Crash(p)
  PROVE  FoldersInv'
  <1> USE DEF FoldersInv
  <1> DEFINE at == IF Folders!Begin(p) THEN "look" ELSE "failed"
  <1>1. /\ pc' \in [Process -> [at : FoldersAts, flat : {"id", "legacy"}]]
        /\ pc'[p].at \in {"look", "failed"} /\ (pc'[p].at = "look" => pc[p].at = "idle")
        /\ \A q \in Process \ {p} : pc'[q] = pc[q]
    BY FoldersGoto DEF Folders!Begin, Folders!Crash, Folders!Fail, FoldersAts
  <1>2. UNCHANGED <<disk, sidecar, session, cleanup, made, overlap>>
    BY DEF Folders!Begin, Folders!Crash
  <1>3. FoldersTypes' /\ FoldersClean'
    BY <1>1, <1>2 DEF FoldersTypes, FoldersClean, Folders!Exists
  <1>4. ASSUME ~overlap PROVE FoldersKept'
    <2> USE <1>4 DEF FoldersKept
    <2>1. OneMigrates' /\ WipesNothing'
      BY <1>1, <1>2 DEF OneMigrates, WipesNothing, Folders!Migrating, Held
    <2>2. FlatIsAlone' /\ AllIsHeld'
      BY <1>1, <1>2 DEF FlatIsAlone, AllIsHeld, Held, Folders!IsFile, Folders!Exists
    <2>3. LeftoversAreOwned'
      BY <1>1, <1>2 DEF LeftoversAreOwned, Owns, Folders!IsFile, Folders!IsDir, Folders!Exists
    <2> QED
      BY <2>1, <2>2, <2>3
  <1> QED
    BY <1>2, <1>3, <1>4

(* ensureReviewFolder looks for a flat review, and makes a folder if there *)
(* is none.                                                                *)
LEMMA FoldersEnsures ==
  ASSUME FoldersInv, NEW p \in Process, Folders!EnsureReviewFolder(p)
  PROVE  FoldersInv'
  <1> USE DEF FoldersInv
  <1>0. /\ pc[p].at = "look"
        /\ UNCHANGED <<disk, sidecar, session, cleanup, made>>
        /\ overlap' = (overlap \/ \E q \in Process \ {p} : Folders!Migrating(q))
    BY DEF Folders!EnsureReviewFolder
  <1>1. /\ pc' \in [Process -> [at : FoldersAts, flat : {"id", "legacy"}]]
        /\ \A q \in Process \ {p} : pc'[q] = pc[q]
        /\ \/ pc'[p].at = "wipe" /\ Folders!IsFile(pc'[p].flat)
           \/ pc'[p].at \in {"make", "rename"} /\ ~Folders!IsFile("id")
              /\ (Folders!Exists("id") \/ ~Folders!IsFile("legacy"))
    <2>1. disk["id"] \in FoldersEntry \cup {None} /\ disk["legacy"] \in FoldersEntry \cup {None}
      BY DEF FoldersTypes, Folders!Name
    <2>2. CASE Folders!IsDir("id")
      <3>1. Folders!Goto(p, "make") /\ ~Folders!IsFile("id") /\ Folders!Exists("id")
        BY <2>2 DEF Folders!EnsureReviewFolder, Folders!IsDir, Folders!IsFile
      <3> QED
        BY <3>1, FoldersGoto DEF FoldersAts
    <2>3. CASE Folders!IsFile("id")
      <3>1. pc' = [pc EXCEPT ![p] = [at |-> "wipe", flat |-> "id"]]
        BY <2>3 DEF Folders!EnsureReviewFolder, Folders!IsDir, Folders!IsFile
      <3> QED
        BY <2>3, <3>1 DEF FoldersTypes, FoldersAts
    <2>4. CASE ~Folders!Exists("id") /\ Folders!IsDir("legacy")
      <3>1. Folders!Goto(p, "rename") /\ ~Folders!IsFile("id") /\ ~Folders!IsFile("legacy")
        BY <2>4 DEF Folders!EnsureReviewFolder, Folders!IsDir, Folders!IsFile
      <3> QED
        BY <3>1, FoldersGoto DEF FoldersAts
    <2>5. CASE ~Folders!Exists("id") /\ Folders!IsFile("legacy")
      <3>1. pc' = [pc EXCEPT ![p] = [at |-> "wipe", flat |-> "legacy"]]
        BY <2>5 DEF Folders!EnsureReviewFolder, Folders!IsDir, Folders!IsFile
      <3> QED
        BY <2>5, <3>1 DEF FoldersTypes, FoldersAts
    <2>6. CASE ~Folders!Exists("id") /\ ~Folders!Exists("legacy")
      <3>1. Folders!Goto(p, "make") /\ ~Folders!IsFile("id") /\ ~Folders!IsFile("legacy")
        BY <2>6 DEF Folders!EnsureReviewFolder, Folders!IsDir, Folders!IsFile
      <3> QED
        BY <3>1, FoldersGoto DEF FoldersAts
    <2> QED
      BY <2>1, <2>2, <2>3, <2>4, <2>5, <2>6 DEF FoldersEntry, Folders!IsDir, Folders!IsFile,
        Folders!Exists
  <1>2. overlap' \in BOOLEAN
    BY <1>0, Zenon
  <1>3. FoldersTypes' /\ FoldersClean'
    BY <1>0, <1>1, <1>2 DEF FoldersTypes, FoldersClean, Folders!Exists
  <1>4. ASSUME ~overlap' PROVE FoldersKept'
    <2> USE DEF FoldersKept
    <2>0. ~overlap /\ \A q \in Process \ {p} : ~Folders!Migrating(q)
      BY <1>0, <1>4
    <2>1. OneMigrates'
      BY <1>1, <2>0 DEF OneMigrates, Folders!Migrating
    <2>2. WipesNothing'
      BY <1>0, <1>1, <2>0 DEF WipesNothing, FlatIsAlone, Held, FoldersTypes
    <2>3. FlatIsAlone' /\ AllIsHeld'
      BY <1>0, <1>1, <2>0 DEF FlatIsAlone, AllIsHeld, Held, Folders!IsFile, Folders!Exists
    <2>4. LeftoversAreOwned'
      BY <1>0, <1>1, <2>0 DEF LeftoversAreOwned, Owns, Folders!IsFile, Folders!IsDir, Folders!Exists
    <2> QED
      BY <2>1, <2>2, <2>3, <2>4
  <1> QED
    BY <1>3, <1>4

(* A process that takes one name's place on disk for another's.            *)
LEMMA FoldersRename ==
  ASSUME FoldersInv, NEW p \in Process, Folders!RenameLegacyJSONFolder(p)
  PROVE  FoldersInv'
  <1> USE DEF FoldersInv
  <1>0. /\ pc[p].at = "rename" /\ Folders!Raced
        /\ UNCHANGED <<sidecar, session, made, overlap>>
    BY DEF Folders!RenameLegacyJSONFolder
  <1>1. CASE Folders!Exists("legacy") /\ Folders!CanReplace("id")
    <2> USE <1>1
    <2>1. /\ disk' = [disk EXCEPT !["id"] = disk["legacy"], !["legacy"] = None]
          /\ Folders!Goto(p, "make")
      BY DEF Folders!RenameLegacyJSONFolder
    <2>2. /\ pc' \in [Process -> [at : FoldersAts, flat : {"id", "legacy"}]]
          /\ pc'[p].at = "make"
          /\ \A q \in Process \ {p} : pc'[q] = pc[q]
      BY <2>1, FoldersGoto DEF FoldersAts
    <2>3. /\ disk' \in [Folders!Name -> FoldersEntry \cup {None}]
          /\ disk'["id"] = disk["legacy"] /\ disk'["legacy"] = None /\ disk'["tmp"] = disk["tmp"]
      BY <2>1 DEF FoldersTypes, Folders!Name
    <2>4. FoldersTypes' /\ FoldersClean'
      BY <1>0, <2>2, <2>3, FoldersRaced DEF FoldersTypes, FoldersClean
    <2>5. ASSUME ~overlap' PROVE FoldersKept'
      <3> USE <2>5 DEF FoldersKept
      <3>0. ~overlap /\ ~Folders!IsFile("id") /\ ~Folders!IsFile("legacy") /\ Held("id") = {}
        BY <1>0, FoldersEntries DEF FlatIsAlone, Folders!CanReplace, Folders!IsFile, Held, Folders!Exists
      <3>1. Held("id")' = Held("legacy") /\ Held("legacy")' = {} /\ Held("tmp")' = Held("tmp")
        BY <2>3 DEF Held
      <3>2. OneMigrates' /\ WipesNothing'
        BY <1>0, <2>2, <3>0, <3>1 DEF OneMigrates, WipesNothing, Folders!Migrating
      <3>3. FlatIsAlone'
        BY <2>3, <3>0 DEF FlatIsAlone, Folders!IsFile, Folders!Exists
      <3>4. AllIsHeld'
        BY <1>0, <3>0, <3>1 DEF AllIsHeld, Folders!Name
      <3>5. LeftoversAreOwned'
        <4>1. \A n \in sidecar : ~Folders!IsFile(n)
          BY <3>0 DEF FoldersTypes
        <4>2. \A q \in Process, n \in sidecar : Owns(q, n) => Owns(q, n)'
          BY <1>0, <2>2, <2>3 DEF Owns, Folders!IsDir, Folders!Exists
        <4>3. \A n \in sidecar : \E q \in Process : Owns(q, n)'
          BY <3>0, <4>1, <4>2 DEF LeftoversAreOwned
        <4>4. Folders!Exists("tmp")' => Folders!Exists("tmp")
          BY <2>3 DEF Folders!Exists
        <4>5. \A q \in Process : pc[q].at \in {"move", "side", "place", "failed"} => pc'[q].at = pc[q].at
          BY <1>0, <2>2
        <4> QED
          BY <1>0, <3>0, <4>3, <4>4, <4>5 DEF LeftoversAreOwned
      <3> QED
        BY <3>2, <3>3, <3>4, <3>5
    <2> QED
      BY <2>4, <2>5
  <1>2. CASE ~(Folders!Exists("legacy") /\ Folders!CanReplace("id"))
    <2> USE <1>2
    <2>1. UNCHANGED disk /\ Folders!Goto(p, "failed")
      BY DEF Folders!RenameLegacyJSONFolder, Folders!Fail
    <2>2. /\ pc' \in [Process -> [at : FoldersAts, flat : {"id", "legacy"}]]
          /\ pc'[p].at = "failed"
          /\ \A q \in Process \ {p} : pc'[q] = pc[q]
      BY <2>1, FoldersGoto DEF FoldersAts
    <2>3. FoldersTypes' /\ FoldersClean'
      BY <1>0, <2>1, <2>2, FoldersRaced DEF FoldersTypes, FoldersClean
    <2>4. ASSUME ~overlap' PROVE FoldersKept'
      <3> USE <2>4 DEF FoldersKept
      <3>1. OneMigrates' /\ WipesNothing'
        BY <1>0, <2>1, <2>2 DEF OneMigrates, WipesNothing, Folders!Migrating, Held
      <3>2. FlatIsAlone' /\ AllIsHeld'
        BY <1>0, <2>1, <2>2 DEF FlatIsAlone, AllIsHeld, Held, Folders!IsFile, Folders!Exists
      <3>3. LeftoversAreOwned'
        BY <1>0, <2>1, <2>2 DEF LeftoversAreOwned, Owns, Folders!IsFile, Folders!IsDir, Folders!Exists
      <3> QED
        BY <3>1, <3>2, <3>3
    <2> QED
      BY <2>3, <2>4
  <1> QED
    BY <1>1, <1>2

(* What a broken migration left in tmp goes, which is never the only copy. *)
LEMMA FoldersWipe ==
  ASSUME FoldersInv, NEW p \in Process, Folders!WipeAndMake(p)
  PROVE  FoldersInv'
  <1> USE DEF FoldersInv
  <1>0. /\ pc[p].at = "wipe" /\ Folders!Raced
        /\ UNCHANGED <<sidecar, session, made, overlap>>
        /\ disk' = [disk EXCEPT !["tmp"] = Folders!Folder({}, FALSE, FALSE)]
        /\ Folders!Goto(p, "move")
    BY DEF Folders!WipeAndMake
  <1>1. /\ pc' \in [Process -> [at : FoldersAts, flat : {"id", "legacy"}]]
        /\ pc'[p].at = "move"
        /\ \A q \in Process \ {p} : pc'[q] = pc[q]
    BY <1>0, FoldersGoto DEF FoldersAts
  <1>2. /\ disk' \in [Folders!Name -> FoldersEntry \cup {None}]
        /\ disk'["id"] = disk["id"] /\ disk'["legacy"] = disk["legacy"]
        /\ disk'["tmp"] = Folders!Folder({}, FALSE, FALSE)
    BY <1>0, FoldersEntries DEF FoldersTypes, Folders!Name
  <1>3. FoldersTypes' /\ FoldersClean'
    BY <1>0, <1>1, <1>2, FoldersRaced DEF FoldersTypes, FoldersClean
  <1>4. ASSUME ~overlap' PROVE FoldersKept'
    <2> USE <1>4 DEF FoldersKept
    <2>0. ~overlap /\ Held("tmp") = {}
      BY <1>0 DEF WipesNothing
    <2>1. Held("id")' = Held("id") /\ Held("legacy")' = Held("legacy") /\ Held("tmp")' = {}
      BY <1>2, FoldersEntries DEF Held
    <2>2. OneMigrates' /\ WipesNothing'
      BY <1>0, <1>1, <2>0, <2>1 DEF OneMigrates, WipesNothing, Folders!Migrating
    <2>3. FlatIsAlone'
      <3>1. \A n \in {"id", "legacy"} : (Folders!IsFile(n)' => Folders!IsFile(n)) /\ Held(n)' = Held(n)
        BY <1>2, <2>1 DEF Folders!IsFile, Folders!Exists
      <3>2. \A n \in {"id", "legacy"} : ~Folders!Exists(n) => ~Folders!Exists(n)'
        BY <1>2 DEF Folders!Exists
      <3>3. \A q \in Process : pc'[q].at = pc[q].at \/ pc'[q].at = "move"
        BY <1>1
      <3> QED
        BY <2>0, <2>1, <3>1, <3>2, <3>3 DEF FlatIsAlone
    <2>4. AllIsHeld'
      BY <1>0, <2>0, <2>1 DEF AllIsHeld, Folders!Name
    <2>5. \A q \in Process \ {p} : ~Folders!Migrating(q)
      BY <1>0, <2>0 DEF OneMigrates, Folders!Migrating
    <2>6. LeftoversAreOwned'
      <3>1. ASSUME NEW n \in sidecar PROVE Folders!IsFile(n)' \/ \E q \in Process : Owns(q, n)'
        <4>1. CASE Folders!IsFile(n)
          BY <1>2, <4>1 DEF Folders!IsFile, Folders!Exists, FoldersTypes
        <4>2. CASE ~Folders!IsFile(n)
          <5>1. PICK q \in Process : Owns(q, n)
            BY <2>0, <4>2 DEF LeftoversAreOwned
          <5>2. q # p /\ pc[q].at = "failed"
            BY <1>0, <2>5, <5>1 DEF Owns, Folders!Migrating
          <5> QED
            BY <1>1, <5>2 DEF Owns
        <4> QED
          BY <4>1, <4>2
      <3> QED
        BY <1>0, <1>1, <3>1 DEF LeftoversAreOwned
    <2> QED
      BY <2>2, <2>3, <2>4, <2>6
  <1> QED
    BY <1>3, <1>4

(* The flat review moves into tmp.                                         *)
LEMMA FoldersMove ==
  ASSUME FoldersInv, NEW p \in Process, Folders!MoveReview(p)
  PROVE  FoldersInv'
  <1> USE DEF FoldersInv
  <1> DEFINE f == pc[p].flat
  <1>0. /\ pc[p].at = "move" /\ Folders!Raced /\ f \in {"id", "legacy"}
        /\ UNCHANGED <<sidecar, session, made, overlap>>
    BY DEF Folders!MoveReview, FoldersTypes
  <1>1. CASE Folders!IsFile(f) /\ Folders!IsDir("tmp")
    <2> USE <1>1
    <2>1. /\ disk' = [disk EXCEPT !["tmp"].review = disk[f].review, !["tmp"].old = disk[f].old, ![f] = None]
          /\ Folders!Goto(p, "side")
      BY DEF Folders!MoveReview
    <2>2. /\ pc' \in [Process -> [at : FoldersAts, flat : {"id", "legacy"}]]
          /\ pc'[p].at = "side" /\ pc'[p].flat = f
          /\ \A q \in Process \ {p} : pc'[q] = pc[q]
      BY <2>1, FoldersGoto DEF FoldersAts
    <2>3. disk["tmp"] \in FoldersEntry /\ disk[f] \in FoldersEntry
      BY <1>0 DEF FoldersTypes, Folders!Name, Folders!IsDir, Folders!IsFile, Folders!Exists
    <2>4. /\ disk'["tmp"] = [kind |-> disk["tmp"].kind, review |-> disk[f].review, snaps |-> disk["tmp"].snaps,
                             old |-> disk[f].old]
          /\ disk'[f] = None
          /\ \A n \in Folders!Name \ {"tmp", f} : disk'[n] = disk[n]
      BY <1>0, <2>1, <2>3 DEF FoldersTypes, Folders!Name, FoldersEntry
    <2>5. disk'["tmp"] \in FoldersEntry /\ disk'["tmp"].kind = "dir" /\ disk'["tmp"].review = disk[f].review
      BY <2>3, <2>4 DEF FoldersEntry, Folders!IsDir
    <2>6. disk' \in [Folders!Name -> FoldersEntry \cup {None}]
      BY <1>0, <2>1, <2>4, <2>5 DEF FoldersTypes, Folders!Name
    <2>7. FoldersTypes' /\ FoldersClean'
      BY <1>0, <2>2, <2>6, FoldersRaced DEF FoldersTypes, FoldersClean
    <2>8. ASSUME ~overlap' PROVE FoldersKept'
      <3> USE <2>8 DEF FoldersKept
      <3>0. /\ ~overlap /\ Held("tmp") = {}
            /\ \A n \in {"id", "legacy"} \ {f} : disk[n] = None
            /\ \A q \in Process \ {p} : ~Folders!Migrating(q)
        BY <1>0 DEF WipesNothing, FlatIsAlone, Folders!Exists, OneMigrates, Folders!Migrating
      <3>1. /\ \A n \in {"id", "legacy"} : disk'[n] = None
            /\ Held("id")' = {} /\ Held("legacy")' = {} /\ Held("tmp")' = Held(f)
            /\ Held("id") \cup Held("legacy") = Held(f)
        BY <1>0, <2>3, <2>4, <2>5, <3>0, FoldersEntries DEF Held, Folders!Name
      <3>2. OneMigrates' /\ WipesNothing'
        BY <1>0, <2>2, <3>0, <3>1 DEF OneMigrates, WipesNothing, Folders!Migrating
      <3>3. FlatIsAlone'
        BY <3>1 DEF FlatIsAlone, Folders!IsFile, Folders!Exists
      <3>4. AllIsHeld'
        <4>1. Held(f) \subseteq {"first"}
          BY <1>0, <3>0 DEF FlatIsAlone
        <4> QED
          BY <1>0, <3>0, <3>1, <4>1 DEF AllIsHeld, Folders!Name
      <3>5. LeftoversAreOwned'
        <4>1. ASSUME NEW n \in sidecar PROVE \E q \in Process : Owns(q, n)'
          <5>1. CASE n = f
            BY <2>2, <5>1 DEF Owns
          <5>2. CASE n # f
            <6>1. ~Folders!IsFile(n)
              BY <3>0, <5>2 DEF FoldersTypes, Folders!IsFile, Folders!Exists
            <6>2. PICK q \in Process : Owns(q, n)
              BY <3>0, <6>1 DEF LeftoversAreOwned
            <6>3. q # p /\ pc[q].at = "failed"
              BY <1>0, <3>0, <6>2 DEF Owns, Folders!Migrating
            <6> QED
              BY <2>2, <6>3 DEF Owns
          <5> QED
            BY <5>1, <5>2
        <4> QED
          BY <1>0, <2>2, <4>1 DEF LeftoversAreOwned
      <3> QED
        BY <3>2, <3>3, <3>4, <3>5
    <2> QED
      BY <2>7, <2>8
  <1>2. CASE ~(Folders!IsFile(f) /\ Folders!IsDir("tmp"))
    <2> USE <1>2
    <2>1. disk' = [disk EXCEPT !["tmp"] = None] /\ Folders!Goto(p, "failed")
      BY DEF Folders!MoveReview, Folders!Fail
    <2>2. /\ pc' \in [Process -> [at : FoldersAts, flat : {"id", "legacy"}]]
          /\ pc'[p].at = "failed"
          /\ \A q \in Process \ {p} : pc'[q] = pc[q]
      BY <2>1, FoldersGoto DEF FoldersAts
    <2>3. /\ disk' \in [Folders!Name -> FoldersEntry \cup {None}]
          /\ disk'["id"] = disk["id"] /\ disk'["legacy"] = disk["legacy"] /\ disk'["tmp"] = None
      BY <2>1 DEF FoldersTypes, Folders!Name
    <2>4. FoldersTypes' /\ FoldersClean'
      BY <1>0, <2>2, <2>3, FoldersRaced DEF FoldersTypes, FoldersClean
    <2>5. ASSUME ~overlap' PROVE FoldersKept'
      <3> USE <2>5 DEF FoldersKept
      <3>0. ~overlap /\ Held("tmp") = {}
        BY <1>0 DEF WipesNothing
      <3>1. Held("id")' = Held("id") /\ Held("legacy")' = Held("legacy") /\ Held("tmp")' = {}
        BY <2>3 DEF Held
      <3>2. OneMigrates' /\ WipesNothing'
        BY <1>0, <2>2, <3>0, <3>1 DEF OneMigrates, WipesNothing, Folders!Migrating
      <3>3. FlatIsAlone'
        BY <1>0, <2>2, <2>3, <3>0, <3>1 DEF FlatIsAlone, Folders!IsFile, Folders!Exists
      <3>4. AllIsHeld'
        BY <1>0, <3>0, <3>1 DEF AllIsHeld, Folders!Name
      <3>5. LeftoversAreOwned'
        BY <2>2, <2>3 DEF LeftoversAreOwned, Owns, Folders!Exists
      <3> QED
        BY <3>2, <3>3, <3>4, <3>5
    <2> QED
      BY <2>4, <2>5
  <1> QED
    BY <1>1, <1>2

(* Its snapshots follow.                                                   *)
LEMMA FoldersSidecar ==
  ASSUME FoldersInv, NEW p \in Process, Folders!MoveSidecar(p)
  PROVE  FoldersInv'
  <1> USE DEF FoldersInv
  <1> DEFINE f == pc[p].flat
  <1>0. /\ pc[p].at = "side" /\ f \in {"id", "legacy"} /\ Folders!Goto(p, "place")
        /\ UNCHANGED <<session, cleanup, made, overlap>>
    BY DEF Folders!MoveSidecar, FoldersTypes
  <1>1. /\ pc' \in [Process -> [at : FoldersAts, flat : {"id", "legacy"}]]
        /\ pc'[p].at = "place" /\ pc'[p].flat = f
        /\ \A q \in Process \ {p} : pc'[q] = pc[q]
    BY <1>0, FoldersGoto DEF FoldersAts
  <1>2. CASE f \in sidecar /\ Folders!IsDir("tmp")
    <2>1. disk' = [disk EXCEPT !["tmp"].snaps = TRUE] /\ sidecar' = sidecar \ {f}
      BY <1>2 DEF Folders!MoveSidecar
    <2>2. disk["tmp"] \in FoldersEntry /\ disk["tmp"].kind = "dir"
      BY <1>2 DEF FoldersTypes, Folders!Name, Folders!IsDir, Folders!Exists
    <2>3. /\ disk'["tmp"] = [kind |-> "dir", review |-> disk["tmp"].review, snaps |-> TRUE,
                             old |-> disk["tmp"].old]
          /\ disk'["id"] = disk["id"] /\ disk'["legacy"] = disk["legacy"]
          /\ disk' = [n \in Folders!Name |-> disk'[n]]
      BY <2>1, <2>2 DEF FoldersTypes, Folders!Name, FoldersEntry
    <2>4. /\ disk'["tmp"] \in FoldersEntry /\ disk'["tmp"].review = disk["tmp"].review
          /\ disk'["tmp"].old = disk["tmp"].old /\ disk'["tmp"].kind = "dir"
      BY <2>2, <2>3 DEF FoldersEntry
    <2>5. disk' \in [Folders!Name -> FoldersEntry \cup {None}]
      <3>1. \A n \in Folders!Name : disk'[n] \in FoldersEntry \cup {None}
        BY <2>3, <2>4 DEF FoldersTypes, Folders!Name
      <3> QED
        BY <2>3, <3>1
    <2>6. FoldersTypes'
      BY <1>0, <1>1, <2>1, <2>5 DEF FoldersTypes
    <2>7. FoldersClean'
      <3>1. \A n \in Folders!Name : Folders!Exists(n)' => Folders!Exists(n) /\ disk'[n].old = disk[n].old
        BY <2>2, <2>3, <2>4, FoldersEntries DEF Folders!Name, Folders!Exists
      <3>2. cleanup.stale \subseteq Folders!Name
        BY DEF FoldersTypes
      <3> QED
        BY <1>0, <3>1, <3>2, Zenon DEF FoldersClean
    <2>8. ASSUME ~overlap' PROVE FoldersKept'
      <3> USE <2>8 DEF FoldersKept
      <3>0. /\ ~overlap /\ \A n \in {"id", "legacy"} : ~Folders!IsFile(n)
            /\ \A q \in Process \ {p} : ~Folders!Migrating(q)
        BY <1>0 DEF FlatIsAlone, OneMigrates, Folders!Migrating
      <3>1. \A n \in Folders!Name : Held(n)' = Held(n)
        <4>1. disk["tmp"] # None /\ disk'["tmp"] # None
          BY <2>2, <2>4, FoldersEntries
        <4> QED
          BY <2>3, <2>4, <4>1 DEF Held, Folders!Name
      <3>2. \A n \in {"id", "legacy"} : ~Folders!IsFile(n)'
        BY <2>3, <3>0 DEF Folders!IsFile, Folders!Exists
      <3>3. OneMigrates' /\ WipesNothing' /\ FlatIsAlone'
        BY <1>1, <3>0, <3>1, <3>2 DEF OneMigrates, WipesNothing, FlatIsAlone, Folders!Migrating,
          Folders!Name
      <3>4. AllIsHeld'
        BY <1>0, <3>0, <3>1 DEF AllIsHeld, Folders!Name
      <3>5. ASSUME NEW n \in sidecar' PROVE \E q \in Process : Owns(q, n)'
        <4>1. n \in sidecar /\ n # f /\ ~Folders!IsFile(n)
          BY <2>1, <3>0 DEF FoldersTypes
        <4>2. PICK q \in Process : Owns(q, n)
          BY <3>0, <4>1 DEF LeftoversAreOwned
        <4>3. q # p /\ pc[q].at = "failed"
          BY <1>0, <3>0, <4>1, <4>2 DEF Owns, Folders!Migrating
        <4> QED
          BY <1>1, <4>3 DEF Owns
      <3>6. LeftoversAreOwned'
        BY <1>1, <3>5 DEF LeftoversAreOwned
      <3> QED
        BY <3>3, <3>4, <3>6
    <2> QED
      BY <2>6, <2>7, <2>8
  <1>3. CASE ~(f \in sidecar /\ Folders!IsDir("tmp"))
    <2>1. UNCHANGED <<disk, sidecar>>
      BY <1>3 DEF Folders!MoveSidecar
    <2>2. FoldersTypes' /\ FoldersClean'
      BY <1>0, <1>1, <2>1 DEF FoldersTypes, FoldersClean, Folders!Exists
    <2>3. ASSUME ~overlap' PROVE FoldersKept'
      <3> USE <2>3 DEF FoldersKept
      <3>0. /\ ~overlap /\ \A n \in {"id", "legacy"} : ~Folders!IsFile(n)
            /\ \A q \in Process \ {p} : ~Folders!Migrating(q)
        BY <1>0 DEF FlatIsAlone, OneMigrates, Folders!Migrating
      <3>1. OneMigrates' /\ WipesNothing'
        BY <1>1, <2>1, <3>0 DEF OneMigrates, WipesNothing, Folders!Migrating, Held
      <3>2. FlatIsAlone' /\ AllIsHeld'
        BY <1>0, <2>1, <3>0 DEF FlatIsAlone, AllIsHeld, Held, Folders!IsFile, Folders!Exists
      <3>3. ASSUME NEW n \in sidecar PROVE \E q \in Process : Owns(q, n)'
        <4>1. PICK q \in Process : Owns(q, n)
          BY <3>0 DEF LeftoversAreOwned, FoldersTypes
        <4>2. CASE q = p
          <5>1. n = f /\ ~Folders!IsDir("tmp")
            BY <1>0, <1>3, <4>1, <4>2 DEF Owns
          <5> QED
            BY <1>1, <2>1, <5>1 DEF Owns, Folders!IsDir, Folders!Exists
        <4>3. CASE q # p
          BY <1>1, <3>0, <4>1, <4>3 DEF Owns, Folders!Migrating
        <4> QED
          BY <4>2, <4>3
      <3>4. LeftoversAreOwned'
        BY <1>1, <2>1, <3>3 DEF LeftoversAreOwned
      <3> QED
        BY <3>1, <3>2, <3>4
    <2> QED
      BY <2>2, <2>3
  <1> QED
    BY <1>2, <1>3

(* tmp becomes the folder.                                                 *)
LEMMA FoldersPlace ==
  ASSUME FoldersInv, NEW p \in Process, Folders!Place(p)
  PROVE  FoldersInv'
  <1> USE DEF FoldersInv
  <1>0. /\ pc[p].at = "place" /\ Folders!Raced
        /\ UNCHANGED <<sidecar, session, made, overlap>>
    BY DEF Folders!Place
  <1>1. CASE Folders!IsDir("tmp") /\ Folders!CanReplace("id")
    <2> USE <1>1
    <2>1. /\ disk' = [disk EXCEPT !["id"] = disk["tmp"], !["tmp"] = None]
          /\ Folders!Goto(p, "make")
      BY DEF Folders!Place
    <2>2. /\ pc' \in [Process -> [at : FoldersAts, flat : {"id", "legacy"}]]
          /\ pc'[p].at = "make"
          /\ \A q \in Process \ {p} : pc'[q] = pc[q]
      BY <2>1, FoldersGoto DEF FoldersAts
    <2>3. /\ disk' \in [Folders!Name -> FoldersEntry \cup {None}]
          /\ disk'["id"] = disk["tmp"] /\ disk'["tmp"] = None /\ disk'["legacy"] = disk["legacy"]
      BY <2>1 DEF FoldersTypes, Folders!Name
    <2>4. FoldersTypes' /\ FoldersClean'
      BY <1>0, <2>2, <2>3, FoldersRaced DEF FoldersTypes, FoldersClean
    <2>5. ASSUME ~overlap' PROVE FoldersKept'
      <3> USE <2>5 DEF FoldersKept
      <3>0. /\ ~overlap /\ ~Folders!IsFile("legacy") /\ ~Folders!IsFile("id") /\ Held("id") = {}
            /\ \A q \in Process \ {p} : ~Folders!Migrating(q)
        <4>1. ~overlap /\ ~Folders!IsFile("legacy") /\ ~Folders!IsFile("id")
          BY <1>0 DEF FlatIsAlone
        <4>2. Held("id") = {}
          BY FoldersEntries DEF Folders!CanReplace, Held, Folders!Exists
        <4>3. \A q \in Process \ {p} : ~Folders!Migrating(q)
          BY <1>0 DEF OneMigrates, Folders!Migrating
        <4> QED
          BY <4>1, <4>2, <4>3
      <3>1. Held("id")' = Held("tmp") /\ Held("tmp")' = {} /\ Held("legacy")' = Held("legacy")
        BY <2>3 DEF Held
      <3>2. OneMigrates' /\ WipesNothing'
        BY <1>0, <2>2, <3>0, <3>1 DEF OneMigrates, WipesNothing, Folders!Migrating
      <3>3. FlatIsAlone'
        <4>1. ~Folders!IsFile("legacy")' /\ ~Folders!IsFile("id")'
          BY <2>3, <3>0 DEF Folders!IsFile, Folders!IsDir, Folders!Exists
        <4> QED
          BY <4>1 DEF FlatIsAlone
      <3>4. AllIsHeld'
        BY <1>0, <3>0, <3>1 DEF AllIsHeld, Folders!Name
      <3>5. ASSUME NEW n \in sidecar PROVE \E q \in Process : Owns(q, n)'
        <4>1. PICK q \in Process : Owns(q, n)
          BY <3>0 DEF LeftoversAreOwned, FoldersTypes
        <4>2. q # p /\ pc[q].at = "failed"
          BY <1>0, <3>0, <4>1 DEF Owns, Folders!Migrating
        <4> QED
          BY <2>2, <4>2 DEF Owns
      <3>6. LeftoversAreOwned'
        BY <1>0, <2>3, <3>5 DEF LeftoversAreOwned, Folders!Exists
      <3> QED
        BY <3>2, <3>3, <3>4, <3>6
    <2> QED
      BY <2>4, <2>5
  <1>2. CASE ~(Folders!IsDir("tmp") /\ Folders!CanReplace("id"))
    <2> USE <1>2
    <2>1. UNCHANGED disk /\ Folders!Goto(p, "failed")
      BY DEF Folders!Place, Folders!Fail
    <2>2. /\ pc' \in [Process -> [at : FoldersAts, flat : {"id", "legacy"}]]
          /\ pc'[p].at = "failed"
          /\ \A q \in Process \ {p} : pc'[q] = pc[q]
      BY <2>1, FoldersGoto DEF FoldersAts
    <2>3. FoldersTypes' /\ FoldersClean'
      BY <1>0, <2>1, <2>2, FoldersRaced DEF FoldersTypes, FoldersClean
    <2>4. ASSUME ~overlap' PROVE FoldersKept'
      <3> USE <2>4 DEF FoldersKept
      <3>1. OneMigrates' /\ WipesNothing'
        BY <1>0, <2>1, <2>2 DEF OneMigrates, WipesNothing, Folders!Migrating, Held
      <3>2. FlatIsAlone' /\ AllIsHeld'
        BY <1>0, <2>1, <2>2 DEF FlatIsAlone, AllIsHeld, Held, Folders!IsFile, Folders!Exists
      <3>3. LeftoversAreOwned'
        BY <1>0, <2>1, <2>2 DEF LeftoversAreOwned, Owns
      <3> QED
        BY <3>1, <3>2, <3>3
    <2> QED
      BY <2>3, <2>4
  <1> QED
    BY <1>1, <1>2

(* A process saves into the folder it has.                                 *)
LEMMA FoldersSave ==
  ASSUME FoldersInv, NEW p \in Process, Folders!Save(p)
  PROVE  FoldersInv'
  <1> USE DEF FoldersInv
  <1> DEFINE r == (IF Folders!IsDir("id") THEN disk["id"].review ELSE {}) \cup {p}
             s == Folders!IsDir("id") /\ disk["id"].snaps
  <1>0. /\ pc[p].at = "make" /\ Folders!Raced /\ Folders!Goto(p, "done")
        /\ UNCHANGED <<sidecar, session, overlap>>
        /\ made' = made \cup {p}
        /\ disk' = [disk EXCEPT !["id"] = Folders!Folder(r, s, FALSE)]
    BY DEF Folders!Save
  <1>1. /\ pc' \in [Process -> [at : FoldersAts, flat : {"id", "legacy"}]]
        /\ pc'[p].at = "done"
        /\ \A q \in Process \ {p} : pc'[q] = pc[q]
    BY <1>0, FoldersGoto DEF FoldersAts
  <1>2. disk["id"] \in FoldersEntry \cup {None}
    BY DEF FoldersTypes, Folders!Name
  <1>3. r \in SUBSET (Process \cup {"first"})
    BY <1>2 DEF FoldersEntry, Folders!IsDir, Folders!Exists
  <1>4. s \in BOOLEAN
    BY Zenon
  <1>5. /\ Folders!Folder(r, s, FALSE) \in FoldersEntry
        /\ Folders!Folder(r, s, FALSE).review = r /\ Folders!Folder(r, s, FALSE).kind = "dir"
    BY <1>3, <1>4, FoldersEntries
  <1>6. /\ disk' \in [Folders!Name -> FoldersEntry \cup {None}]
        /\ disk'["id"] # None /\ disk'["id"].review = r /\ disk'["id"].kind = "dir"
        /\ disk'["legacy"] = disk["legacy"] /\ disk'["tmp"] = disk["tmp"]
    <2> HIDE DEF r, s
    <2>1. disk'["id"] = Folders!Folder(r, s, FALSE)
      BY <1>0 DEF FoldersTypes, Folders!Name
    <2> QED
      BY <1>0, <1>5, <2>1, FoldersEntries DEF FoldersTypes, Folders!Name
  <1> HIDE DEF s
  <1>7. FoldersTypes' /\ FoldersClean'
    BY <1>0, <1>1, <1>6, FoldersRaced DEF FoldersTypes, FoldersClean
  <1>8. ASSUME ~overlap' PROVE FoldersKept'
    <2> USE <1>8 DEF FoldersKept
    <2>0. ~overlap /\ \A n \in {"id", "legacy"} : ~Folders!IsFile(n)
      BY <1>0 DEF FlatIsAlone
    <2>1. r = Held("id") \cup {p}
      BY <1>2, <2>0 DEF FoldersEntry, Held, Folders!IsDir, Folders!IsFile, Folders!Exists
    <2> HIDE DEF r
    <2>2. Held("id")' = Held("id") \cup {p} /\ Held("legacy")' = Held("legacy") /\ Held("tmp")' = Held("tmp")
      BY <1>6, <2>1 DEF Held
    <2>3. OneMigrates' /\ WipesNothing'
      BY <1>0, <1>1, <2>0, <2>2 DEF OneMigrates, WipesNothing, Folders!Migrating
    <2>4. \A n \in {"id", "legacy"} : ~Folders!IsFile(n)'
      BY <1>6, <2>0 DEF Folders!IsFile, Folders!Exists
    <2>5. FlatIsAlone'
      BY <2>4 DEF FlatIsAlone
    <2>6. AllIsHeld'
      BY <1>0, <2>0, <2>2, ToolsAssumption DEF AllIsHeld, Folders!Name
    <2>7. LeftoversAreOwned'
      <3>1. \A q \in Process, n \in sidecar : Owns(q, n) => Owns(q, n)'
        BY <1>0, <1>1, <1>6 DEF Owns, Folders!IsDir, Folders!Exists
      <3>2. \A n \in sidecar : \E q \in Process : Owns(q, n)'
        BY <2>0, <3>1 DEF LeftoversAreOwned, FoldersTypes
      <3>3. \A q \in Process : pc[q].at \in {"move", "side", "place", "failed"} => pc'[q].at = pc[q].at
        BY <1>0, <1>1
      <3> QED
        BY <1>0, <1>6, <2>0, <3>2, <3>3 DEF LeftoversAreOwned, Folders!Exists
    <2> QED
      BY <2>3, <2>5, <2>6, <2>7
  <1> QED
    BY <1>7, <1>8

(* What leaves the review's files and the processes as they are keeps what *)
(* is true of them.                                                        *)
LEMMA FoldersStay ==
  ASSUME FoldersKept, UNCHANGED <<disk, pc, made>>, sidecar' \subseteq sidecar
  PROVE  FoldersKept'
  <1>1. OneMigrates' /\ WipesNothing' /\ FlatIsAlone' /\ AllIsHeld'
    BY DEF FoldersKept, OneMigrates, WipesNothing, FlatIsAlone, AllIsHeld, Folders!Migrating,
      Folders!IsFile, Folders!Exists, Held
  <1>2. LeftoversAreOwned'
    BY DEF FoldersKept, LeftoversAreOwned, Owns, Folders!IsFile, Folders!IsDir, Folders!Exists
  <1> QED
    BY <1>1, <1>2 DEF FoldersKept

(* A daemon starts or stops.                                               *)
LEMMA FoldersServed ==
  ASSUME FoldersInv, Folders!StartDaemon \/ Folders!StopDaemon
  PROVE  FoldersInv'
  <1> USE DEF FoldersInv
  <1>0. UNCHANGED <<disk, sidecar, pc, made, overlap>>
    BY DEF Folders!StartDaemon, Folders!StopDaemon
  <1>1. CASE Folders!StartDaemon
    <2>1. session' = [file |-> TRUE, alive |-> TRUE] /\ ~session.alive /\ Folders!Raced
      BY <1>1 DEF Folders!StartDaemon
    <2>2. session' \in [file : BOOLEAN, alive : BOOLEAN]
      BY <2>1
    <2>3. FoldersTypes' /\ FoldersClean'
      BY <1>0, <2>1, <2>2, FoldersRaced DEF FoldersTypes, FoldersClean
    <2> QED
      BY <1>0, <2>3, FoldersStay
  <1>2. CASE Folders!StopDaemon
    <2>1. session' \in [file : BOOLEAN, alive : {FALSE}] /\ cleanup' = [cleanup EXCEPT !.live = FALSE]
      BY <1>2 DEF Folders!StopDaemon
    <2>2. session' \in [file : BOOLEAN, alive : BOOLEAN]
      <3>1. [file : BOOLEAN, alive : {FALSE}] \subseteq [file : BOOLEAN, alive : BOOLEAN]
        BY Zenon
      <3> QED
        BY <2>1, <3>1
    <2>3. /\ cleanup' \in [at : {"idle", "delete"}, stale : SUBSET Folders!Name,
                           sidecars : SUBSET {"id", "legacy"}, live : BOOLEAN, raced : BOOLEAN]
          /\ ~cleanup'.live /\ cleanup'.stale = cleanup.stale /\ cleanup'.at = cleanup.at
          /\ cleanup'.raced = cleanup.raced
      BY <2>1 DEF FoldersTypes
    <2>4. FoldersTypes'
      BY <1>0, <2>2, <2>3 DEF FoldersTypes
    <2>5. FoldersClean'
      BY <1>0, <2>3 DEF FoldersClean, Folders!Exists
    <2> QED
      BY <1>0, <2>4, <2>5, FoldersStay
  <1> QED
    BY <1>1, <1>2

(* A cleanup looks for stale reviews.                                      *)
LEMMA FoldersFinds ==
  ASSUME FoldersInv, Folders!FindStaleReviews
  PROVE  FoldersInv'
  <1> USE DEF FoldersInv
  <1>0. UNCHANGED <<disk, sidecar, session, pc, made, overlap>>
    BY DEF Folders!FindStaleReviews
  <1> DEFINE found == {n \in Folders!Name :
                         /\ Folders!Exists(n) /\ ~Folders!ServesName(n)
                         /\ (Folders!CheckStaleReviewFolder(n) \/ Folders!CheckStaleReview(n))}
             live == session.file /\ session.alive
  <1>1. PICK others \in SUBSET sidecar :
          cleanup' = [at |-> "delete", raced |-> FALSE, live |-> live, sidecars |-> others,
                      stale |-> found]
    BY DEF Folders!FindStaleReviews
  <1>2. live \in BOOLEAN
    BY Zenon
  <1>3. /\ found \subseteq Folders!Name /\ \A n \in found : disk[n].old
        /\ live => session.file /\ session.alive /\ found \subseteq {"tmp"}
    BY DEF Folders!CheckStaleReviewFolder, Folders!CheckStaleReview, Folders!ServesName
  <1> HIDE DEF found, live
  <1>4. cleanup' \in [at : {"idle", "delete"}, stale : SUBSET Folders!Name,
                      sidecars : SUBSET {"id", "legacy"}, live : BOOLEAN, raced : BOOLEAN]
    BY <1>1, <1>2, <1>3 DEF FoldersTypes
  <1>5. cleanup'.live = live /\ cleanup'.stale = found
    BY <1>1
  <1>6. FoldersTypes' /\ FoldersClean'
    BY <1>0, <1>3, <1>4, <1>5 DEF FoldersTypes, FoldersClean, Folders!Exists
  <1> QED
    BY <1>0, <1>6, FoldersStay

(* It deletes one, unless a daemon has it.                                 *)
LEMMA FoldersDeletes ==
  ASSUME FoldersInv, NEW n \in Folders!Name, Folders!DeleteStaleReview(n)
  PROVE  FoldersInv'
  <1> USE DEF FoldersInv
  <1>0. /\ cleanup.at = "delete" /\ n \in cleanup.stale
        /\ cleanup' = [cleanup EXCEPT !.stale = @ \ {n}]
        /\ UNCHANGED <<pc, overlap>>
    BY DEF Folders!DeleteStaleReview
  <1>1. /\ cleanup' \in [at : {"idle", "delete"}, stale : SUBSET Folders!Name,
                         sidecars : SUBSET {"id", "legacy"}, live : BOOLEAN, raced : BOOLEAN]
        /\ cleanup'.live = cleanup.live /\ cleanup'.stale \subseteq cleanup.stale
        /\ cleanup'.at = cleanup.at /\ cleanup'.raced = cleanup.raced
    BY <1>0 DEF FoldersTypes
  <1>2. CASE Folders!Exists(n)
    <2>1. /\ disk' = [disk EXCEPT ![n] = None]
          /\ sidecar' = sidecar \ (IF Folders!IsFile(n) THEN {n} ELSE {})
          /\ session' = [session EXCEPT !.file = @ /\ n = "tmp"]
          /\ made' = made \ disk[n].review
      BY <1>2 DEF Folders!DeleteStaleReview
    <2>2. /\ disk' \in [Folders!Name -> FoldersEntry \cup {None}]
          /\ disk'[n] = None /\ \A m \in Folders!Name \ {n} : disk'[m] = disk[m]
      BY <2>1 DEF FoldersTypes
    <2>3. /\ session' \in [file : BOOLEAN, alive : BOOLEAN]
          /\ session'.alive = session.alive /\ (n = "tmp" => session'.file = session.file)
      <3>1. (session.file /\ n = "tmp") \in BOOLEAN
        BY Zenon
      <3>2. n = "tmp" => (session.file /\ n = "tmp") = session.file
        <4>1. session.file \in BOOLEAN
          BY DEF FoldersTypes
        <4> QED
          BY <4>1, Zenon
      <3> DEFINE b == session.file /\ n = "tmp"
      <3>3. session' = [session EXCEPT !.file = b]
        BY <2>1
      <3> HIDE DEF b
      <3>4. b \in BOOLEAN /\ (n = "tmp" => b = session.file)
        BY <3>1, <3>2 DEF b
      <3> QED
        BY <3>3, <3>4 DEF FoldersTypes
    <2>4. FoldersTypes'
      BY <1>0, <1>1, <2>1, <2>2, <2>3 DEF FoldersTypes
    <2>5. FoldersClean'
      <3>1. \A m \in Folders!Name : Folders!Exists(m)' => Folders!Exists(m) /\ disk'[m] = disk[m]
        BY <2>2 DEF Folders!Exists
      <3>2. cleanup'.live => session'.file /\ session'.alive /\ cleanup'.stale \subseteq {"tmp"}
        <4>1. cleanup.live => n = "tmp"
          BY <1>0 DEF FoldersClean
        <4> QED
          BY <1>1, <2>3, <4>1 DEF FoldersClean
      <3> QED
        BY <1>1, <3>1, <3>2 DEF FoldersClean, FoldersTypes
    <2>6. ASSUME ~overlap' PROVE FoldersKept'
      <3> USE <2>6 DEF FoldersKept
      <3>0. ~overlap /\ disk[n] # None
        BY <1>0, <1>2 DEF Folders!Exists
      <3>1. /\ Held(n)' = {} /\ made' = made \ Held(n)
            /\ \A m \in Folders!Name \ {n} : Held(m)' = Held(m)
        BY <2>1, <2>2, <3>0 DEF Held
      <3>2. OneMigrates' /\ WipesNothing'
        BY <1>0, <3>0, <3>1 DEF OneMigrates, WipesNothing, Folders!Migrating, Folders!Name
      <3>3. FlatIsAlone'
        <4>1. \A m \in Folders!Name : /\ Folders!IsFile(m)' => Folders!IsFile(m)
                                      /\ ~Folders!Exists(m) => ~Folders!Exists(m)'
                                      /\ Held(m)' \subseteq Held(m)
          BY <2>2, <3>1 DEF Folders!IsFile, Folders!Exists
        <4> QED
          BY <1>0, <3>0, <4>1 DEF FlatIsAlone, Folders!Name
      <3>4. AllIsHeld'
        <4>1. made' = Held("id")' \cup Held("legacy")' \cup Held("tmp")'
          <5>1. \A m \in Folders!Name \ {n} : Held(m) \cap Held(n) = {}
            BY <3>0 DEF AllIsHeld, Folders!Name
          <5> QED
            BY <3>0, <3>1, <5>1 DEF AllIsHeld, Folders!Name
        <4>2. \A m \in Folders!Name : Held(m)' \subseteq Held(m)
          BY <3>1
        <4> QED
          BY <3>0, <4>1, <4>2 DEF AllIsHeld, Folders!Name
      <3>5. LeftoversAreOwned'
        <4>1. Folders!Exists("tmp")' => Folders!Exists("tmp")
          BY <2>2 DEF Folders!Exists, Folders!Name
        <4>2. \A q \in Process, m \in sidecar : Owns(q, m) => Owns(q, m)'
          BY <1>0, <2>2 DEF Owns, Folders!IsDir, Folders!Exists, Folders!Name
        <4>3. \A m \in sidecar' : m \in sidecar /\ (Folders!IsFile(m) => Folders!IsFile(m)')
          <5>1. \A m \in sidecar' : m \in sidecar /\ m \in Folders!Name /\ (Folders!IsFile(m) => m # n)
            BY <2>1 DEF FoldersTypes, Folders!Name
          <5> QED
            BY <2>2, <5>1 DEF Folders!IsFile, Folders!Exists
        <4> QED
          BY <1>0, <3>0, <4>1, <4>2, <4>3 DEF LeftoversAreOwned
      <3> QED
        BY <3>2, <3>3, <3>4, <3>5
    <2> QED
      BY <2>4, <2>5, <2>6
  <1>3. CASE ~Folders!Exists(n)
    <2>1. UNCHANGED <<disk, sidecar, session, made>>
      BY <1>3 DEF Folders!DeleteStaleReview
    <2>2. FoldersTypes' /\ FoldersClean'
      BY <1>0, <1>1, <2>1 DEF FoldersTypes, FoldersClean, Folders!Exists
    <2> QED
      BY <1>0, <2>1, <2>2, FoldersStay
  <1> QED
    BY <1>2, <1>3

(* It deletes a sidecar, ends, or removes session files of dead daemons.   *)
LEMMA FoldersEnds ==
  ASSUME FoldersInv,
         \/ \E n \in Folders!Name : Folders!DeleteStaleSidecar(n)
         \/ Folders!RunCleanup \/ Folders!CleanOrphanedSessions
  PROVE  FoldersInv'
  <1> USE DEF FoldersInv
  <1>0. UNCHANGED <<disk, pc, made, overlap>> /\ sidecar' \subseteq sidecar
    BY DEF Folders!DeleteStaleSidecar, Folders!RunCleanup, Folders!CleanOrphanedSessions
  <1>1. /\ cleanup' \in [at : {"idle", "delete"}, stale : SUBSET Folders!Name,
                         sidecars : SUBSET {"id", "legacy"}, live : BOOLEAN, raced : BOOLEAN]
        /\ cleanup'.live = cleanup.live /\ cleanup'.stale \subseteq cleanup.stale
        /\ (cleanup'.at = "delete" => cleanup.at = "delete") /\ cleanup'.raced = cleanup.raced
    <2>1. CASE \E n \in Folders!Name : Folders!DeleteStaleSidecar(n)
      BY <2>1 DEF Folders!DeleteStaleSidecar, FoldersTypes
    <2>2. CASE Folders!RunCleanup
      BY <2>2 DEF Folders!RunCleanup, FoldersTypes
    <2>3. CASE Folders!CleanOrphanedSessions
      BY <2>3 DEF Folders!CleanOrphanedSessions, FoldersTypes
    <2> QED
      BY <2>1, <2>2, <2>3
  <1>2. /\ session' \in [file : BOOLEAN, alive : BOOLEAN]
        /\ session.file /\ session.alive => session'.file /\ session'.alive
    <2>1. CASE UNCHANGED session
      BY <2>1 DEF FoldersTypes
    <2>2. CASE Folders!CleanOrphanedSessions
      <3> DEFINE b == session.file /\ session.alive
      <3>1. session' = [session EXCEPT !.file = b] /\ b \in BOOLEAN /\ (session.file /\ session.alive => b)
        <4>1. session' = [session EXCEPT !.file = b]
          BY <2>2 DEF Folders!CleanOrphanedSessions
        <4>2. b \in BOOLEAN
          BY Zenon
        <4> QED
          BY <4>1, <4>2
      <3> HIDE DEF b
      <3> QED
        BY <3>1 DEF FoldersTypes
    <2> QED
      BY <2>1, <2>2 DEF Folders!DeleteStaleSidecar, Folders!RunCleanup
  <1>3. FoldersTypes'
    BY <1>0, <1>1, <1>2 DEF FoldersTypes
  <1>4. FoldersClean'
    BY <1>0, <1>1, <1>2 DEF FoldersClean, Folders!Exists
  <1> QED
    BY <1>0, <1>3, <1>4, FoldersStay

(* Every step of ReviewFolders keeps FoldersInv.                           *)
LEMMA FoldersHold == ASSUME FoldersInv, Folders!Next PROVE FoldersInv'
  BY FoldersGoes, FoldersEnsures, FoldersRename, FoldersWipe, FoldersMove, FoldersSidecar,
    FoldersPlace, FoldersSave, FoldersServed, FoldersFinds, FoldersDeletes, FoldersEnds, Zenon
    DEF Folders!Next

(* FoldersInv reads the variables of ReviewFolders only.                   *)
LEMMA FoldersStutter == ASSUME FoldersInv, UNCHANGED Folders!vars PROVE FoldersInv'
  <1>1. FoldersTypes' /\ FoldersClean'
    BY DEF FoldersInv, Folders!vars, FoldersTypes, FoldersClean, Folders!Exists
  <1> QED
    BY <1>1, FoldersStay DEF FoldersInv, Folders!vars

(* FoldersInv is strong enough.                                            *)
LEMMA FoldersSurvive == FoldersInv => Folders!ReviewSurvives
  <1> SUFFICES ASSUME FoldersInv, ~overlap PROVE Folders!ReviewSurvives
    BY DEF Folders!ReviewSurvives
  <1> USE DEF FoldersInv, FoldersKept
  <1>1. made = UNION {disk[n].review : n \in {m \in Folders!Name : Folders!Exists(m)}}
    <2> DEFINE all == UNION {disk[n].review : n \in {m \in Folders!Name : Folders!Exists(m)}}
    <2>1. ASSUME NEW c \in made PROVE c \in all
      <3>1. PICK n \in Folders!Name : c \in Held(n)
        BY DEF AllIsHeld, Folders!Name
      <3>2. Folders!Exists(n) /\ c \in disk[n].review
        BY <3>1 DEF Held, Folders!Exists
      <3> QED
        BY <3>2
    <2>2. ASSUME NEW c \in all PROVE c \in made
      <3>1. PICK n \in Folders!Name : Folders!Exists(n) /\ c \in disk[n].review
        OBVIOUS
      <3>2. c \in Held(n)
        BY <3>1 DEF Held, Folders!Exists
      <3> QED
        BY <3>2 DEF AllIsHeld, Folders!Name
    <2> QED
      BY <2>1, <2>2
  <1>2. (\A p \in Process : ~Folders!Migrating(p) /\ pc[p].at # "failed")
          => ~Folders!Exists("tmp") /\ \A n \in sidecar : Folders!IsFile(n)
    BY DEF LeftoversAreOwned, Owns, Folders!Migrating
  <1> QED
    BY <1>1, <1>2 DEF Folders!ReviewSurvives

(* A step of a process is no cleanup's.                                    *)
LEMMA FoldersMoves ==
  ASSUME FoldersInv, NEW p \in Process,
         \/ Folders!Begin(p) \/ Folders!EnsureReviewFolder(p) \/ Folders!RenameLegacyJSONFolder(p)
         \/ Folders!WipeAndMake(p) \/ Folders!MoveReview(p) \/ Folders!MoveSidecar(p)
         \/ Folders!Place(p) \/ Folders!Save(p) \/ Folders!Crash(p)
  PROVE  pc' # pc
  <1>1. CASE Folders!EnsureReviewFolder(p)
    <2>1. \/ \E at \in {"make", "rename"} : Folders!Goto(p, at)
          \/ \E f \in {"id", "legacy"} : pc' = [pc EXCEPT ![p] = [at |-> "wipe", flat |-> f]]
      BY <1>1, Zenon DEF Folders!EnsureReviewFolder
    <2>2. pc'[p].at # "look"
      BY <2>1 DEF Folders!Goto, FoldersInv, FoldersTypes
    <2> QED
      BY <1>1, <2>2 DEF Folders!EnsureReviewFolder
  <1>2. CASE \E from, to \in FoldersAts : pc[p].at = from /\ Folders!Goto(p, to) /\ from # to
    BY <1>2, FoldersGoto, ZenonT(30) DEF FoldersInv
  <1> USE DEF FoldersAts
  <1>3. CASE Folders!Begin(p)
    BY <1>2, <1>3 DEF Folders!Begin
  <1>4. CASE Folders!RenameLegacyJSONFolder(p)
    BY <1>2, <1>4 DEF Folders!RenameLegacyJSONFolder, Folders!Fail
  <1>5. CASE Folders!WipeAndMake(p)
    BY <1>2, <1>5 DEF Folders!WipeAndMake
  <1>6. CASE Folders!MoveReview(p)
    BY <1>2, <1>6 DEF Folders!MoveReview, Folders!Fail
  <1>7. CASE Folders!MoveSidecar(p)
    BY <1>2, <1>7 DEF Folders!MoveSidecar
  <1>8. CASE Folders!Place(p)
    BY <1>2, <1>8 DEF Folders!Place, Folders!Fail
  <1>9. CASE Folders!Save(p)
    BY <1>2, <1>9 DEF Folders!Save
  <1>10. CASE Folders!Crash(p)
    BY <1>2, <1>10 DEF Folders!Crash, Folders!Fail, Folders!Migrating
  <1> QED
    BY <1>1, <1>3, <1>4, <1>5, <1>6, <1>7, <1>8, <1>9, <1>10

(* A cleanup that found a daemon alive takes nothing of its review.        *)
LEMMA FoldersSpareTheLive ==
  ASSUME FoldersInv, Folders!Next \/ UNCHANGED Folders!vars
  PROVE  Folders!CleanupSparesTheLive
  <1> SUFFICES ASSUME cleanup.at = "delete", cleanup' # cleanup, pc' = pc
               PROVE  /\ cleanup.live /\ session'.alive =>
                           /\ disk'["id"] = disk["id"] /\ disk'["legacy"] = disk["legacy"]
                           /\ session'.file = session.file
                      /\ ~cleanup.raced =>
                           \A n \in Folders!Name : Folders!Exists(n) /\ disk'[n] = None => disk[n].old
    BY DEF Folders!CleanupSparesTheLive
  <1> USE DEF FoldersInv
  <1>1. CASE Folders!StartDaemon
    BY <1>1 DEF Folders!StartDaemon, FoldersClean, Folders!Exists
  <1>2. CASE Folders!StopDaemon
    <2>1. ~session'.alive /\ UNCHANGED disk
      BY <1>2 DEF Folders!StopDaemon
    <2> QED
      BY <2>1 DEF Folders!Exists
  <1>3. CASE Folders!RunCleanup \/ \E n \in Folders!Name : Folders!DeleteStaleSidecar(n)
    BY <1>3 DEF Folders!RunCleanup, Folders!DeleteStaleSidecar, Folders!Exists
  <1>4. CASE Folders!CleanOrphanedSessions
    <2> DEFINE b == session.file /\ session.alive
    <2>1. session' = [session EXCEPT !.file = b] /\ UNCHANGED disk
      BY <1>4 DEF Folders!CleanOrphanedSessions
    <2>2. cleanup.live => b = session.file
      <3>1. session.file \in BOOLEAN
        BY DEF FoldersTypes
      <3>2. cleanup.live => session.file /\ session.alive
        BY DEF FoldersClean
      <3> QED
        BY <3>1, <3>2, Zenon
    <2> HIDE DEF b
    <2>3. session'.file = b
      BY <2>1 DEF FoldersTypes
    <2> QED
      BY <2>1, <2>2, <2>3 DEF Folders!Exists
  <1>5. ASSUME NEW n \in Folders!Name, Folders!DeleteStaleReview(n)
        PROVE  /\ cleanup.live /\ session'.alive =>
                    /\ disk'["id"] = disk["id"] /\ disk'["legacy"] = disk["legacy"]
                    /\ session'.file = session.file
               /\ ~cleanup.raced =>
                    \A m \in Folders!Name : Folders!Exists(m) /\ disk'[m] = None => disk[m].old
    <2>0. n \in cleanup.stale
      BY <1>5 DEF Folders!DeleteStaleReview
    <2>1. CASE Folders!Exists(n)
      <3> DEFINE b == session.file /\ n = "tmp"
      <3>1. /\ disk' = [disk EXCEPT ![n] = None] /\ session' = [session EXCEPT !.file = b]
        BY <1>5, <2>1 DEF Folders!DeleteStaleReview
      <3>2. \A m \in Folders!Name \ {n} : disk'[m] = disk[m]
        BY <3>1 DEF FoldersTypes
      <3>3. cleanup.live => n = "tmp" /\ b = session.file
        <4>1. session.file \in BOOLEAN
          BY DEF FoldersTypes
        <4>2. cleanup.live => n = "tmp"
          BY <2>0 DEF FoldersClean
        <4> QED
          BY <4>1, <4>2, Zenon
      <3> HIDE DEF b
      <3>4. session'.file = b
        BY <3>1 DEF FoldersTypes
      <3>5. ~cleanup.raced => disk[n].old
        BY <2>0, <2>1 DEF FoldersClean
      <3> QED
        BY <3>2, <3>3, <3>4, <3>5 DEF Folders!Exists, Folders!Name
    <2>2. CASE ~Folders!Exists(n)
      BY <1>5, <2>2 DEF Folders!DeleteStaleReview, Folders!Exists
    <2> QED
      BY <2>1, <2>2
  <1>6. CASE Folders!FindStaleReviews \/ UNCHANGED Folders!vars
    BY <1>6 DEF Folders!FindStaleReviews, Folders!vars
  <1>7. \A p \in Process : ~(\/ Folders!Begin(p) \/ Folders!EnsureReviewFolder(p)
                             \/ Folders!RenameLegacyJSONFolder(p) \/ Folders!WipeAndMake(p)
                             \/ Folders!MoveReview(p) \/ Folders!MoveSidecar(p)
                             \/ Folders!Place(p) \/ Folders!Save(p) \/ Folders!Crash(p))
    BY FoldersMoves
  <1> QED
    BY <1>1, <1>2, <1>3, <1>4, <1>5, <1>6, <1>7, Zenon DEF Folders!Next
------------------------------------------------------------------------------
(* Root.  Who builds a worktree holds the lock, and the server has none    *)
(* meanwhile; the worktree it builds is the only thing in the directory.   *)
RootAts == {"idle", "sync", "stale", "add", "checkout", "stamp", "root", "manager", "answer"}
RootBuilding == {"stale", "add", "checkout", "stamp"}
RootLooks == {"root", "manager", "answer"}
RootPatterns == {{}, {"go"}, {"go", "py"}}
RootRoots == {"tree", "worktree", None}
RootCheckout == [sha : Commit \cup {None}, patterns : RootPatterns, whole : BOOLEAN]
RootDiskSet == [at : RootCheckout \cup {None}, known : BOOLEAN]
RootLspSet == [dir : BOOLEAN, sha : Commit \cup {None}, patterns : RootPatterns, prov : RootRoots,
               timer : BOOLEAN, fired : BOOLEAN, holder : Request \cup {None}]
RootReqSet == [at : RootAts, sha : Commit \cup {None}, patterns : RootPatterns, root : RootRoots,
               prov : RootRoots, steady : BOOLEAN]
RootHistSet == [torn : BOOLEAN, cleared : BOOLEAN, left : BOOLEAN, dangling : BOOLEAN]
RootTypes ==
  /\ focus \in [head : Commit \cup {None}, patterns : RootPatterns]
  /\ lsp \in RootLspSet /\ disk \in RootDiskSet /\ hist \in RootHistSet
  /\ req \in [Request -> RootReqSet]
  /\ acts \in Int

RootHeld ==
  /\ \A r \in Request : req[r].at \in RootBuilding <=> lsp.holder = r
  /\ lsp.holder # None => ~lsp.dir /\ lsp.prov = None /\ \A r \in Request : ~req[r].steady
RootServes ==
  /\ lsp.dir => lsp.timer \/ lsp.fired
  /\ lsp.prov # None => lsp.prov = Root!LspRoot(lsp)
  /\ lsp.dir /\ ~hist.torn /\ ~hist.cleared =>
       disk.at = Root!Checkout(lsp.sha, lsp.patterns, TRUE) /\ disk.known
RootBuilt(r, whole) ==
  req[r].sha \in Commit /\ (disk.at = None \/ (disk.at = Root!Checkout(req[r].sha, req[r].patterns, whole)
                                               /\ disk.known))
RootBuilds ==
  \A r \in Request : /\ req[r].at = "add" => disk.at = None
                     /\ req[r].at = "checkout" => RootBuilt(r, FALSE)
                     /\ req[r].at = "stamp" => RootBuilt(r, TRUE)
RootLeft ==
  /\ disk.at = Root!Foreign => ~disk.known
  /\ lsp.holder = None /\ Root!IsCheckout(disk) /\ ~hist.left => lsp.dir
  /\ disk.at = None /\ disk.known => hist.dangling
RootSeen(r) ==
  /\ focus.head = None => ~lsp.dir
  /\ focus.head # None => lsp.dir /\ lsp.sha = focus.head /\ lsp.patterns = req[r].patterns
  /\ req[r].at # "root" => req[r].root = Root!LspRoot(lsp)
  /\ req[r].at = "answer" => req[r].prov = Root!LspRoot(lsp)
RootSees == \A r \in Request : req[r].at \in RootLooks /\ req[r].steady => RootSeen(r)
RootInv == RootTypes /\ RootHeld /\ RootServes /\ RootBuilds /\ RootLeft /\ RootSees

(* Checkouts are not None, and never the folder that is not crit's.        *)
LEMMA RootCheckouts ==
  /\ Root!Foreign \in RootCheckout /\ Root!Foreign # None /\ None \notin Commit /\ None \notin Request
  /\ \A sha \in Commit, patterns \in RootPatterns, whole \in BOOLEAN :
       /\ Root!Checkout(sha, patterns, whole) \in RootCheckout
       /\ Root!Checkout(sha, patterns, whole) # None
       /\ Root!Checkout(sha, patterns, whole) # Root!Foreign
  /\ \A sha \in Commit, patterns \in RootPatterns :
       [Root!Checkout(sha, patterns, FALSE) EXCEPT !.whole = TRUE] = Root!Checkout(sha, patterns, TRUE)
  <1>1. None \notin RootCheckout /\ None \notin Commit /\ None \notin Request
    BY ToolsAssumption DEF RootCheckout, RootPatterns
  <1>2. Root!Foreign \in RootCheckout
    BY DEF RootCheckout, RootPatterns, Root!Foreign, Root!Checkout
  <1>3. \A sha \in Commit, patterns \in RootPatterns, whole \in BOOLEAN :
          /\ Root!Checkout(sha, patterns, whole) \in RootCheckout
          /\ Root!Checkout(sha, patterns, whole).sha = sha
    BY DEF RootCheckout, Root!Checkout
  <1>4. Root!Foreign.sha = None
    BY DEF Root!Foreign, Root!Checkout
  <1>5. \A sha \in Commit, patterns \in RootPatterns :
          [Root!Checkout(sha, patterns, FALSE) EXCEPT !.whole = TRUE] = Root!Checkout(sha, patterns, TRUE)
    <2> SUFFICES ASSUME NEW sha \in Commit, NEW patterns \in RootPatterns
                 PROVE  [[sha |-> sha, patterns |-> patterns, whole |-> FALSE] EXCEPT !.whole = TRUE]
                          = [sha |-> sha, patterns |-> patterns, whole |-> TRUE]
      BY DEF Root!Checkout
    <2> DEFINE c == [sha |-> sha, patterns |-> patterns, whole |-> FALSE]
               t == [sha : Commit, patterns : RootPatterns, whole : BOOLEAN]
    <2>1. c \in t /\ c.sha = sha /\ c.patterns = patterns
      OBVIOUS
    <2> HIDE DEF c
    <2> DEFINE d == [c EXCEPT !.whole = TRUE]
    <2>2. d \in t /\ d.sha = sha /\ d.patterns = patterns /\ d.whole = TRUE
      BY <2>1
    <2> HIDE DEF d
    <2>3. d = [sha |-> sha, patterns |-> patterns, whole |-> TRUE]
      BY <2>2
    <2> QED
      BY <2>3 DEF c, d
  <1>6. \A sha \in Commit, patterns \in RootPatterns, whole \in BOOLEAN :
          /\ Root!Checkout(sha, patterns, whole) # None
          /\ Root!Checkout(sha, patterns, whole) # Root!Foreign
    BY <1>1, <1>3, <1>4
  <1> QED
    BY <1>1, <1>2, <1>3, <1>5, <1>6

(* No worktree, or one left by an earlier daemon.                          *)
LEMMA RootStarts == Root!Init => RootInv
  <1> SUFFICES ASSUME Root!Init PROVE RootInv
    OBVIOUS
  <1>1. /\ focus \in [head : Commit \cup {None}, patterns : RootPatterns]
        /\ lsp = Root!NoRoot /\ req = [r \in Request |-> Root!Waiting] /\ acts = 0
    BY DEF Root!Init, RootPatterns
  <1>2. lsp \in RootLspSet
    BY <1>1 DEF RootLspSet, Root!NoRoot, RootPatterns, RootRoots
  <1>3. \A r \in Request : req[r] \in RootReqSet /\ req[r].at = "idle" /\ ~req[r].steady
    BY <1>1 DEF RootReqSet, Root!Waiting, RootPatterns, RootRoots, RootAts
  <1>4. disk \in RootDiskSet /\ (disk.at = Root!Foreign => ~disk.known)
    <2>1. CASE disk = Root!Nothing
      BY <2>1, RootCheckouts DEF RootDiskSet, Root!Nothing
    <2>2. CASE disk = [at |-> Root!Foreign, known |-> FALSE]
      BY <2>2, RootCheckouts DEF RootDiskSet
    <2>3. CASE disk = [at |-> None, known |-> TRUE]
      BY <2>3, RootCheckouts DEF RootDiskSet
    <2>4. CASE disk \in [at : [sha : Commit, patterns : {{"go"}}, whole : BOOLEAN], known : {TRUE}]
      <3>1. disk \in RootDiskSet /\ disk.at.sha \in Commit
        BY <2>4 DEF RootDiskSet, RootCheckout, RootPatterns
      <3>2. Root!Foreign.sha = None
        BY DEF Root!Foreign, Root!Checkout
      <3> QED
        BY <3>1, <3>2, RootCheckouts
    <2> QED
      <3>1. \/ disk \in {Root!Nothing, [at |-> Root!Foreign, known |-> FALSE], [at |-> None, known |-> TRUE]}
            \/ disk \in [at : [sha : Commit, patterns : {{"go"}}, whole : BOOLEAN], known : {TRUE}]
        BY DEF Root!Init
      <3> QED
        BY <2>1, <2>2, <2>3, <2>4, <3>1
  <1> DEFINE left == Root!IsCheckout(disk)
             dangling == disk.at = None /\ disk.known
  <1>5. hist = [torn |-> FALSE, cleared |-> FALSE, left |-> left, dangling |-> dangling]
    BY DEF Root!Init, Root!NoHist
  <1>6. left \in BOOLEAN /\ dangling \in BOOLEAN
    BY Zenon DEF Root!IsCheckout
  <1>7. RootTypes
    <2> HIDE DEF left, dangling
    <2>1. hist \in RootHistSet
      BY <1>5, <1>6 DEF RootHistSet
    <2> QED
      BY <1>1, <1>2, <1>3, <1>4, <2>1 DEF RootTypes
  <1>8. lsp.holder = None /\ ~lsp.dir /\ lsp.prov = None
    BY <1>1 DEF Root!NoRoot
  <1>9. RootHeld /\ RootServes /\ RootBuilds /\ RootSees
    BY <1>3, <1>8, RootCheckouts DEF RootHeld, RootServes, RootBuilds, RootSees, RootBuilding, RootLooks
  <1>10. RootLeft
    BY <1>4, <1>5, <1>8 DEF RootLeft
  <1> QED
    BY <1>7, <1>9, <1>10 DEF RootInv

(* The requests, when the lock's holder or its worktree stay as they are.  *)
LEMMA RootGoto ==
  ASSUME RootTypes, NEW r \in Request, NEW at \in RootAts, Root!Goto(r, at)
  PROVE  /\ req' \in [Request -> RootReqSet]
         /\ req'[r] = [req[r] EXCEPT !.at = at]
         /\ req'[r].at = at /\ req'[r].sha = req[r].sha /\ req'[r].patterns = req[r].patterns
         /\ req'[r].steady = req[r].steady
         /\ \A q \in Request \ {r} : req'[q] = req[q]
  <1>1. req[r] \in RootReqSet
    BY DEF RootTypes
  <1>2. req'[r] = [req[r] EXCEPT !.at = at] /\ \A q \in Request \ {r} : req'[q] = req[q]
    BY DEF RootTypes, Root!Goto
  <1>3. /\ [req[r] EXCEPT !.at = at] \in RootReqSet /\ [req[r] EXCEPT !.at = at].at = at
        /\ [req[r] EXCEPT !.at = at].sha = req[r].sha /\ [req[r] EXCEPT !.at = at].patterns = req[r].patterns
        /\ [req[r] EXCEPT !.at = at].steady = req[r].steady
    BY <1>1 DEF RootReqSet
  <1>4. req' = [q \in Request |-> req'[q]]
    BY DEF RootTypes, Root!Goto
  <1>5. req' \in [Request -> RootReqSet]
    BY <1>2, <1>3, <1>4 DEF RootTypes
  <1> QED
    BY <1>2, <1>3, <1>5

(* removeWorktree either takes the directory or leaves it as it is.        *)
LEMMA RootRemoves ==
  ASSUME disk \in RootDiskSet, NEW own, NEW works, NEW o \in Root!RemoveWorktree(own, works)
  PROVE  /\ o.disk \in RootDiskSet /\ o.ok \in BOOLEAN
         /\ o.disk = disk \/ o.disk.at = None
         /\ o.ok => o.disk.at = None
         /\ disk.at = None => o.disk = disk /\ o.ok
         /\ disk.at # None /\ o.ok => ~o.disk.known
         /\ ~own /\ ~disk.known => o.disk = disk
  <1>1. CASE disk.at = None
    <2>1. o = [disk |-> disk, ok |-> TRUE]
      BY <1>1, Zenon DEF Root!RemoveWorktree
    <2>2. o.disk = disk /\ o.ok = TRUE
      BY <2>1
    <2> QED
      BY <1>1, <2>2
  <1>2. CASE disk.at # None
    <2>1. \/ o = [disk |-> disk, ok |-> FALSE]
          \/ (own \/ disk.known) /\ o = [disk |-> Root!Nothing, ok |-> TRUE]
          \/ (own \/ disk.known) /\ o = [disk |-> [disk EXCEPT !.at = None], ok |-> FALSE]
      BY <1>2, Zenon DEF Root!RemoveWorktree
    <2>2. Root!Nothing \in RootDiskSet /\ Root!Nothing.at = None /\ ~Root!Nothing.known
      BY DEF Root!Nothing, RootDiskSet
    <2>3. [disk EXCEPT !.at = None] \in RootDiskSet /\ [disk EXCEPT !.at = None].at = None
      BY DEF RootDiskSet
    <2>4. \/ o.disk = disk /\ o.ok = FALSE
          \/ (own \/ disk.known) /\ o.disk = Root!Nothing /\ o.ok = TRUE
          \/ (own \/ disk.known) /\ o.disk = [disk EXCEPT !.at = None] /\ o.ok = FALSE
      BY <2>1
    <2> DEFINE emptied == [disk EXCEPT !.at = None]
    <2> HIDE DEF emptied, Root!Nothing
    <2>5. \/ o.disk = disk /\ o.ok = FALSE
          \/ (own \/ disk.known) /\ o.disk = Root!Nothing /\ o.ok = TRUE
          \/ (own \/ disk.known) /\ o.disk = emptied /\ o.ok = FALSE
      BY <2>4 DEF emptied
    <2>6. emptied \in RootDiskSet /\ emptied.at = None
      BY <2>3 DEF emptied
    <2> QED
      BY <1>2, <2>2, <2>5, <2>6
  <1> QED
    BY <1>1, <1>2

(* What is left behind is recorded.                                        *)
LEMMA RootLeaves ==
  ASSUME RootTypes, NEW d \in RootDiskSet, NEW ok \in BOOLEAN, Root!Leaves(d, ok)
  PROVE  /\ disk' = d /\ hist' \in RootHistSet /\ ~hist'.torn /\ ~hist'.cleared
         /\ hist'.left <=> Root!IsCheckout(d) /\ (hist.left \/ ~ok)
         /\ hist'.dangling <=> d.at = None /\ d.known /\ (hist.dangling \/ ~ok)
  <1> DEFINE left == Root!IsCheckout(d) /\ (hist.left \/ ~ok)
             dangling == d.at = None /\ d.known /\ (hist.dangling \/ ~ok)
  <1>1. disk' = d /\ hist' = [torn |-> FALSE, cleared |-> FALSE, left |-> left, dangling |-> dangling]
    BY DEF Root!Leaves
  <1>2. left \in BOOLEAN /\ dangling \in BOOLEAN
    BY Zenon
  <1> HIDE DEF left, dangling
  <1>3. hist' \in RootHistSet /\ ~hist'.torn /\ ~hist'.cleared /\ hist'.left = left /\ hist'.dangling = dangling
    BY <1>1, <1>2 DEF RootHistSet
  <1> QED
    BY <1>1, <1>3 DEF left, dangling

(* dropRoot forgets the worktree, whether it could be removed or not.      *)
LEMMA RootDrops ==
  ASSUME RootInv, NEW holder \in Request \cup {None}, NEW fired \in BOOLEAN,
         Root!DropRoot(holder, fired), lsp.holder = None
  PROVE  /\ lsp' \in RootLspSet /\ ~lsp'.dir /\ lsp'.prov = None /\ lsp'.holder = holder
         /\ disk' \in RootDiskSet /\ hist' \in RootHistSet /\ ~hist'.torn /\ ~hist'.cleared
         /\ disk' = disk \/ disk'.at = None
         /\ Root!IsCheckout(disk') => hist'.left
         /\ disk'.at = None /\ disk'.known => hist'.dangling
         /\ disk.at = Root!Foreign => disk' = disk
  <1> USE DEF RootInv
  <1>1. lsp' = [Root!NoRoot EXCEPT !.holder = holder, !.fired = fired]
    BY DEF Root!DropRoot
  <1>2. lsp' \in RootLspSet /\ ~lsp'.dir /\ lsp'.prov = None /\ lsp'.holder = holder
    BY <1>1 DEF Root!NoRoot, RootLspSet, RootPatterns, RootRoots
  <1>3. CASE lsp.dir
    <2>1. PICK o \in Root!RemoveWorktree(FALSE, Root!Runs) : Root!Leaves(o.disk, o.ok)
      BY <1>3 DEF Root!DropRoot
    <2>2. /\ o.disk \in RootDiskSet /\ o.ok \in BOOLEAN
          /\ o.disk = disk \/ o.disk.at = None
          /\ o.ok => o.disk.at = None
          /\ disk.at = None => o.disk = disk /\ o.ok
          /\ disk.at # None /\ o.ok => ~o.disk.known
          /\ ~disk.known => o.disk = disk
      BY RootRemoves DEF RootTypes
    <2>3. /\ disk' = o.disk /\ hist' \in RootHistSet /\ ~hist'.torn /\ ~hist'.cleared
          /\ hist'.left <=> Root!IsCheckout(o.disk) /\ (hist.left \/ ~o.ok)
          /\ hist'.dangling <=> o.disk.at = None /\ o.disk.known /\ (hist.dangling \/ ~o.ok)
      BY <2>1, <2>2, RootLeaves
    <2>4. Root!IsCheckout(disk') => hist'.left
      BY <2>2, <2>3 DEF Root!IsCheckout
    <2>5. disk'.at = None /\ disk'.known => hist'.dangling
      BY <2>2, <2>3 DEF RootLeft
    <2>6. disk.at = Root!Foreign => disk' = disk
      BY <2>2, <2>3 DEF RootLeft
    <2> QED
      BY <1>2, <2>2, <2>3, <2>4, <2>5, <2>6
  <1>4. CASE ~lsp.dir
    <2>1. Root!Leaves(disk, TRUE) /\ disk \in RootDiskSet
      BY <1>4 DEF Root!DropRoot, RootTypes
    <2>2. /\ disk' = disk /\ hist' \in RootHistSet /\ ~hist'.torn /\ ~hist'.cleared
          /\ hist'.left <=> Root!IsCheckout(disk) /\ hist.left
          /\ hist'.dangling <=> disk.at = None /\ disk.known /\ hist.dangling
      BY <2>1, RootLeaves
    <2>3. Root!IsCheckout(disk') => hist'.left
      BY <1>4, <2>2 DEF RootLeft
    <2> QED
      BY <1>2, <2>1, <2>2, <2>3 DEF RootLeft
  <1> QED
    BY <1>3, <1>4

(* A look at the worktree arms its timer again.                            *)
LEMMA RootTouches ==
  ASSUME RootTypes, lsp' = Root!Touched(lsp)
  PROVE  /\ lsp' \in RootLspSet /\ lsp'.timer /\ lsp'.dir = lsp.dir /\ lsp'.prov = lsp.prov
         /\ lsp'.holder = lsp.holder /\ lsp'.sha = lsp.sha /\ lsp'.patterns = lsp.patterns
         /\ lsp'.fired = lsp.fired
  <1>1. lsp' = [lsp EXCEPT !.timer = TRUE]
    BY DEF Root!Touched
  <1> QED
    BY <1>1 DEF RootTypes, RootLspSet

(* A request that looks nowhere is no matter.                              *)
LEMMA RootIdles ==
  ASSUME RootInv, NEW r \in Request, Root!Asks(r) \/ Root!Responds(r)
  PROVE  RootInv'
  <1> USE DEF RootInv
  <1>1. PICK x \in RootReqSet : req' = [req EXCEPT ![r] = x] /\ x.at \in {"idle", "sync"} /\ ~x.steady
    <2> DEFINE going == [Root!Waiting EXCEPT !.at = "sync"]
    <2>1. Root!Waiting \in RootReqSet /\ Root!Waiting.at = "idle" /\ ~Root!Waiting.steady
      BY DEF Root!Waiting, RootReqSet, RootAts, RootPatterns, RootRoots
    <2>2. going \in RootReqSet /\ going.at = "sync" /\ ~going.steady
      BY <2>1 DEF RootReqSet, RootAts
    <2>3. req' = [req EXCEPT ![r] = going] \/ req' = [req EXCEPT ![r] = Root!Waiting]
      BY DEF Root!Asks, Root!Responds
    <2> HIDE DEF going
    <2> QED
      BY <2>1, <2>2, <2>3
  <1>2. UNCHANGED <<focus, lsp, disk, hist, acts>> /\ req[r].at \in {"idle", "answer"}
    BY DEF Root!Asks, Root!Responds
  <1>3. /\ req' \in [Request -> RootReqSet] /\ req'[r].at \in {"idle", "sync"} /\ ~req'[r].steady
        /\ \A q \in Request \ {r} : req'[q] = req[q]
    BY <1>1 DEF RootTypes
  <1>4. RootTypes'
    BY <1>2, <1>3 DEF RootTypes
  <1>5. RootHeld'
    BY <1>2, <1>3 DEF RootHeld, RootBuilding
  <1>6. RootBuilds'
    BY <1>2, <1>3 DEF RootBuilds, RootBuilt
  <1>7. RootServes' /\ RootLeft'
    BY <1>2 DEF RootServes, RootLeft, Root!LspRoot, Root!IsCheckout
  <1>8. RootSees'
    BY <1>2, <1>3 DEF RootSees, RootSeen, RootLooks, Root!LspRoot
  <1> QED
    BY <1>4, <1>5, <1>6, <1>7, <1>8

(* The worktree there is that of this head.                                *)
LEMMA RootReuses ==
  ASSUME RootInv, NEW r \in Request, Root!Reuses(r)
  PROVE  RootInv'
  <1> USE DEF RootInv
  <1>1. /\ req[r].at = "sync" /\ lsp.holder = None /\ UNCHANGED <<focus, disk, hist, acts>>
        /\ req' = [req EXCEPT ![r].at = "root", ![r].patterns = focus.patterns, ![r].steady = TRUE]
    BY DEF Root!Reuses, Root!Free
  <1>2. /\ lsp' \in RootLspSet /\ lsp'.dir = lsp.dir /\ lsp'.prov = lsp.prov
        /\ lsp'.holder = lsp.holder /\ lsp'.sha = lsp.sha /\ lsp'.patterns = lsp.patterns
        /\ lsp'.timer \/ lsp'.timer = lsp.timer
        /\ lsp'.fired = lsp.fired
        /\ focus.head = None => ~lsp.dir
        /\ focus.head # None => lsp.dir /\ lsp.sha = focus.head /\ lsp.patterns = focus.patterns
    <2>1. CASE focus.head = None
      BY <2>1 DEF Root!Reuses, RootTypes
    <2>2. CASE focus.head # None
      BY <2>2, RootTouches DEF Root!Reuses
    <2> QED
      BY <2>1, <2>2
  <1>3. /\ req' \in [Request -> RootReqSet] /\ req'[r].at = "root" /\ req'[r].patterns = focus.patterns
        /\ \A q \in Request \ {r} : req'[q] = req[q]
    <2>1. req[r] \in RootReqSet /\ focus.patterns \in RootPatterns
      BY DEF RootTypes
    <2> DEFINE x == [req[r] EXCEPT !.at = "root", !.patterns = focus.patterns, !.steady = TRUE]
    <2>2. x \in RootReqSet /\ x.at = "root" /\ x.patterns = focus.patterns
      BY <2>1 DEF RootReqSet, RootAts
    <2>3. req' = [req EXCEPT ![r] = x]
      BY <1>1 DEF RootTypes
    <2> HIDE DEF x
    <2> QED
      BY <2>2, <2>3 DEF RootTypes
  <1>4. RootTypes'
    BY <1>1, <1>2, <1>3 DEF RootTypes
  <1>5. RootHeld'
    <2>1. \A q \in Request : (req'[q].at \in RootBuilding) = (req[q].at \in RootBuilding)
      BY <1>1, <1>3 DEF RootBuilding
    <2> QED
      BY <1>1, <1>2, <2>1 DEF RootHeld
  <1>6. RootBuilds'
    BY <1>1, <1>3 DEF RootBuilds, RootBuilt
  <1>7. RootServes'
    BY <1>1, <1>2 DEF RootServes, Root!LspRoot
  <1>8. RootLeft'
    BY <1>1, <1>2 DEF RootLeft, Root!IsCheckout
  <1>9. RootSees'
    <2>1. RootSeen(r)'
      BY <1>1, <1>2, <1>3 DEF RootSeen
    <2>2. \A q \in Request \ {r} : RootSeen(q) => RootSeen(q)'
      BY <1>1, <1>2, <1>3 DEF RootSeen, Root!LspRoot
    <2> QED
      BY <1>3, <2>1, <2>2 DEF RootSees
  <1> QED
    BY <1>4, <1>5, <1>6, <1>7, <1>8, <1>9

(* One that gives the worktree up, which the others learn.                 *)
LEMMA RootGivesUp ==
  ASSUME RootInv, NEW r \in Request, Root!Returns(r) \/ Root!Rebuilds(r)
  PROVE  RootInv'
  <1> USE DEF RootInv
  <1> DEFINE holder == IF focus.head = None THEN None ELSE r
             at == IF focus.head = None THEN "root" ELSE "stale"
  <1>1. /\ req[r].at = "sync" /\ lsp.holder = None /\ UNCHANGED <<focus, acts>>
        /\ Root!DropRoot(holder, lsp.fired)
    BY DEF Root!Returns, Root!Rebuilds, Root!Free
  <1>2. holder \in Request \cup {None} /\ lsp.fired \in BOOLEAN
    BY DEF RootTypes, RootLspSet
  <1>3. /\ lsp' \in RootLspSet /\ ~lsp'.dir /\ lsp'.prov = None /\ lsp'.holder = holder
        /\ disk' \in RootDiskSet /\ hist' \in RootHistSet
        /\ disk' = disk \/ disk'.at = None
        /\ Root!IsCheckout(disk') => hist'.left
        /\ disk'.at = None /\ disk'.known => hist'.dangling
        /\ disk.at = Root!Foreign => disk' = disk
    <2> HIDE DEF holder
    <2> QED
      BY <1>1, <1>2, RootDrops
  <1>4. /\ req' \in [Request -> RootReqSet] /\ req'[r].at = at
        /\ (focus.head # None => ~req'[r].steady)
        /\ \A q \in Request \ {r} : ~req'[q].steady /\ req'[q].at = req[q].at
    <2>1. CASE Root!Returns(r)
      <3>0. focus.head = None /\ at = "root"
        BY <2>1 DEF Root!Returns
      <3> DEFINE x(q) == [req[q] EXCEPT !.steady = q = r, !.at = IF q = r THEN "root" ELSE req[q].at]
      <3>1. req' = [q \in Request |-> x(q)]
        BY <2>1 DEF Root!Returns
      <3>2. ASSUME NEW q \in Request
            PROVE  /\ x(q) \in RootReqSet /\ x(q).at = (IF q = r THEN "root" ELSE req[q].at)
                   /\ q # r => ~x(q).steady
        <4>1. req[q] \in RootReqSet /\ (q = r) \in BOOLEAN
          BY Zenon DEF RootTypes
        <4> DEFINE b == q = r
                   a == IF b THEN "root" ELSE req[q].at
        <4>2. a \in RootAts /\ b \in BOOLEAN
          BY <4>1 DEF RootReqSet, RootAts
        <4> HIDE DEF a, b
        <4>3. /\ [req[q] EXCEPT !.steady = b, !.at = a] \in RootReqSet
              /\ [req[q] EXCEPT !.steady = b, !.at = a].at = a
              /\ [req[q] EXCEPT !.steady = b, !.at = a].steady = b
          BY <4>1, <4>2 DEF RootReqSet
        <4> QED
          BY <4>3 DEF a, b
      <3> HIDE DEF x
      <3> QED
        BY <3>0, <3>1, <3>2
    <2>2. CASE Root!Rebuilds(r)
      <3>0. focus.head # None /\ at = "stale"
        BY <2>2 DEF Root!Rebuilds
      <3> DEFINE x(q) == [req[q] EXCEPT !.steady = FALSE, !.at = IF q = r THEN "stale" ELSE req[q].at,
                            !.patterns = IF q = r THEN focus.patterns ELSE req[q].patterns]
      <3>1. req' = [q \in Request |-> x(q)]
        BY <2>2 DEF Root!Rebuilds
      <3>2. ASSUME NEW q \in Request
            PROVE  /\ x(q) \in RootReqSet /\ x(q).at = (IF q = r THEN "stale" ELSE req[q].at)
                   /\ ~x(q).steady
        <4> DEFINE p == IF q = r THEN focus.patterns ELSE req[q].patterns
                   a == IF q = r THEN "stale" ELSE req[q].at
        <4>1. req[q] \in RootReqSet /\ focus.patterns \in RootPatterns
          BY DEF RootTypes
        <4>2. a \in RootAts /\ p \in RootPatterns
          BY <4>1 DEF RootReqSet, RootAts
        <4> HIDE DEF a, p
        <4>3. /\ [req[q] EXCEPT !.steady = FALSE, !.at = a, !.patterns = p] \in RootReqSet
              /\ [req[q] EXCEPT !.steady = FALSE, !.at = a, !.patterns = p].at = a
              /\ ~[req[q] EXCEPT !.steady = FALSE, !.at = a, !.patterns = p].steady
          BY <4>1, <4>2 DEF RootReqSet
        <4> QED
          BY <4>3 DEF a, p
      <3> HIDE DEF x
      <3> QED
        BY <3>0, <3>1, <3>2
    <2> QED
      BY <2>1, <2>2
  <1>5. RootTypes'
    BY <1>1, <1>3, <1>4 DEF RootTypes
  <1>6. \A q \in Request : req[q].at \notin RootBuilding
    BY <1>1, RootCheckouts DEF RootHeld
  <1>7. RootHeld'
    <2>1. \A q \in Request : req'[q].at \in RootBuilding <=> lsp'.holder = q
      BY <1>3, <1>4, <1>6, RootCheckouts DEF RootBuilding
    <2> QED
      BY <1>3, <1>4, <2>1 DEF RootHeld
  <1>8. RootBuilds'
    BY <1>4, <1>6 DEF RootBuilds, RootBuilding
  <1>9. RootServes'
    BY <1>3 DEF RootServes
  <1>10. RootLeft'
    BY <1>3, RootCheckouts DEF RootLeft
  <1>11. RootSees'
    BY <1>1, <1>3, <1>4, <1>6 DEF RootSees, RootSeen, RootLooks
  <1> QED
    BY <1>5, <1>7, <1>8, <1>9, <1>10, <1>11

(* A step of the one that builds, who may give up.                         *)
LEMMA RootBuildsOn ==
  ASSUME RootInv, NEW r \in Request, req[r].at \in RootBuilding, UNCHANGED <<focus, acts>>,
         req' \in [Request -> RootReqSet], \A q \in Request \ {r} : req'[q] = req[q], ~req'[r].steady,
         \/ req'[r].at \in RootBuilding /\ lsp' = lsp
         \/ req'[r].at = "idle" /\ lsp' = [lsp EXCEPT !.holder = None],
         disk' \in RootDiskSet, hist' \in RootHistSet,
         disk'.at = Root!Foreign => ~disk'.known,
         req'[r].at = "idle" /\ Root!IsCheckout(disk') => hist'.left,
         disk'.at = None /\ disk'.known => hist'.dangling,
         req'[r].at = "add" => disk'.at = None,
         req'[r].at = "checkout" => RootBuilt(r, FALSE)',
         req'[r].at = "stamp" => RootBuilt(r, TRUE)'
  PROVE  RootInv'
  <1> USE DEF RootInv
  <1>1. /\ lsp' \in RootLspSet /\ lsp'.dir = lsp.dir /\ lsp'.prov = lsp.prov
        /\ lsp'.holder = (IF req'[r].at = "idle" THEN None ELSE lsp.holder)
    BY DEF RootTypes, RootLspSet, RootBuilding
  <1>2. /\ lsp.holder = r /\ ~lsp.dir /\ lsp.prov = None /\ \A q \in Request : ~req[q].steady
        /\ \A q \in Request \ {r} : req[q].at \notin RootBuilding
    BY RootCheckouts DEF RootHeld
  <1>3. RootTypes'
    BY <1>1 DEF RootTypes
  <1>4. RootHeld'
    <2>1. \A q \in Request : req'[q].at \in RootBuilding <=> lsp'.holder = q
      BY <1>1, <1>2, RootCheckouts DEF RootBuilding
    <2>2. \A q \in Request : ~req'[q].steady
      BY <1>2
    <2> QED
      BY <1>1, <1>2, <2>1, <2>2 DEF RootHeld
  <1>5. RootBuilds'
    <2>1. \A q \in Request \ {r} : req'[q].at \notin {"add", "checkout", "stamp"}
      BY <1>2 DEF RootBuilding
    <2> QED
      BY <2>1 DEF RootBuilds, RootBuilt
  <1>6. RootServes'
    BY <1>1, <1>2 DEF RootServes
  <1>7. RootLeft'
    BY <1>1, <1>2, RootCheckouts DEF RootLeft
  <1>8. RootSees'
    BY <1>2 DEF RootSees
  <1> QED
    BY <1>3, <1>4, <1>5, <1>6, <1>7, <1>8

(* The builder removes what is in the way.                                 *)
LEMMA RootClearsStale ==
  ASSUME RootInv, NEW r \in Request, Root!ClearsStale(r)
  PROVE  RootInv'
  <1> USE DEF RootInv
  <1>1. PICK o \in Root!RemoveWorktree(FALSE, Root!Runs) :
          /\ Root!Leaves(o.disk, o.ok)
          /\ \/ o.ok /\ Root!Goto(r, "add") /\ lsp' = lsp
             \/ Root!Goto(r, "idle") /\ lsp' = [lsp EXCEPT !.holder = None]
    BY DEF Root!ClearsStale, Root!Fails
  <1>2. req[r].at = "stale" /\ UNCHANGED <<focus, acts>>
    BY DEF Root!ClearsStale
  <1>3. /\ o.disk \in RootDiskSet /\ o.ok \in BOOLEAN
        /\ o.disk = disk \/ o.disk.at = None
        /\ o.ok => o.disk.at = None
        /\ disk.at = None => o.disk = disk /\ o.ok
        /\ disk.at # None /\ o.ok => ~o.disk.known
        /\ ~disk.known => o.disk = disk
    BY RootRemoves DEF RootTypes
  <1>4. /\ disk' = o.disk /\ hist' \in RootHistSet
        /\ hist'.left <=> Root!IsCheckout(o.disk) /\ (hist.left \/ ~o.ok)
        /\ hist'.dangling <=> o.disk.at = None /\ o.disk.known /\ (hist.dangling \/ ~o.ok)
    BY <1>1, <1>3, RootLeaves
  <1>5. /\ disk'.at = Root!Foreign => ~disk'.known
        /\ Root!IsCheckout(disk') => hist'.left
        /\ disk'.at = None /\ disk'.known => hist'.dangling
        /\ o.ok => disk'.at = None
    BY <1>3, <1>4, RootCheckouts DEF RootLeft, Root!IsCheckout
  <1>6. ~req[r].steady
    BY <1>2, RootCheckouts DEF RootHeld, RootBuilding
  <1>7. /\ req' \in [Request -> RootReqSet] /\ ~req'[r].steady /\ \A q \in Request \ {r} : req'[q] = req[q]
        /\ \/ req'[r].at = "add" /\ lsp' = lsp /\ o.ok
           \/ req'[r].at = "idle" /\ lsp' = [lsp EXCEPT !.holder = None]
    BY <1>1, <1>6, RootGoto DEF RootAts
  <1> QED
    BY <1>2, <1>3, <1>4, <1>5, <1>7, RootBuildsOn DEF RootBuilding

(* git worktree add.                                                       *)
LEMMA RootAdds ==
  ASSUME RootInv, NEW r \in Request, Root!Adds(r)
  PROVE  RootInv'
  <1> USE DEF RootInv
  <1>1. req[r].at = "add" /\ UNCHANGED <<focus, acts>> /\ disk.at = None
    BY DEF Root!Adds, RootBuilds
  <1>2. ~req[r].steady
    BY <1>1, RootCheckouts DEF RootHeld, RootBuilding
  <1>3. CASE Root!Fails(r) /\ UNCHANGED <<disk, hist>>
    <2>1. Root!Goto(r, "idle") /\ lsp' = [lsp EXCEPT !.holder = None]
      BY <1>3 DEF Root!Fails
    <2>2. /\ req' \in [Request -> RootReqSet] /\ ~req'[r].steady /\ req'[r].at = "idle"
          /\ \A q \in Request \ {r} : req'[q] = req[q]
      BY <1>2, <2>1, RootGoto DEF RootAts
    <2>3. disk' \in RootDiskSet /\ hist' \in RootHistSet
      BY <1>3 DEF RootTypes
    <2>4. /\ disk'.at = Root!Foreign => ~disk'.known
          /\ ~Root!IsCheckout(disk')
          /\ disk'.at = None /\ disk'.known => hist'.dangling
      BY <1>1, <1>3 DEF RootLeft, Root!IsCheckout
    <2> QED
      BY <1>1, <2>1, <2>2, <2>3, <2>4, RootBuildsOn DEF RootBuilding
  <1>4. CASE ~(Root!Fails(r) /\ UNCHANGED <<disk, hist>>)
    <2> DEFINE c == Root!Checkout(focus.head, req[r].patterns, FALSE)
               d == [at |-> c, known |-> TRUE]
    <2>1. /\ focus.head # None /\ Root!Leaves(d, TRUE) /\ lsp' = lsp
          /\ req' = [req EXCEPT ![r].at = "checkout", ![r].sha = focus.head]
      BY <1>4 DEF Root!Adds
    <2>2. focus.head \in Commit /\ req[r] \in RootReqSet /\ req[r].patterns \in RootPatterns
      BY <2>1 DEF RootTypes, RootReqSet
    <2>3. c \in RootCheckout /\ c # None /\ c # Root!Foreign
      BY <2>2, RootCheckouts
    <2> HIDE DEF c
    <2>4. d \in RootDiskSet /\ d.at = c /\ d.known
      BY <2>3 DEF RootDiskSet
    <2>5. disk' = d /\ hist' \in RootHistSet
      BY <2>1, <2>4, RootLeaves
    <2> HIDE DEF d
    <2>6. /\ req' \in [Request -> RootReqSet] /\ ~req'[r].steady /\ req'[r].at = "checkout"
          /\ req'[r].sha = focus.head /\ req'[r].patterns = req[r].patterns
          /\ \A q \in Request \ {r} : req'[q] = req[q]
      <3> DEFINE x == [req[r] EXCEPT !.at = "checkout", !.sha = focus.head]
      <3>1. /\ x \in RootReqSet /\ x.at = "checkout" /\ x.sha = focus.head
            /\ x.patterns = req[r].patterns /\ x.steady = req[r].steady
        BY <2>2 DEF RootReqSet, RootAts
      <3>2. req' = [req EXCEPT ![r] = x]
        BY <2>1 DEF RootTypes
      <3> HIDE DEF x
      <3> QED
        BY <1>2, <3>1, <3>2 DEF RootTypes
    <2>7. RootBuilt(r, FALSE)'
      BY <2>2, <2>4, <2>5, <2>6 DEF RootBuilt, c
    <2>8. /\ disk' \in RootDiskSet /\ disk'.at # Root!Foreign /\ disk'.at # None
      BY <2>3, <2>4, <2>5
    <2>9. req[r].at \in RootBuilding /\ req'[r].at \in RootBuilding
      BY <1>1, <2>6 DEF RootBuilding
    <2> QED
      BY <1>1, <2>1, <2>5, <2>6, <2>7, <2>8, <2>9, RootBuildsOn
  <1> QED
    BY <1>3, <1>4

(* Checking out the files.                                                 *)
LEMMA RootChecksOut ==
  ASSUME RootInv, NEW r \in Request, Root!ChecksOut(r)
  PROVE  RootInv'
  <1> USE DEF RootInv
  <1>1. req[r].at = "checkout" /\ UNCHANGED <<focus, acts>> /\ RootBuilt(r, FALSE)
    BY DEF Root!ChecksOut, RootBuilds
  <1>2. ~req[r].steady /\ req[r].patterns \in RootPatterns
    BY <1>1, RootCheckouts DEF RootHeld, RootBuilding, RootTypes, RootReqSet
  <1>3. CASE /\ \E o \in Root!RemoveWorktree(TRUE, TRUE) : Root!Leaves(o.disk, o.ok)
             /\ Root!Fails(r)
    <2>1. Root!Goto(r, "idle") /\ lsp' = [lsp EXCEPT !.holder = None]
      BY <1>3 DEF Root!Fails
    <2>2. PICK o \in Root!RemoveWorktree(TRUE, TRUE) : Root!Leaves(o.disk, o.ok)
      BY <1>3
    <2>3. /\ o.disk \in RootDiskSet /\ o.ok \in BOOLEAN
          /\ o.disk = disk \/ o.disk.at = None
          /\ o.ok => o.disk.at = None
          /\ disk.at = None => o.disk = disk /\ o.ok
          /\ disk.at # None /\ o.ok => ~o.disk.known
      BY RootRemoves DEF RootTypes
    <2>4. /\ disk' = o.disk /\ hist' \in RootHistSet
          /\ hist'.left <=> Root!IsCheckout(o.disk) /\ (hist.left \/ ~o.ok)
          /\ hist'.dangling <=> o.disk.at = None /\ o.disk.known /\ (hist.dangling \/ ~o.ok)
      BY <2>2, <2>3, RootLeaves
    <2>5. /\ disk'.at = Root!Foreign => ~disk'.known
          /\ Root!IsCheckout(disk') => hist'.left
          /\ disk'.at = None /\ disk'.known => hist'.dangling
      BY <2>3, <2>4, RootCheckouts DEF RootLeft, Root!IsCheckout
    <2>6. /\ req' \in [Request -> RootReqSet] /\ ~req'[r].steady /\ req'[r].at = "idle"
          /\ \A q \in Request \ {r} : req'[q] = req[q]
      BY <1>2, <2>1, RootGoto DEF RootAts
    <2> QED
      BY <1>1, <2>1, <2>3, <2>4, <2>5, <2>6, RootBuildsOn DEF RootBuilding
  <1>4. CASE /\ disk.at # None
             /\ Root!Leaves([disk EXCEPT !.at.whole = TRUE], TRUE)
             /\ Root!Goto(r, "stamp") /\ lsp' = lsp
    <2> DEFINE c == Root!Checkout(req[r].sha, req[r].patterns, TRUE)
               d == [disk EXCEPT !.at.whole = TRUE]
    <2>1. /\ req[r].sha \in Commit /\ disk.known
          /\ disk.at = Root!Checkout(req[r].sha, req[r].patterns, FALSE)
      BY <1>1, <1>4 DEF RootBuilt
    <2>2. [disk.at EXCEPT !.whole = TRUE] = c /\ c \in RootCheckout /\ c # None /\ c # Root!Foreign
      BY <1>2, <2>1, RootCheckouts
    <2> DEFINE w == [disk.at EXCEPT !.whole = TRUE]
    <2>3. d = [disk EXCEPT !.at = w]
      BY DEF RootTypes, RootDiskSet
    <2> HIDE DEF c, d, w
    <2>4. w = c
      BY <2>2 DEF w
    <2>5. d \in RootDiskSet /\ d.at = c /\ d.known
      BY <2>1, <2>2, <2>3, <2>4 DEF RootTypes, RootDiskSet
    <2>6. disk' = d /\ hist' \in RootHistSet
      BY <1>4, <2>5, RootLeaves DEF d
    <2>7. /\ req' \in [Request -> RootReqSet] /\ ~req'[r].steady /\ req'[r].at = "stamp"
          /\ req'[r].sha = req[r].sha /\ req'[r].patterns = req[r].patterns
          /\ \A q \in Request \ {r} : req'[q] = req[q]
      BY <1>2, <1>4, RootGoto DEF RootAts
    <2>8. RootBuilt(r, TRUE)'
      BY <2>1, <2>5, <2>6, <2>7 DEF RootBuilt, c
    <2>9. disk' \in RootDiskSet /\ disk'.at # Root!Foreign /\ disk'.at # None
      BY <2>2, <2>5, <2>6
    <2>10. req[r].at \in RootBuilding /\ req'[r].at \in RootBuilding
      BY <1>1, <2>7 DEF RootBuilding
    <2> QED
      BY <1>1, <1>4, <2>6, <2>7, <2>8, <2>9, <2>10, RootBuildsOn
  <1> QED
    BY <1>3, <1>4, Zenon DEF Root!ChecksOut

(* The head noted may not be the one checked out.                          *)
LEMMA RootStamps ==
  ASSUME RootInv, NEW r \in Request, Root!Stamp(r, focus.head)
  PROVE  RootInv'
  <1> USE DEF RootInv
  <1>1. /\ req[r].at = "stamp" /\ UNCHANGED <<focus, disk, acts>> /\ RootBuilt(r, TRUE)
        /\ req[r] \in RootReqSet /\ req[r].patterns \in RootPatterns /\ focus.head \in Commit \cup {None}
    BY DEF Root!Stamp, RootBuilds, RootTypes, RootReqSet
  <1>2. /\ lsp.holder = r /\ ~lsp.dir /\ lsp.prov = None /\ \A q \in Request : ~req[q].steady
        /\ \A q \in Request \ {r} : req[q].at \notin RootBuilding
    BY <1>1, RootCheckouts DEF RootHeld, RootBuilding
  <1>3. /\ lsp' \in RootLspSet /\ lsp'.dir /\ lsp'.timer /\ lsp'.prov = None /\ lsp'.holder = None
        /\ lsp'.sha = focus.head /\ lsp'.patterns = req[r].patterns
    <2> DEFINE l == [lsp EXCEPT !.dir = TRUE, !.sha = focus.head, !.patterns = req[r].patterns,
                                !.holder = None]
    <2>1. /\ l \in RootLspSet /\ l.dir /\ l.prov = None /\ l.holder = None
          /\ l.sha = focus.head /\ l.patterns = req[r].patterns
      BY <1>1, <1>2 DEF RootTypes, RootLspSet
    <2>2. lsp' = [l EXCEPT !.timer = TRUE]
      BY DEF Root!Stamp, Root!Touched
    <2> HIDE DEF l
    <2> QED
      BY <2>1, <2>2 DEF RootLspSet
  <1> DEFINE mixed == focus.head # req[r].sha
             cleared == disk.at = None
             steady == focus.head = req[r].sha /\ disk.at # None
  <1>4. mixed \in BOOLEAN /\ cleared \in BOOLEAN /\ steady \in BOOLEAN
    BY Zenon
  <1>5. /\ hist' = [hist EXCEPT !.torn = mixed, !.cleared = cleared, !.left = FALSE]
        /\ req' = [req EXCEPT ![r].at = "root", ![r].steady = steady]
    BY DEF Root!Stamp
  <1>6. /\ hist' \in RootHistSet /\ hist'.torn = mixed /\ hist'.cleared = cleared
        /\ hist'.dangling = hist.dangling
    <2> HIDE DEF mixed, cleared, steady
    <2> QED
      BY <1>4, <1>5 DEF RootTypes, RootHistSet
  <1>7. /\ req' \in [Request -> RootReqSet] /\ req'[r].at = "root" /\ req'[r].steady = steady
        /\ req'[r].patterns = req[r].patterns
        /\ \A q \in Request \ {r} : req'[q] = req[q]
    <2> HIDE DEF mixed, cleared, steady
    <2> DEFINE x == [req[r] EXCEPT !.at = "root", !.steady = steady]
    <2>1. x \in RootReqSet /\ x.at = "root" /\ x.steady = steady /\ x.patterns = req[r].patterns
      BY <1>1, <1>4 DEF RootReqSet, RootAts
    <2>2. req' = [req EXCEPT ![r] = x]
      BY <1>5 DEF RootTypes
    <2> HIDE DEF x
    <2> QED
      BY <2>1, <2>2 DEF RootTypes
  <1>8. RootTypes'
    BY <1>1, <1>3, <1>6, <1>7 DEF RootTypes
  <1>9. RootHeld'
    <2>1. \A q \in Request : req'[q].at \notin RootBuilding
      BY <1>2, <1>7 DEF RootBuilding
    <2> QED
      BY <1>3, <2>1, RootCheckouts DEF RootHeld
  <1>10. RootServes'
    BY <1>1, <1>3, <1>6 DEF RootServes, RootBuilt
  <1>11. RootBuilds'
    BY <1>2, <1>7 DEF RootBuilds, RootBuilding
  <1>12. RootLeft'
    BY <1>1, <1>3, <1>6 DEF RootLeft
  <1>13. RootSees'
    <2>1. req'[r].steady => RootSeen(r)'
      BY <1>1, <1>3, <1>7, RootCheckouts DEF RootSeen, RootBuilt
    <2> QED
      BY <1>2, <1>7, <2>1 DEF RootSees
  <1> QED
    BY <1>8, <1>9, <1>10, <1>11, <1>12, <1>13

(* What only looks at the workspace.                                       *)
LEMMA RootLooksAt ==
  ASSUME RootInv, NEW r \in Request, Root!ResolvesPath(r) \/ Root!LspManager(r)
  PROVE  RootInv'
  <1> USE DEF RootInv
  <1> DEFINE root == Root!LspRoot(lsp)
  <1>1. /\ req[r].at \in {"root", "manager"} /\ lsp.holder = None /\ UNCHANGED <<focus, disk, hist, acts>>
        /\ root \in RootRoots /\ req[r] \in RootReqSet
    BY DEF Root!ResolvesPath, Root!LspManager, Root!Free, Root!LspRoot, RootRoots, RootTypes
  <1>2. /\ lsp' \in RootLspSet /\ lsp'.dir = lsp.dir /\ lsp'.holder = lsp.holder
        /\ lsp'.sha = lsp.sha /\ lsp'.patterns = lsp.patterns /\ lsp'.timer = lsp.timer
        /\ lsp'.fired = lsp.fired /\ lsp'.prov \in {lsp.prov, root}
        /\ Root!LspRoot(lsp)' = root
    <2>1. lsp' = lsp \/ lsp' = [lsp EXCEPT !.prov = root] \/ lsp' = [lsp EXCEPT !.prov = lsp.prov]
      BY DEF Root!ResolvesPath, Root!LspManager
    <2> HIDE DEF root
    <2>2. /\ lsp' \in RootLspSet /\ lsp'.dir = lsp.dir /\ lsp'.holder = lsp.holder
          /\ lsp'.sha = lsp.sha /\ lsp'.patterns = lsp.patterns /\ lsp'.timer = lsp.timer
          /\ lsp'.fired = lsp.fired /\ lsp'.prov \in {lsp.prov, root}
      BY <1>1, <2>1 DEF RootTypes, RootLspSet
    <2> QED
      BY <2>2 DEF Root!LspRoot, root
  <1>3. /\ req' \in [Request -> RootReqSet]
        /\ \A q \in Request \ {r} : req'[q] = req[q]
        /\ req'[r].patterns = req[r].patterns /\ req'[r].steady = req[r].steady
        /\ \/ req[r].at = "root" /\ req'[r].at = "manager" /\ req'[r].root = root
           \/ /\ req[r].at = "manager" /\ req'[r].at = "answer" /\ req'[r].root = req[r].root
              /\ req'[r].prov = root
    <2>1. CASE Root!ResolvesPath(r)
      <3> DEFINE x == [req[r] EXCEPT !.at = "manager", !.root = root]
      <3>1. req' = [req EXCEPT ![r] = x] /\ req[r].at = "root"
        BY <2>1 DEF Root!ResolvesPath, RootTypes
      <3> HIDE DEF root
      <3>2. /\ x \in RootReqSet /\ x.at = "manager" /\ x.root = root
            /\ x.patterns = req[r].patterns /\ x.steady = req[r].steady
        BY <1>1 DEF RootReqSet, RootAts
      <3> HIDE DEF x
      <3> QED
        BY <3>1, <3>2 DEF RootTypes
    <2>2. CASE Root!LspManager(r)
      <3>1. PICK prov \in {IF lsp.prov = None THEN root ELSE lsp.prov} :
              req' = [req EXCEPT ![r].at = "answer", ![r].prov = prov]
        BY <2>2 DEF Root!LspManager
      <3>2. prov = root
        BY DEF RootServes
      <3> DEFINE x == [req[r] EXCEPT !.at = "answer", !.prov = root]
      <3>3. req' = [req EXCEPT ![r] = x] /\ req[r].at = "manager"
        BY <2>2, <3>1, <3>2 DEF Root!LspManager, RootTypes
      <3> HIDE DEF root
      <3>4. /\ x \in RootReqSet /\ x.at = "answer" /\ x.root = req[r].root /\ x.prov = root
            /\ x.patterns = req[r].patterns /\ x.steady = req[r].steady
        BY <1>1 DEF RootReqSet, RootAts
      <3> HIDE DEF x
      <3> QED
        BY <3>3, <3>4 DEF RootTypes
    <2> QED
      BY <2>1, <2>2
  <1> HIDE DEF root
  <1>4. RootTypes'
    BY <1>1, <1>2, <1>3 DEF RootTypes
  <1>5. RootHeld'
    <2>1. \A q \in Request : req[q].at \notin RootBuilding
      BY <1>1, RootCheckouts DEF RootHeld
    <2>2. \A q \in Request : req'[q].at \notin RootBuilding
      BY <1>3, <2>1 DEF RootBuilding
    <2> QED
      BY <1>1, <1>2, <2>2, RootCheckouts DEF RootHeld
  <1>6. RootServes'
    BY <1>1, <1>2 DEF RootServes, root
  <1>7. RootBuilds'
    BY <1>1, <1>3 DEF RootBuilds, RootBuilt
  <1>8. RootLeft'
    BY <1>1, <1>2 DEF RootLeft, Root!IsCheckout
  <1>9. RootSees'
    <2>1. req[r].steady => RootSeen(r)'
      <3>1. req[r].steady => RootSeen(r)
        BY <1>1 DEF RootSees, RootLooks
      <3> QED
        BY <1>1, <1>2, <1>3, <3>1 DEF RootSeen, root
    <2>2. \A q \in Request \ {r} : RootSeen(q) => RootSeen(q)'
      BY <1>1, <1>2, <1>3 DEF RootSeen, root
    <2> QED
      BY <1>3, <2>1, <2>2 DEF RootSees
  <1> QED
    BY <1>4, <1>5, <1>6, <1>7, <1>8, <1>9

(* The timer fires, or the daemon ends.                                    *)
LEMMA RootFires ==
  ASSUME RootInv, Root!TimerFires \/ Root!Ends
  PROVE  RootInv'
  <1> USE DEF RootInv
  <1>1. UNCHANGED <<focus, disk, req, hist>>
    BY DEF Root!TimerFires, Root!Ends
  <1>2. acts' \in Int
    BY DEF Root!TimerFires, Root!Ends, Root!Act, RootTypes
  <1>3. /\ lsp' \in RootLspSet /\ lsp'.dir = lsp.dir /\ lsp'.prov = lsp.prov
        /\ lsp'.holder = lsp.holder /\ lsp'.sha = lsp.sha /\ lsp'.patterns = lsp.patterns
        /\ lsp.timer \/ lsp.fired => lsp'.timer \/ lsp'.fired
    BY DEF Root!TimerFires, Root!Ends, RootTypes, RootLspSet
  <1>4. RootTypes' /\ RootHeld' /\ RootBuilds'
    BY <1>1, <1>2, <1>3 DEF RootTypes, RootHeld, RootBuilds, RootBuilt
  <1>5. RootServes' /\ RootLeft' /\ RootSees'
    BY <1>1, <1>3 DEF RootServes, RootLeft, RootSees, RootSeen, Root!LspRoot, Root!IsCheckout
  <1> QED
    BY <1>4, <1>5

(* No request is sure of what it saw.                                      *)
LEMMA RootUpset ==
  ASSUME RootTypes, Root!Upset
  PROVE  /\ req' \in [Request -> RootReqSet]
         /\ \A r \in Request : /\ req'[r].at = req[r].at /\ req'[r].sha = req[r].sha
                               /\ req'[r].patterns = req[r].patterns /\ ~req'[r].steady
  <1> DEFINE x(r) == [req[r] EXCEPT !.steady = FALSE]
  <1>1. req' = [r \in Request |-> x(r)]
    BY DEF Root!Upset
  <1>2. \A r \in Request : /\ x(r) \in RootReqSet /\ x(r).at = req[r].at /\ x(r).sha = req[r].sha
                           /\ x(r).patterns = req[r].patterns /\ ~x(r).steady
    BY DEF RootTypes, RootReqSet
  <1> HIDE DEF x
  <1> QED
    BY <1>1, <1>2

(* The idle worktree is dropped.                                           *)
LEMMA RootGoesIdle ==
  ASSUME RootInv, Root!DropIdleLSPRoot \/ Root!ShutdownLSP
  PROVE  RootInv'
  <1> USE DEF RootInv
  <1>1. /\ lsp.holder = None /\ UNCHANGED <<focus, acts>> /\ Root!Upset
        /\ Root!DropRoot(None, FALSE) \/ Root!DropRoot(None, lsp.fired)
    BY DEF Root!DropIdleLSPRoot, Root!ShutdownLSP, Root!Free
  <1>2. lsp.fired \in BOOLEAN
    BY DEF RootTypes, RootLspSet
  <1>3. /\ lsp' \in RootLspSet /\ ~lsp'.dir /\ lsp'.prov = None /\ lsp'.holder = None
        /\ disk' \in RootDiskSet /\ hist' \in RootHistSet
        /\ disk' = disk \/ disk'.at = None
        /\ Root!IsCheckout(disk') => hist'.left
        /\ disk'.at = None /\ disk'.known => hist'.dangling
        /\ disk.at = Root!Foreign => disk' = disk
    BY <1>1, <1>2, RootDrops
  <1>4. /\ req' \in [Request -> RootReqSet]
        /\ \A r \in Request : req'[r].at = req[r].at /\ ~req'[r].steady
    BY <1>1, RootUpset
  <1>5. \A r \in Request : req[r].at \notin RootBuilding
    BY <1>1, RootCheckouts DEF RootHeld
  <1>6. RootTypes'
    BY <1>1, <1>3, <1>4 DEF RootTypes
  <1>7. RootHeld' /\ RootBuilds'
    <2>1. \A r \in Request : req'[r].at \notin RootBuilding
      BY <1>4, <1>5
    <2>2. RootHeld'
      BY <1>3, <2>1, RootCheckouts DEF RootHeld
    <2>3. RootBuilds'
      BY <2>1 DEF RootBuilds, RootBuilding
    <2> QED
      BY <2>2, <2>3
  <1>8. RootServes' /\ RootSees'
    BY <1>3, <1>4 DEF RootServes, RootSees
  <1>9. RootLeft'
    BY <1>3, RootCheckouts DEF RootLeft
  <1> QED
    BY <1>6, <1>7, <1>8, <1>9

(* The focus or the set of servers changes.                                *)
LEMMA RootSwitches ==
  ASSUME RootInv, Root!SwitchesFocus \/ Root!InstallsServer
  PROVE  RootInv'
  <1> USE DEF RootInv
  <1>1. UNCHANGED <<lsp, disk, hist>> /\ Root!Upset /\ acts' \in Int
    BY DEF Root!SwitchesFocus, Root!InstallsServer, Root!Act, RootTypes
  <1>2. focus' \in [head : Commit \cup {None}, patterns : RootPatterns]
    BY DEF Root!SwitchesFocus, Root!InstallsServer, RootTypes, RootPatterns
  <1>3. /\ req' \in [Request -> RootReqSet]
        /\ \A r \in Request : /\ req'[r].at = req[r].at /\ req'[r].sha = req[r].sha
                              /\ req'[r].patterns = req[r].patterns /\ ~req'[r].steady
    BY <1>1, RootUpset
  <1>4. RootTypes' /\ RootHeld' /\ RootBuilds'
    BY <1>1, <1>2, <1>3 DEF RootTypes, RootHeld, RootBuilds, RootBuilt
  <1>5. RootServes' /\ RootLeft' /\ RootSees'
    BY <1>1, <1>3 DEF RootServes, RootLeft, RootSees, Root!LspRoot, Root!IsCheckout
  <1> QED
    BY <1>4, <1>5

(* Someone else empties the folder.                                        *)
LEMMA RootCleared ==
  ASSUME RootInv, Root!ClearsFolder
  PROVE  RootInv'
  <1> USE DEF RootInv
  <1>1. /\ disk.at # None /\ disk' = [disk EXCEPT !.at = None] /\ UNCHANGED <<focus, lsp>>
        /\ hist' = [hist EXCEPT !.cleared = TRUE, !.left = FALSE, !.dangling = disk.known]
        /\ Root!Upset /\ acts' \in Int
    BY DEF Root!ClearsFolder, Root!Act, RootTypes
  <1>2. disk' \in RootDiskSet /\ disk'.at = None /\ disk'.known = disk.known /\ disk.known \in BOOLEAN
    BY <1>1 DEF RootTypes, RootDiskSet
  <1>3. hist' \in RootHistSet /\ hist'.cleared /\ hist'.dangling = disk.known
    BY <1>1, <1>2 DEF RootTypes, RootHistSet
  <1>4. /\ req' \in [Request -> RootReqSet]
        /\ \A r \in Request : /\ req'[r].at = req[r].at /\ req'[r].sha = req[r].sha
                              /\ req'[r].patterns = req[r].patterns /\ ~req'[r].steady
    BY <1>1, RootUpset
  <1>5. RootTypes' /\ RootHeld'
    BY <1>1, <1>2, <1>3, <1>4 DEF RootTypes, RootHeld
  <1>6. RootBuilds'
    BY <1>2, <1>4 DEF RootBuilds, RootBuilt
  <1>7. RootServes' /\ RootLeft' /\ RootSees'
    BY <1>1, <1>2, <1>3, <1>4, RootCheckouts DEF RootServes, RootLeft, RootSees, Root!LspRoot,
      Root!IsCheckout
  <1> QED
    BY <1>5, <1>6, <1>7

(* A new daemon knows of no worktree.                                      *)
LEMMA RootRestarts ==
  ASSUME RootInv, Root!Restarts
  PROVE  RootInv'
  <1> USE DEF RootInv
  <1> DEFINE left == Root!IsCheckout(disk)
             dangling == disk.at = None /\ disk.known
  <1>1. /\ lsp' = Root!NoRoot /\ req' = [r \in Request |-> Root!Waiting]
        /\ hist' = [torn |-> FALSE, cleared |-> FALSE, left |-> left, dangling |-> dangling]
        /\ UNCHANGED <<focus, disk>> /\ acts' \in Int
    <2>1. lsp' = Root!NoRoot /\ req' = [r \in Request |-> Root!Waiting] /\ UNCHANGED <<focus, disk>>
      BY DEF Root!Restarts
    <2>2. acts' = acts \/ acts' = acts + 1
      BY DEF Root!Restarts, Root!Act
    <2>3. hist' = [Root!NoHist EXCEPT !.left = left, !.dangling = dangling]
      BY DEF Root!Restarts
    <2> HIDE DEF left, dangling
    <2>4. hist' = [torn |-> FALSE, cleared |-> FALSE, left |-> left, dangling |-> dangling]
      BY <2>3 DEF Root!NoHist
    <2> QED
      BY <2>1, <2>2, <2>4 DEF RootTypes
  <1>2. lsp' \in RootLspSet /\ lsp'.holder = None /\ ~lsp'.dir /\ lsp'.prov = None
    BY <1>1 DEF RootLspSet, Root!NoRoot, RootPatterns, RootRoots
  <1>3. \A r \in Request : req'[r] \in RootReqSet /\ req'[r].at = "idle" /\ ~req'[r].steady
    BY <1>1 DEF RootReqSet, Root!Waiting, RootPatterns, RootRoots, RootAts
  <1>4. left \in BOOLEAN /\ dangling \in BOOLEAN
    BY Zenon DEF Root!IsCheckout
  <1>5. hist' \in RootHistSet /\ hist'.left = left /\ hist'.dangling = dangling
    <2> HIDE DEF left, dangling
    <2> QED
      BY <1>1, <1>4 DEF RootHistSet
  <1>6. RootTypes'
    BY <1>1, <1>2, <1>3, <1>5 DEF RootTypes
  <1>7. RootHeld' /\ RootServes' /\ RootBuilds' /\ RootSees'
    <2>1. RootHeld'
      BY <1>2, <1>3, RootCheckouts DEF RootHeld, RootBuilding
    <2>2. RootBuilds' /\ RootSees'
      BY <1>3 DEF RootBuilds, RootSees, RootLooks
    <2>3. RootServes'
      BY <1>2 DEF RootServes
    <2> QED
      BY <2>1, <2>2, <2>3
  <1>8. RootLeft'
    BY <1>1, <1>2, <1>5 DEF RootLeft, Root!IsCheckout
  <1> QED
    BY <1>6, <1>7, <1>8

(* Every step of LspWorkspace keeps RootInv.                               *)
LEMMA RootHolds == ASSUME RootInv, Root!Next PROVE RootInv'
  BY RootIdles, RootReuses, RootGivesUp, RootClearsStale, RootAdds, RootChecksOut, RootStamps,
    RootLooksAt, RootFires, RootGoesIdle, RootSwitches, RootCleared, RootRestarts, Zenon
    DEF Root!Next, Root!SyncLSPRoot

(* RootInv reads the variables of LspWorkspace only.                       *)
LEMMA RootStutter == ASSUME RootInv, UNCHANGED Root!vars PROVE RootInv'
  BY DEF RootInv, Root!vars, RootTypes, RootHeld, RootServes, RootBuilds, RootBuilt, RootLeft, RootSees,
    RootSeen, Root!LspRoot, Root!IsCheckout

(* RootInv is strong enough.                                               *)
LEMMA RootKept ==
  RootInv => Root!AnswersFromHead /\ Root!WorkspaceIsHead /\ Root!NothingAbandoned
  <1> SUFFICES ASSUME RootInv
               PROVE  Root!AnswersFromHead /\ Root!WorkspaceIsHead /\ Root!NothingAbandoned
    OBVIOUS
  <1> USE DEF RootInv
  <1>1. Root!WorkspaceIsHead
    <2>1. \A c : disk.at = c /\ disk.known => disk = [at |-> c, known |-> TRUE]
      BY DEF RootTypes, RootDiskSet
    <2> QED
      BY <2>1 DEF RootServes, Root!WorkspaceIsHead
  <1>2. Root!AnswersFromHead
    <2> SUFFICES ASSUME ~hist.torn, ~hist.cleared, NEW r \in Request, req[r].at = "answer", req[r].steady
                 PROVE  /\ req[r].root = req[r].prov
                        /\ IF focus.head = None THEN req[r].root = "tree"
                           ELSE /\ req[r].root = "worktree"
                                /\ disk.at = Root!Checkout(focus.head, req[r].patterns, TRUE)
      BY DEF Root!AnswersFromHead
    <2>1. RootSeen(r)
      BY DEF RootSees, RootLooks
    <2> QED
      BY <2>1 DEF RootSeen, RootServes, Root!LspRoot
  <1>3. Root!NothingAbandoned
    BY DEF RootLeft, RootServes, Root!NothingAbandoned, Root!Free
  <1> QED
    BY <1>1, <1>2, <1>3

(* Only what was not there is checked out, and only what git lists or the  *)
(* daemon has just made is removed.                                        *)
LEMMA RootSparesForeign ==
  ASSUME RootInv, Root!Next \/ UNCHANGED Root!vars
  PROVE  Root!ForeignStays
  <1> SUFFICES ASSUME disk.at = Root!Foreign, acts' = acts PROVE disk' = disk
    BY DEF Root!ForeignStays
  <1> USE DEF RootInv
  <1>0. ~disk.known /\ disk.at # None /\ disk \in RootDiskSet
    BY RootCheckouts DEF RootLeft, RootTypes
  <1>1. \A own, works : \A o \in Root!RemoveWorktree(own, works) : ~own => o.disk = disk /\ o.ok \in BOOLEAN
    BY <1>0, RootRemoves
  <1>2. \A holder, fired : Root!DropRoot(holder, fired) => disk' = disk
    <2> SUFFICES ASSUME NEW holder, NEW fired, Root!DropRoot(holder, fired) PROVE disk' = disk
      OBVIOUS
    <2>1. CASE lsp.dir
      <3>1. PICK o \in Root!RemoveWorktree(FALSE, Root!Runs) : Root!Leaves(o.disk, o.ok)
        BY <2>1 DEF Root!DropRoot
      <3> QED
        BY <1>1, <3>1 DEF Root!Leaves
    <2>2. CASE ~lsp.dir
      BY <2>2 DEF Root!DropRoot, Root!Leaves
    <2> QED
      BY <2>1, <2>2
  <1>3. ASSUME NEW r \in Request, Root!SyncLSPRoot(r) PROVE disk' = disk
    <2>1. CASE Root!Reuses(r) \/ Root!Stamp(r, focus.head)
      BY <2>1 DEF Root!Reuses, Root!Stamp
    <2>2. CASE Root!Returns(r) \/ Root!Rebuilds(r)
      BY <1>2, <2>2 DEF Root!Returns, Root!Rebuilds
    <2>3. CASE Root!ClearsStale(r)
      <3>1. PICK o \in Root!RemoveWorktree(FALSE, Root!Runs) : Root!Leaves(o.disk, o.ok)
        BY <2>3 DEF Root!ClearsStale
      <3> QED
        BY <1>1, <3>1 DEF Root!Leaves
    <2>4. CASE Root!Adds(r)
      BY <1>0, <2>4 DEF Root!Adds, RootBuilds
    <2>5. ~Root!ChecksOut(r)
      <3> SUFFICES ASSUME Root!ChecksOut(r) PROVE FALSE
        OBVIOUS
      <3>1. RootBuilt(r, FALSE) /\ req[r].patterns \in RootPatterns
        BY DEF Root!ChecksOut, RootBuilds, RootTypes, RootReqSet
      <3> QED
        BY <1>0, <3>1, RootCheckouts DEF RootBuilt
    <2> QED
      BY <1>3, <2>1, <2>2, <2>3, <2>4, <2>5 DEF Root!SyncLSPRoot
  <1>4. CASE \E r \in Request : Root!Asks(r) \/ Root!ResolvesPath(r) \/ Root!LspManager(r) \/ Root!Responds(r)
    BY <1>4 DEF Root!Asks, Root!ResolvesPath, Root!LspManager, Root!Responds
  <1>5. CASE Root!DropIdleLSPRoot \/ Root!ShutdownLSP
    BY <1>2, <1>5 DEF Root!DropIdleLSPRoot, Root!ShutdownLSP
  <1>6. CASE Root!TimerFires \/ Root!Restarts \/ Root!SwitchesFocus \/ Root!InstallsServer \/ Root!Ends
    BY <1>6 DEF Root!TimerFires, Root!Restarts, Root!SwitchesFocus, Root!InstallsServer, Root!Ends
  <1>7. ~Root!ClearsFolder
    BY DEF Root!ClearsFolder, Root!Act, RootTypes
  <1>8. CASE UNCHANGED Root!vars
    BY <1>8 DEF Root!vars
  <1> QED
    BY <1>3, <1>4, <1>5, <1>6, <1>7, <1>8, Zenon DEF Root!Next
------------------------------------------------------------------------------
(* Plans.  The versions of a plan are numbered without a gap; and where no *)
(* two runs saved the same plan at once, the one that is under way has the *)
(* last number, current.md follows, and the daemon shows one of them.      *)
PlansAts == {"idle", "lookup", "pin", "compare", "pick", "write", "current", "connect", "wait", "emit"}
PlansBusy == {"write", "current", "connect", "wait", "emit"}
PlansWritten == {"current", "connect", "wait", "emit"}
PlansVersions == UNION {[1..n -> Plan!Content] : n \in Nat}
PlansPin == [slug : Slug, old : BOOLEAN]
PlansJob == [at : PlansAts, kind : {"save", "review"}, agent : Agent \cup {None},
             content : Plan!Content \cup {None}, slug : Slug \cup {None}, ver : Nat, own : BOOLEAN,
             saw : Plan!Content \cup {None}, approved : BOOLEAN, decision : {"none", "deny", "allow"}]
PlansTypes ==
  /\ dir \in [Slug -> [versions : PlansVersions, current : Plan!Content \cup {None}]]
  /\ pins \in [readable : BOOLEAN, of : [Agent -> PlansPin \cup {None}]]
  /\ job \in [Job -> PlansJob]
  /\ daemon \in [Slug -> [alive : BOOLEAN, shown : Plan!Content \cup {None}]]
  /\ torn \subseteq Slug

PlansNamed ==
  \A p \in Job : /\ job[p].at # "idle" => job[p].content # None
                 /\ job[p].at \notin {"idle", "lookup"} => job[p].slug # None
                 /\ job[p].decision = "allow" => job[p].slug # None /\ job[p].at = "idle"
PlansLast(s) == Plan!LatestPlanVersion(s)
PlansNumbered ==
  /\ \A p \in Job : job[p].at = "write" => job[p].ver \in 1..(PlansLast(job[p].slug) + 1)
  /\ \A p \in Job : job[p].at \in PlansWritten => job[p].ver \in 1..PlansLast(job[p].slug)
PlansShown ==
  /\ \A p \in Job : job[p].at \in {"connect", "wait", "emit"} => dir[job[p].slug].current # None
  /\ \A s \in Slug : daemon[s].alive => dir[s].current # None /\ daemon[s].shown # None

PlansAlone ==
  \A p, q \in Job : /\ job[p].at \in PlansBusy /\ job[q].at \in PlansBusy
                    /\ job[p].slug = job[q].slug /\ job[p].slug \notin torn
                    => p = q
PlansCurrent ==
  \A s \in Slug \ torn :
    /\ dir[s].current # None => \E v \in 1..PlansLast(s) : dir[s].versions[v] = dir[s].current
    /\ (\A p \in Job : job[p].slug = s => job[p].at # "current") =>
         /\ PlansLast(s) > 0 => dir[s].current = dir[s].versions[PlansLast(s)]
    /\ daemon[s].alive => \E v \in 1..PlansLast(s) : dir[s].versions[v] = daemon[s].shown
PlansOwn(p) ==
  LET s == job[p].slug
  IN /\ job[p].at = "write" => job[p].ver = PlansLast(s) + 1
     /\ job[p].at \in PlansWritten => /\ job[p].ver = PlansLast(s)
                                      /\ dir[s].versions[job[p].ver] = job[p].content
     /\ job[p].at = "wait" /\ job[p].own /\ daemon[s].alive => daemon[s].shown = dir[s].versions[job[p].ver]
PlansOwned == \A p \in Job : job[p].at \in PlansBusy /\ job[p].slug \notin torn => PlansOwn(p)
PlansApproved(p) ==
  /\ job[p].approved /\ job[p].saw # None
  /\ job[p].slug \notin torn =>
       \E v \in (IF job[p].own THEN {job[p].ver} ELSE 1..job[p].ver) \cap 1..PlansLast(job[p].slug) :
         dir[job[p].slug].versions[v] = job[p].saw
PlansAllowed ==
  \A p \in Job : job[p].decision = "allow" \/ (job[p].at = "emit" /\ job[p].approved) => PlansApproved(p)
PlansInv ==
  /\ PlansTypes /\ PlansNamed /\ PlansNumbered /\ PlansShown /\ PlansAlone /\ PlansCurrent /\ PlansOwned
  /\ PlansAllowed

(* The largest of 1..n, or 0.                                              *)
LEMMA PlansCounted ==
  ASSUME NEW n \in Nat PROVE Plan!Max(1..n \cup {0}) = n
  <1> DEFINE S == 1..n \cup {0}
  <1>1. n \in S /\ \A y \in S : n >= y /\ y \in Nat
    OBVIOUS
  <1>2. \A x \in S : (\A y \in S : x >= y) => x = n
    BY <1>1
  <1> HIDE DEF S
  <1>3. (CHOOSE x \in S : \A y \in S : x >= y) = n
    BY <1>1, <1>2
  <1> QED
    BY <1>3 DEF Plan!Max, S

(* Versions are numbered from 1 to the latest.                             *)
LEMMA PlansLatest ==
  ASSUME PlansTypes, NEW s \in Slug
  PROVE  /\ PlansLast(s) \in Nat /\ dir[s].versions \in [1..PlansLast(s) -> Plan!Content]
         /\ DOMAIN dir[s].versions = 1..PlansLast(s)
  <1>1. dir[s].versions \in PlansVersions
    BY DEF PlansTypes
  <1>2. PICK n \in Nat : dir[s].versions \in [1..n -> Plan!Content]
    BY <1>1 DEF PlansVersions
  <1>3. PlansLast(s) = n
    BY <1>2, PlansCounted DEF PlansLast, Plan!LatestPlanVersion
  <1> QED
    BY <1>2, <1>3

(* Writing a version keeps the numbers without a gap.                      *)
LEMMA PlansAppend ==
  ASSUME NEW n \in Nat, NEW vs \in [1..n -> Plan!Content], NEW v \in 1..(n + 1), NEW c \in Plan!Content
  PROVE  LET w == [i \in DOMAIN vs \cup {v} |-> IF i = v THEN c ELSE vs[i]]
         IN  /\ w \in [1..(IF v = n + 1 THEN n + 1 ELSE n) -> Plan!Content]
             /\ w[v] = c /\ \A i \in 1..n \ {v} : w[i] = vs[i]
  OBVIOUS

(* No version yet or one, shown by a daemon or not.                        *)
LEMMA PlansStart == Plan!Init => PlansInv
  <1> SUFFICES ASSUME Plan!Init PROVE PlansInv
    OBVIOUS
  <1>1. PICK c \in Plan!Content, dated \in BOOLEAN, shown \in BOOLEAN :
          /\ dir = [s \in Slug |-> IF s = c.heading /\ dated THEN [versions |-> <<c>>, current |-> c]
                                   ELSE [versions |-> <<>>, current |-> None]]
          /\ daemon = [s \in Slug |-> IF s = c.heading /\ dated /\ shown
                                      THEN [alive |-> TRUE, shown |-> c] ELSE [alive |-> FALSE, shown |-> None]]
    BY ZenonT(60) DEF Plan!Init
  <1>2. /\ <<c>> \in [1..1 -> Plan!Content] /\ <<c>>[1] = c /\ <<>> \in [1..0 -> Plan!Content]
        /\ <<c>> \in PlansVersions /\ <<>> \in PlansVersions
    <2>1. <<c>> \in [1..1 -> Plan!Content] /\ <<c>>[1] = c
      OBVIOUS
    <2>2. <<>> \in [1..0 -> Plan!Content]
      OBVIOUS
    <2> QED
      BY <2>1, <2>2 DEF PlansVersions
  <1>3. \A s \in Slug :
          \/ dir[s] = [versions |-> <<c>>, current |-> c]
          \/ dir[s] = [versions |-> <<>>, current |-> None] /\ daemon[s] = [alive |-> FALSE, shown |-> None]
    BY <1>1
  <1>4. dir \in [Slug -> [versions : PlansVersions, current : Plan!Content \cup {None}]]
    <2> DEFINE VS == PlansVersions
               D == [versions : VS, current : Plan!Content \cup {None}]
    <2>1. [versions |-> <<c>>, current |-> c] \in D /\ [versions |-> <<>>, current |-> None] \in D
      <3> HIDE DEF VS
      <3> QED
        BY <1>2 DEF VS
    <2> HIDE DEF D
    <2>2. \A s \in Slug : dir[s] \in D
      BY <1>3, <2>1
    <2>3. dir = [s \in Slug |-> dir[s]]
      BY <1>1
    <2> QED
      BY <2>2, <2>3 DEF D
  <1>5. daemon \in [Slug -> [alive : BOOLEAN, shown : Plan!Content \cup {None}]]
    <2> DEFINE D == [alive : BOOLEAN, shown : Plan!Content \cup {None}]
    <2>1. [alive |-> TRUE, shown |-> c] \in D /\ [alive |-> FALSE, shown |-> None] \in D
      OBVIOUS
    <2> HIDE DEF D
    <2> QED
      BY <1>1, <2>1 DEF D
  <1>6. pins \in [readable : BOOLEAN, of : [Agent -> PlansPin \cup {None}]]
    <2> DEFINE first == CHOOSE a \in Agent : TRUE
               Pinned(pin) == [a \in Agent |-> IF a = first THEN pin ELSE None]
    <2>1. pins \in [readable : BOOLEAN, of : {Pinned(None)}]
                   \cup [readable : {TRUE}, of : {Pinned(pin) : pin \in [slug : Slug, old : BOOLEAN]}]
      BY DEF Plan!Init
    <2>2. \A pin \in PlansPin \cup {None} : Pinned(pin) \in [Agent -> PlansPin \cup {None}]
      OBVIOUS
    <2> HIDE DEF Pinned
    <2>3. pins.of \in [Agent -> PlansPin \cup {None}] /\ pins.readable \in BOOLEAN
      BY <2>1, <2>2 DEF PlansPin
    <2>4. pins = [readable |-> pins.readable, of |-> pins.of]
      BY <2>1
    <2> QED
      BY <2>3, <2>4
  <1>7. job \in [Job -> PlansJob] /\ \A p \in Job : job[p].at = "idle" /\ job[p].decision = "none"
    <2>1. job = [p \in Job |-> Plan!NoJob]
      BY DEF Plan!Init
    <2>2. Plan!NoJob \in PlansJob /\ Plan!NoJob.at = "idle" /\ Plan!NoJob.decision = "none"
      BY DEF Plan!NoJob, PlansJob, PlansAts
    <2> QED
      BY <2>1, <2>2
  <1>8. PlansTypes
    BY <1>4, <1>5, <1>6, <1>7 DEF PlansTypes, Plan!Init
  <1>9. c # None
    BY ToolsAssumption DEF Plan!Content
  <1>10. PlansNamed /\ PlansNumbered /\ PlansAlone /\ PlansOwned /\ PlansAllowed
    BY <1>7 DEF PlansNamed, PlansNumbered, PlansAlone, PlansOwned, PlansAllowed, PlansBusy, PlansWritten
  <1>11. \A s \in Slug : daemon[s].alive =>
           dir[s] = [versions |-> <<c>>, current |-> c] /\ daemon[s] = [alive |-> TRUE, shown |-> c]
    BY <1>1
  <1>12. PlansShown
    <2>1. \A s \in Slug : daemon[s].alive => dir[s].current = c /\ daemon[s].shown = c
      BY <1>11
    <2> QED
      BY <1>7, <1>9, <2>1 DEF PlansShown
  <1>13. PlansCurrent
    <2> SUFFICES ASSUME NEW s \in Slug
                 PROVE  /\ dir[s].current # None => \E v \in 1..PlansLast(s) : dir[s].versions[v] = dir[s].current
                        /\ PlansLast(s) > 0 => dir[s].current = dir[s].versions[PlansLast(s)]
                        /\ daemon[s].alive => \E v \in 1..PlansLast(s) : dir[s].versions[v] = daemon[s].shown
      BY DEF PlansCurrent
    <2>1. CASE dir[s] = [versions |-> <<c>>, current |-> c]
      <3>1. dir[s].versions = <<c>> /\ dir[s].current = c
        BY <2>1
      <3>2. PlansLast(s) = 1
        BY <1>2, <3>1, PlansCounted DEF PlansLast, Plan!LatestPlanVersion
      <3>3. daemon[s].alive => daemon[s].shown = c
        BY <1>11
      <3> QED
        BY <1>2, <3>1, <3>2, <3>3
    <2>2. CASE dir[s] = [versions |-> <<>>, current |-> None] /\ daemon[s] = [alive |-> FALSE, shown |-> None]
      <3>1. dir[s].versions = <<>> /\ dir[s].current = None /\ ~daemon[s].alive
        BY <2>2
      <3>2. PlansLast(s) = 0
        BY <1>2, <3>1, PlansCounted DEF PlansLast, Plan!LatestPlanVersion
      <3> QED
        BY <3>1, <3>2
    <2> QED
      BY <1>3, <2>1, <2>2
  <1> QED
    BY <1>8, <1>10, <1>12, <1>13 DEF PlansInv

(* A run that moves on leaves the others where they are.                   *)
LEMMA PlansGoes ==
  ASSUME PlansTypes, NEW p \in Job, NEW x \in PlansJob, job' = [job EXCEPT ![p] = x]
  PROVE  job' \in [Job -> PlansJob] /\ job'[p] = x /\ \A q \in Job \ {p} : job'[q] = job[q]
  BY DEF PlansTypes

(* A run that is not saving or waiting afterwards, or that ends.           *)
LEMMA PlansEnds ==
  ASSUME PlansInv, NEW p \in Job, NEW x \in PlansJob, job' = [job EXCEPT ![p] = x],
         x.at \notin PlansBusy,
         x.at # "idle" => x.content # None,
         x.at \notin {"idle", "lookup"} => x.slug # None,
         x.decision # "allow",
         job[p].at = "current" => job[p].slug \in torn',
         UNCHANGED <<dir, daemon>>, torn \subseteq torn', torn' \subseteq Slug,
         pins' \in [readable : BOOLEAN, of : [Agent -> PlansPin \cup {None}]]
  PROVE  PlansInv'
  <1> USE DEF PlansInv
  <1>1. job' \in [Job -> PlansJob] /\ job'[p] = x /\ \A q \in Job \ {p} : job'[q] = job[q]
    BY PlansGoes
  <1>2. PlansTypes'
    BY <1>1 DEF PlansTypes
  <1>3. PlansNamed'
    BY <1>1 DEF PlansNamed
  <1>4. \A s : PlansLast(s)' = PlansLast(s)
    BY DEF PlansLast, Plan!LatestPlanVersion
  <1>5. PlansNumbered'
    BY <1>1, <1>4 DEF PlansNumbered, PlansBusy, PlansWritten
  <1>6. PlansShown'
    BY <1>1 DEF PlansShown, PlansBusy
  <1>7. PlansAlone'
    BY <1>1 DEF PlansAlone
  <1>8. PlansCurrent'
    <2>1. ASSUME NEW s \in Slug \ torn', \A q \in Job : job'[q].slug = s => job'[q].at # "current"
          PROVE  \A q \in Job : job[q].slug = s => job[q].at # "current"
      BY <1>1, <2>1
    <2> QED
      BY <1>4, <2>1 DEF PlansCurrent
  <1>9. PlansOwned'
    BY <1>1, <1>4 DEF PlansOwned, PlansOwn
  <1>10. PlansAllowed'
    <2>1. \A q \in Job \ {p} : PlansApproved(q) => PlansApproved(q)'
      BY <1>1, <1>4 DEF PlansApproved
    <2> QED
      BY <1>1, <2>1 DEF PlansAllowed, PlansBusy
  <1> QED
    BY <1>2, <1>3, <1>5, <1>6, <1>7, <1>8, <1>9, <1>10

(* A run that ended.                                                       *)
LEMMA PlansFresh ==
  /\ Plan!NoJob \in PlansJob /\ Plan!NoJob.at = "idle" /\ Plan!NoJob.decision = "none"
  /\ \A d \in {"none", "deny"} :
       LET x == [Plan!NoJob EXCEPT !.decision = d]
       IN x \in PlansJob /\ x.at = "idle" /\ x.decision = d
  <1>1. Plan!NoJob \in PlansJob /\ Plan!NoJob.at = "idle" /\ Plan!NoJob.decision = "none"
    BY DEF Plan!NoJob, PlansJob, PlansAts
  <1> HIDE DEF Plan!NoJob
  <1>2. \A d \in {"none", "deny"} :
          LET x == [Plan!NoJob EXCEPT !.decision = d]
          IN x \in PlansJob /\ x.at = "idle" /\ x.decision = d
    BY <1>1 DEF PlansJob
  <1> QED
    BY <1>1, <1>2

(* The steps of a run before it saves, and those where it gives up.        *)
LEMMA PlansFails ==
  ASSUME PlansInv, NEW p \in Job, NEW d \in {"none", "deny"}, Plan!End(p, d),
         job[p].at = "current" => job[p].slug \in torn',
         UNCHANGED <<dir, daemon, pins>>, torn \subseteq torn', torn' \subseteq Slug
  PROVE  PlansInv'
  <1> DEFINE x == [Plan!NoJob EXCEPT !.decision = d]
  <1>1. job' = [job EXCEPT ![p] = x] /\ x \in PlansJob /\ x.at = "idle" /\ x.decision = d
    BY PlansFresh DEF Plan!End
  <1>2. pins' \in [readable : BOOLEAN, of : [Agent -> PlansPin \cup {None}]]
    BY DEF PlansInv, PlansTypes
  <1> HIDE DEF x
  <1> QED
    BY <1>1, <1>2, PlansEnds DEF PlansBusy

(* A run that fails half way: what was written of its plan may be of it.   *)
LEMMA PlansTears ==
  ASSUME PlansInv, NEW p \in Job, Plan!End(p, "deny"), NEW s \in Slug, torn' = torn \cup {s},
         job[p].at = "current" => job[p].slug = s,
         UNCHANGED <<daemon, pins>>,
         dir' \in [Slug -> [versions : PlansVersions, current : Plan!Content \cup {None}]],
         \A t \in Slug \ {s} : dir'[t] = dir[t],
         dir[s].current # None => dir'[s].current # None,
         PlansLast(s) <= PlansLast(s)'
  PROVE  PlansInv'
  <1> USE DEF PlansInv
  <1> DEFINE x == [Plan!NoJob EXCEPT !.decision = "deny"]
  <1>0. job' = [job EXCEPT ![p] = x] /\ x \in PlansJob /\ x.at = "idle" /\ x.decision = "deny"
    BY PlansFresh DEF Plan!End
  <1> HIDE DEF x
  <1>1. job' \in [Job -> PlansJob] /\ job'[p] = x /\ \A q \in Job \ {p} : job'[q] = job[q]
    BY <1>0, PlansGoes
  <1>2. PlansTypes'
    BY <1>1 DEF PlansTypes
  <1>3. PlansNamed'
    BY <1>0, <1>1 DEF PlansNamed
  <1>4. \A q \in Job : /\ job[q].at \in PlansBusy => job[q].slug \in Slug
                       /\ (job[q].decision = "allow" \/ job[q].at = "emit") => job[q].slug \in Slug
    BY DEF PlansNamed, PlansTypes, PlansJob, PlansBusy
  <1>5. /\ \A t \in Slug \ {s} : PlansLast(t)' = PlansLast(t)
        /\ \A t \in Slug : PlansLast(t) \in Nat /\ PlansLast(t)' \in Nat /\ PlansLast(t) <= PlansLast(t)'
    <2>1. \A t \in Slug \ {s} : PlansLast(t)' = PlansLast(t)
      BY DEF PlansLast, Plan!LatestPlanVersion
    <2>2. \A t \in Slug : PlansLast(t) \in Nat
      BY PlansLatest
    <2>3. \A t \in Slug : PlansLast(t)' \in Nat
      <3>1. \A t \in Slug : \E n \in Nat : DOMAIN dir'[t].versions = 1..n
        BY DEF PlansVersions
      <3> QED
        BY <3>1, PlansCounted DEF PlansLast, Plan!LatestPlanVersion
    <2> QED
      BY <2>1, <2>2, <2>3
  <1>6. PlansNumbered'
    <2>1. \A q \in Job \ {p} : /\ job[q].at = "write" => job[q].ver \in 1..(PlansLast(job[q].slug)' + 1)
                               /\ job[q].at \in PlansWritten => job[q].ver \in 1..PlansLast(job[q].slug)'
      BY <1>1, <1>4, <1>5 DEF PlansNumbered, PlansBusy, PlansWritten
    <2> QED
      BY <1>0, <1>1, <2>1 DEF PlansNumbered, PlansWritten
  <1>7. PlansShown'
    <2>1. \A t \in Slug : dir[t].current # None => dir'[t].current # None
      OBVIOUS
    <2> QED
      BY <1>0, <1>1, <1>4, <2>1 DEF PlansShown, PlansBusy
  <1>8. PlansAlone'
    BY <1>0, <1>1 DEF PlansAlone, PlansBusy
  <1>9. PlansCurrent'
    <2>1. ASSUME NEW t \in Slug \ torn', \A q \in Job : job'[q].slug = t => job'[q].at # "current"
          PROVE  \A q \in Job : job[q].slug = t => job[q].at # "current"
      BY <1>1, <2>1
    <2>2. \A t \in Slug \ torn' : t \in Slug \ torn /\ dir'[t] = dir[t] /\ PlansLast(t)' = PlansLast(t)
      BY <1>5
    <2> QED
      BY <2>1, <2>2 DEF PlansCurrent
  <1>10. PlansOwned'
    <2>1. ASSUME NEW q \in Job \ {p}, job[q].at \in PlansBusy, job[q].slug \notin torn' PROVE PlansOwn(q)'
      <3>1. PlansOwn(q) /\ job[q].slug \in Slug \ {s}
        BY <1>4, <2>1 DEF PlansOwned
      <3> QED
        BY <1>1, <1>5, <3>1 DEF PlansOwn
    <2> QED
      BY <1>0, <1>1, <2>1 DEF PlansOwned, PlansBusy
  <1>11. PlansAllowed'
    <2>1. ASSUME NEW q \in Job \ {p}, PlansApproved(q), job[q].slug \in Slug PROVE PlansApproved(q)'
      BY <1>1, <1>5, <2>1 DEF PlansApproved
    <2> QED
      BY <1>0, <1>1, <1>4, <2>1 DEF PlansAllowed
  <1> QED
    BY <1>2, <1>3, <1>6, <1>7, <1>8, <1>9, <1>10, <1>11

(* What vN.md says is among the versions afterwards.                       *)
LEMMA PlansSets ==
  ASSUME PlansTypes, NEW s \in Slug, NEW m \in Nat, NEW w \in [1..m -> Plan!Content],
         dir' = [dir EXCEPT ![s].versions = w]
  PROVE  /\ dir' \in [Slug -> [versions : PlansVersions, current : Plan!Content \cup {None}]]
         /\ dir'[s].versions = w /\ dir'[s].current = dir[s].current
         /\ \A t \in Slug \ {s} : dir'[t] = dir[t]
         /\ PlansLast(s)' = m /\ \A t \in Slug \ {s} : PlansLast(t)' = PlansLast(t)
  <1>1. w \in PlansVersions
    BY DEF PlansVersions
  <1>2. /\ dir' \in [Slug -> [versions : PlansVersions, current : Plan!Content \cup {None}]]
        /\ dir'[s].versions = w /\ dir'[s].current = dir[s].current
        /\ \A t \in Slug \ {s} : dir'[t] = dir[t]
    <2> DEFINE VS == PlansVersions
               D == [versions : VS, current : Plan!Content \cup {None}]
    <2> HIDE DEF VS
    <2>1. dir \in [Slug -> D] /\ w \in VS
      BY <1>1 DEF PlansTypes, VS
    <2>2. /\ dir' \in [Slug -> D]
          /\ dir'[s].versions = w /\ dir'[s].current = dir[s].current
          /\ \A t \in Slug \ {s} : dir'[t] = dir[t]
      BY <2>1
    <2> QED
      BY <2>2 DEF VS
  <1>3. PlansLast(s)' = m /\ \A t \in Slug \ {s} : PlansLast(t)' = PlansLast(t)
    <2>1. DOMAIN w = 1..m
      OBVIOUS
    <2>2. PlansLast(s)' = Plan!Max(DOMAIN w \cup {0})
      BY <1>2 DEF PlansLast, Plan!LatestPlanVersion
    <2>3. \A t \in Slug \ {s} : PlansLast(t)' = PlansLast(t)
      BY <1>2 DEF PlansLast, Plan!LatestPlanVersion
    <2> QED
      BY <2>1, <2>2, <2>3, PlansCounted
  <1> QED
    BY <1>2, <1>3

(* A run that has not yet written anything.                                *)
LEMMA PlansRuns ==
  ASSUME PlansInv, NEW p \in Job,
         \/ Plan!RunPlanHook(p) \/ Plan!RunPlan(p) \/ Plan!LookupPlanSlug(p) \/ Plan!SavePlanSlug(p)
         \/ Plan!SavePlanWithoutReview(p)
  PROVE  PlansInv'
  <1> USE DEF PlansInv
  <1>0. torn \subseteq Slug /\ job[p] \in PlansJob
    BY DEF PlansTypes
  <1>1. UNCHANGED <<dir, daemon, torn>> /\ job[p].at \in {"idle", "lookup", "pin", "compare"}
    BY DEF Plan!RunPlanHook, Plan!RunPlan, Plan!LookupPlanSlug, Plan!SavePlanSlug,
      Plan!SavePlanWithoutReview
  <1>2. pins' \in [readable : BOOLEAN, of : [Agent -> PlansPin \cup {None}]]
    <2>1. CASE UNCHANGED pins
      BY <2>1 DEF PlansTypes
    <2>2. CASE Plan!SavePlanSlug(p)
      <3> DEFINE f == [a \in Agent |-> IF a = job[p].agent THEN [slug |-> job[p].slug, old |-> FALSE]
                                       ELSE IF pins.of[a] # None /\ pins.of[a].old THEN None ELSE pins.of[a]]
      <3>1. job[p].slug \in Slug
        BY <1>0, <2>2 DEF PlansNamed, Plan!SavePlanSlug, PlansJob
      <3>2. f \in [Agent -> PlansPin \cup {None}]
        <4>1. \A a \in Agent : pins.of[a] \in PlansPin \cup {None}
          BY DEF PlansTypes
        <4>2. [slug |-> job[p].slug, old |-> FALSE] \in PlansPin
          BY <3>1 DEF PlansPin
        <4> QED
          BY <4>1, <4>2
      <3>3. pins' = pins \/ pins' = [pins EXCEPT !.of = f]
        BY <2>2 DEF Plan!SavePlanSlug
      <3> HIDE DEF f
      <3> QED
        BY <3>2, <3>3 DEF PlansTypes
    <2> QED
      BY <2>1, <2>2 DEF Plan!RunPlanHook, Plan!RunPlan, Plan!LookupPlanSlug, Plan!SavePlanWithoutReview
  <1>3. ASSUME NEW d \in {"none", "deny"}, Plan!End(p, d), UNCHANGED pins PROVE PlansInv'
    BY <1>0, <1>1, <1>3, PlansFails
  <1>4. ASSUME NEW x \in PlansJob, job' = [job EXCEPT ![p] = x],
               x.at \in {"lookup", "pin", "compare", "pick"}, x.content # None, x.decision # "allow",
               x.at # "lookup" => x.slug # None
        PROVE  PlansInv'
    <2>1. x.at \notin PlansBusy
      BY <1>4 DEF PlansBusy
    <2> QED
      BY <1>0, <1>1, <1>2, <1>4, <2>1, PlansEnds
  <1>5. \A c \in Plan!Content : c # None
    BY ToolsAssumption DEF Plan!Content
  <1>6. CASE Plan!RunPlanHook(p)
    <2>1. CASE \E a \in Agent \cup {None}, c \in Plan!Content :
                 job' = [job EXCEPT ![p] = [Plan!NoJob EXCEPT !.at = "lookup", !.kind = "review",
                                                             !.agent = a, !.content = c]]
      <3>1. PICK a \in Agent \cup {None}, c \in Plan!Content :
                   job' = [job EXCEPT ![p] = [Plan!NoJob EXCEPT !.at = "lookup", !.kind = "review",
                                                               !.agent = a, !.content = c]]
        BY <2>1
      <3> DEFINE x == [Plan!NoJob EXCEPT !.at = "lookup", !.kind = "review", !.agent = a, !.content = c]
      <3>2. x \in PlansJob /\ x.at = "lookup" /\ x.content = c /\ x.decision = "none"
        BY PlansFresh DEF PlansJob, PlansAts
      <3> HIDE DEF x
      <3> QED
        BY <1>4, <1>5, <3>1, <3>2 DEF x
    <2>2. CASE Plan!End(p, "deny") \/ Plan!End(p, "none")
      BY <1>3, <1>6, <2>2 DEF Plan!RunPlanHook
    <2> QED
      BY <1>6, <2>1, <2>2 DEF Plan!RunPlanHook
  <1>7. CASE Plan!RunPlan(p)
    <2>1. PICK kind \in {"review", "save"}, s \in Slug, c \in Plan!Content :
            job' = [job EXCEPT ![p] = [Plan!NoJob EXCEPT !.kind = kind, !.content = c, !.slug = s,
                                         !.at = IF kind = "save" THEN "compare" ELSE "pick"]]
      BY <1>7 DEF Plan!RunPlan
    <2> DEFINE at == IF kind = "save" THEN "compare" ELSE "pick"
               x == [Plan!NoJob EXCEPT !.kind = kind, !.content = c, !.slug = s, !.at = at]
    <2>2. at \in PlansAts /\ at \in {"compare", "pick"}
      BY DEF PlansAts
    <2>3. job' = [job EXCEPT ![p] = x]
      BY <2>1
    <2> HIDE DEF at
    <2>4. x \in PlansJob /\ x.at = at /\ x.content = c /\ x.decision = "none" /\ x.slug = s
      BY <2>2, PlansFresh DEF PlansJob
    <2>5. s # None
      BY ToolsAssumption
    <2> HIDE DEF x
    <2> QED
      BY <1>4, <1>5, <2>2, <2>3, <2>4, <2>5
  <1>8. CASE Plan!LookupPlanSlug(p)
    <2> DEFINE a == job[p].agent
               pinned == a # None /\ pins.readable /\ pins.of[a] # None
               slug == IF pinned THEN pins.of[a].slug ELSE job[p].content.heading
               at == IF pinned \/ a = None THEN "pick" ELSE "pin"
               x == [job[p] EXCEPT !.slug = slug, !.at = at]
    <2>1. job' = [job EXCEPT ![p] = x] /\ job[p].at = "lookup"
      BY <1>8 DEF Plan!LookupPlanSlug, PlansTypes
    <2>2. job[p].content \in Plan!Content /\ job[p].decision # "allow" /\ a \in Agent \cup {None}
      BY <1>0, <2>1 DEF PlansNamed, PlansJob
    <2>3. slug \in Slug /\ slug # None
      <3>1. pinned => pins.of[a] \in PlansPin
        BY <2>2 DEF PlansTypes
      <3> QED
        BY <2>2, <3>1, ToolsAssumption DEF PlansPin, Plan!Content
    <2>4. at \in {"pick", "pin"}
      OBVIOUS
    <2> HIDE DEF slug, at
    <2>5. /\ x \in PlansJob /\ x.at = at /\ x.content = job[p].content /\ x.slug = slug
          /\ x.decision = job[p].decision
      BY <1>0, <2>3, <2>4 DEF PlansJob, PlansAts
    <2> HIDE DEF x
    <2> QED
      BY <1>4, <1>5, <2>1, <2>2, <2>3, <2>4, <2>5
  <1>9. CASE (Plan!SavePlanSlug(p) \/ Plan!SavePlanWithoutReview(p)) /\ Plan!Goto(p, "pick")
    <2> DEFINE x == [job[p] EXCEPT !.at = "pick"]
    <2>1. job' = [job EXCEPT ![p] = x] /\ job[p].at \in {"pin", "compare"}
      BY <1>9 DEF Plan!SavePlanSlug, Plan!SavePlanWithoutReview, Plan!Goto, PlansTypes
    <2>2. /\ x \in PlansJob /\ x.at = "pick" /\ x.content = job[p].content /\ x.slug = job[p].slug
          /\ x.decision = job[p].decision
      BY <1>0 DEF PlansJob, PlansAts
    <2>3. job[p].content # None /\ job[p].decision # "allow" /\ job[p].slug # None
      BY <2>1 DEF PlansNamed
    <2> HIDE DEF x
    <2> QED
      BY <1>4, <2>1, <2>2, <2>3
  <1> QED
    BY <1>3, <1>6, <1>7, <1>8, <1>9 DEF Plan!SavePlanSlug, Plan!SavePlanWithoutReview

(* A number is picked, under which no other saves unless the slug is torn. *)
LEMMA PlansPicks ==
  ASSUME PlansInv, NEW p \in Job, Plan!PickVersion(p)
  PROVE  PlansInv'
  <1> USE DEF PlansInv
  <1> DEFINE s == job[p].slug
             n == PlansLast(s) + 1
             x == [job[p] EXCEPT !.ver = n, !.at = "write"]
  <1>1. /\ job[p].at = "pick" /\ job' = [job EXCEPT ![p] = x] /\ UNCHANGED <<dir, daemon, pins>>
        /\ torn' = torn \cup {t \in {s} : \E q \in Job \ {p} : Plan!Busy(q) /\ job[q].slug = t}
    BY DEF Plan!PickVersion, PlansTypes, PlansLast
  <1>2. /\ job[p].content # None /\ s # None /\ s \in Slug /\ job[p].decision # "allow"
        /\ job[p] \in PlansJob
    BY <1>1 DEF PlansNamed, PlansTypes, PlansJob
  <1>3. PlansLast(s) \in Nat
    BY <1>2, PlansLatest
  <1>4. /\ x \in PlansJob /\ x.at = "write" /\ x.ver = PlansLast(s) + 1 /\ x.content = job[p].content
        /\ x.slug = s /\ x.decision = job[p].decision
    <2>1. n \in Nat
      BY <1>3
    <2> DEFINE j == job[p]
    <2> HIDE DEF n, j
    <2>2. j \in PlansJob
      BY <1>2 DEF j
    <2>3. LET y == [j EXCEPT !.ver = n, !.at = "write"]
          IN /\ y \in PlansJob /\ y.at = "write" /\ y.ver = n /\ y.content = j.content
             /\ y.slug = j.slug /\ y.decision = j.decision
      BY <2>1, <2>2 DEF PlansJob, PlansAts
    <2> QED
      BY <2>3 DEF j, n
  <1>5. job' \in [Job -> PlansJob] /\ job'[p] = x /\ \A q \in Job \ {p} : job'[q] = job[q]
    BY <1>1, <1>4, PlansGoes
  <1> HIDE DEF x
  <1>6. PlansTypes'
    BY <1>1, <1>2, <1>5 DEF PlansTypes
  <1>7. PlansNamed'
    BY <1>2, <1>4, <1>5 DEF PlansNamed
  <1>8. \A t : PlansLast(t)' = PlansLast(t)
    BY <1>1 DEF PlansLast, Plan!LatestPlanVersion
  <1>9. PlansNumbered'
    BY <1>3, <1>4, <1>5, <1>8 DEF PlansNumbered, PlansWritten
  <1>10. PlansShown'
    BY <1>1, <1>4, <1>5 DEF PlansShown
  <1>11. PlansAlone'
    <2>1. s \notin torn' => \A q \in Job \ {p} : ~(job[q].at \in PlansBusy /\ job[q].slug = s)
      BY <1>1 DEF Plan!Busy, Plan!Saving, PlansBusy
    <2> QED
      BY <1>1, <1>4, <1>5, <2>1 DEF PlansAlone
  <1>12. PlansCurrent'
    <2>1. ASSUME NEW t \in Slug, \A q \in Job : job'[q].slug = t => job'[q].at # "current"
          PROVE  \A q \in Job : job[q].slug = t => job[q].at # "current"
      BY <1>1, <1>5, <2>1
    <2> QED
      BY <1>1, <1>8, <2>1 DEF PlansCurrent
  <1>13. PlansOwned'
    <2>1. PlansOwn(p)'
      BY <1>4, <1>5, <1>8 DEF PlansOwn, PlansWritten
    <2>2. \A q \in Job \ {p} : PlansOwn(q) => PlansOwn(q)'
      BY <1>1, <1>5, <1>8 DEF PlansOwn
    <2> QED
      BY <1>1, <1>5, <2>1, <2>2 DEF PlansOwned
  <1>14. PlansAllowed'
    <2>1. \A q \in Job \ {p} : PlansApproved(q) => PlansApproved(q)'
      BY <1>1, <1>5, <1>8 DEF PlansApproved
    <2> QED
      BY <1>2, <1>4, <1>5, <2>1 DEF PlansAllowed
  <1> QED
    BY <1>6, <1>7, <1>9, <1>10, <1>11, <1>12, <1>13, <1>14

(* Writing vN.md: the next number, or one that another run wrote           *)
(* meanwhile.                                                              *)
LEMMA PlansWrites ==
  ASSUME PlansInv, NEW p \in Job, Plan!WriteVersion(p)
  PROVE  PlansInv'
  <1> USE DEF PlansInv
  <1>0. PICK s \in Slug, v \in Nat, n \in Nat, vs \in PlansVersions :
          /\ s = job[p].slug /\ v = job[p].ver /\ n = PlansLast(job[p].slug)
          /\ vs = dir[job[p].slug].versions
    <2>1. job[p].slug \in Slug /\ job[p].ver \in Nat
      BY DEF PlansNamed, PlansTypes, PlansJob, Plan!WriteVersion
    <2>2. dir[job[p].slug].versions \in PlansVersions /\ PlansLast(job[p].slug) \in Nat
      BY <2>1, PlansLatest DEF PlansTypes
    <2> QED
      BY <2>1, <2>2, Zenon
  <1>a. v \in 1..(n + 1) /\ n = PlansLast(s) /\ vs = dir[s].versions /\ job[p].at = "write"
    BY <1>0 DEF PlansNumbered, Plan!WriteVersion
  <1>b. vs \in [1..n -> Plan!Content]
    BY <1>a, PlansLatest
  <1>1. CASE Plan!Fail(p) /\ UNCHANGED <<dir, torn>>
    <2>1. /\ job[p].at = "write" /\ UNCHANGED <<dir, daemon, pins, torn>> /\ torn \subseteq Slug
          /\ Plan!End(p, "deny")
      BY <1>1 DEF Plan!WriteVersion, PlansTypes, Plan!Fail
    <2> QED
      BY <2>1, PlansFails
  <1>3. ASSUME NEW c \in Plan!Content, Plan!FailHalfWay(p), Plan!SetVersion(p, c) PROVE PlansInv'
    <2> DEFINE w == [i \in DOMAIN vs \cup {v} |-> IF i = v THEN c ELSE vs[i]]
               m == IF v = n + 1 THEN n + 1 ELSE n
    <2>1. /\ job[p].at = "write" /\ UNCHANGED <<pins, daemon>> /\ torn' = torn \cup {s}
          /\ Plan!End(p, "deny")
      BY <1>0, <1>3 DEF Plan!WriteVersion, Plan!FailHalfWay, Plan!Fail
    <2>2. dir' = [dir EXCEPT ![s].versions = w]
      BY <1>0, <1>3 DEF Plan!SetVersion
    <2>3. w \in [1..m -> Plan!Content] /\ m \in Nat /\ n <= m
      BY <1>a, <1>b, PlansAppend
    <2> HIDE DEF w, m
    <2>4. /\ dir' \in [Slug -> [versions : PlansVersions, current : Plan!Content \cup {None}]]
          /\ dir'[s].current = dir[s].current /\ \A t \in Slug \ {s} : dir'[t] = dir[t]
          /\ PlansLast(s)' = m
      BY <2>2, <2>3, PlansSets
    <2> QED
      BY <1>a, <2>1, <2>3, <2>4, PlansTears
  <1>2. CASE Plan!SetVersion(p, job[p].content) /\ Plan!Goto(p, "current") /\ UNCHANGED torn
    <2> DEFINE x == [job[p] EXCEPT !.at = "current"]
    <2>0. PICK c \in Plan!Content : c = job[p].content
      BY <1>a DEF PlansNamed, PlansTypes, PlansJob
    <2> DEFINE w == [i \in DOMAIN vs \cup {v} |-> IF i = v THEN c ELSE vs[i]]
               m == IF v = n + 1 THEN n + 1 ELSE n
    <2>1. /\ job[p].at = "write" /\ UNCHANGED <<pins, daemon, torn>> /\ job' = [job EXCEPT ![p] = x]
          /\ dir' = [dir EXCEPT ![s].versions = w]
      BY <1>0, <1>2, <2>0 DEF Plan!WriteVersion, Plan!Goto, Plan!SetVersion, PlansTypes
    <2>2. /\ s \in Slug /\ s # None /\ c \in Plan!Content /\ c # None /\ v \in 1..(n + 1)
          /\ job[p].decision # "allow" /\ job[p] \in PlansJob /\ s = job[p].slug /\ v = job[p].ver
          /\ c = job[p].content /\ n = PlansLast(s)
      BY <1>0, <1>a, <2>0 DEF PlansNamed, PlansTypes, PlansJob
    <2>3. n \in Nat /\ vs \in [1..n -> Plan!Content] /\ vs = dir[s].versions
      BY <1>0, <2>2, PlansLatest
    <2>4. m \in Nat /\ n <= m /\ v \in 1..m
      BY <2>2, <2>3
    <2>5. w \in [1..m -> Plan!Content] /\ w[v] = c /\ \A i \in 1..n \ {v} : w[i] = vs[i]
      BY <2>2, <2>3, PlansAppend
    <2>7. job' \in [Job -> PlansJob] /\ job'[p].at = "current" /\ job'[p].slug = s /\ job'[p].ver = v
          /\ job'[p].content = c /\ job'[p].decision # "allow"
          /\ \A q \in Job \ {p} : job'[q] = job[q]
      <3>1. /\ x \in PlansJob /\ x.at = "current" /\ x.ver = v /\ x.content = c /\ x.slug = s
            /\ x.decision = job[p].decision
        BY <2>2 DEF PlansJob, PlansAts
      <3> HIDE DEF x
      <3> QED
        BY <2>1, <2>2, <3>1, PlansGoes
    <2> HIDE DEF w, m
    <2>8. /\ dir' \in [Slug -> [versions : PlansVersions, current : Plan!Content \cup {None}]]
          /\ dir'[s].versions = w /\ dir'[s].current = dir[s].current
          /\ \A t \in Slug \ {s} : dir'[t] = dir[t]
          /\ PlansLast(s)' = m /\ \A t \in Slug \ {s} : PlansLast(t)' = PlansLast(t)
      BY <2>1, <2>2, <2>4, <2>5, PlansSets
    <2>9. PlansLast(s)' = m /\ \A t \in Slug \ {s} : PlansLast(t)' = PlansLast(t)
      BY <2>8
    <2>10. s \notin torn => v = n + 1 /\ m = n + 1
      BY <2>1, <2>2 DEF PlansOwned, PlansOwn, PlansBusy, m
    <2>11. s \notin torn => \A i \in 1..n : i \in 1..m /\ w[i] = vs[i]
      BY <2>2, <2>3, <2>5, <2>10
    <2> HIDE DEF x
    <2>12. PlansTypes'
      BY <2>1, <2>7, <2>8 DEF PlansTypes
    <2>13. PlansNamed'
      BY <2>2, <2>7 DEF PlansNamed
    <2>14. PlansNumbered'
      <3>1. \A q \in Job \ {p} : job[q].at \in PlansBusy => job[q].slug \in Slug
        BY DEF PlansNamed, PlansTypes, PlansJob, PlansBusy
      <3>2. \A t \in Slug : PlansLast(t) \in Nat /\ PlansLast(t)' \in Nat /\ PlansLast(t) <= PlansLast(t)'
        BY <2>2, <2>3, <2>4, <2>9, PlansLatest
      <3>3. \A q \in Job \ {p} : /\ job[q].at = "write" => job[q].ver \in 1..(PlansLast(job[q].slug)' + 1)
                                 /\ job[q].at \in PlansWritten => job[q].ver \in 1..PlansLast(job[q].slug)'
        BY <2>7, <3>1, <3>2 DEF PlansNumbered, PlansBusy, PlansWritten
      <3> QED
        BY <2>4, <2>7, <2>9, <3>3 DEF PlansNumbered, PlansWritten
    <2>15. \A t \in Slug : dir'[t].current = dir[t].current
      BY <2>8
    <2>16. PlansShown'
      <3>1. \A q \in Job : job[q].at \in {"connect", "wait", "emit"} => job[q].slug \in Slug
        BY DEF PlansNamed, PlansTypes, PlansJob
      <3> QED
        BY <2>1, <2>7, <2>15, <3>1 DEF PlansShown
    <2>17. PlansAlone'
      BY <2>1, <2>2, <2>7 DEF PlansAlone, PlansBusy
    <2>18. PlansCurrent'
      <3>1. ASSUME NEW t \in Slug \ torn, NEW y, \E i \in 1..PlansLast(t) : dir[t].versions[i] = y
            PROVE  \E i \in 1..PlansLast(t)' : dir'[t].versions[i] = y
        <4>1. PICK i \in 1..PlansLast(t) : dir[t].versions[i] = y
          BY <3>1
        <4>2. i \in 1..PlansLast(t)' /\ dir'[t].versions[i] = y
          BY <2>2, <2>3, <2>8, <2>9, <2>11, <4>1
        <4> QED
          BY <4>2
      <3>2. ASSUME NEW t \in Slug \ torn, \A q \in Job : job'[q].slug = t => job'[q].at # "current",
                   PlansLast(t)' > 0
            PROVE  dir'[t].current = dir'[t].versions[PlansLast(t)']
        <4>1. t # s
          BY <2>7, <3>2
        <4>2. \A q \in Job : job[q].slug = t => job[q].at # "current"
          BY <2>2, <2>7, <3>2, <4>1
        <4> QED
          BY <2>8, <2>9, <3>2, <4>1, <4>2 DEF PlansCurrent
      <3>3. ASSUME NEW t \in Slug \ torn, dir'[t].current # None
            PROVE  \E i \in 1..PlansLast(t)' : dir'[t].versions[i] = dir'[t].current
        <4>1. t \in Slug /\ t \notin torn /\ dir[t].current # None
          BY <2>15, <3>3
        <4>2. \E i \in 1..PlansLast(t) : dir[t].versions[i] = dir[t].current
          BY <4>1 DEF PlansCurrent
        <4>3. \E i \in 1..PlansLast(t)' : dir'[t].versions[i] = dir[t].current
          BY <3>1, <4>2
        <4> QED
          BY <2>15, <4>3
      <3>4. ASSUME NEW t \in Slug \ torn, daemon[t].alive
            PROVE  \E i \in 1..PlansLast(t)' : dir'[t].versions[i] = daemon[t].shown
        BY <3>1, <3>4 DEF PlansCurrent
      <3> QED
        BY <2>1, <3>2, <3>3, <3>4 DEF PlansCurrent
    <2>19. PlansOwned'
      <3>1. s \notin torn => PlansOwn(p)'
        BY <2>5, <2>7, <2>8, <2>9, <2>10 DEF PlansOwn, PlansWritten
      <3>2. ASSUME NEW q \in Job \ {p}, job[q].at \in PlansBusy, job[q].slug \notin torn PROVE PlansOwn(q)'
        <4>1. job[q].slug # s /\ job[q].slug \in Slug
          BY <2>1, <2>2, <3>2 DEF PlansAlone, PlansBusy, PlansNamed, PlansTypes, PlansJob
        <4>2. PlansOwn(q)
          BY <3>2 DEF PlansOwned
        <4> QED
          BY <2>1, <2>7, <2>8, <2>9, <4>1, <4>2 DEF PlansOwn
      <3> QED
        BY <2>1, <2>7, <3>1, <3>2 DEF PlansOwned
    <2>20. PlansAllowed'
      <3>1. ASSUME NEW q \in Job \ {p}, PlansApproved(q), job[q].slug \in Slug PROVE PlansApproved(q)'
        <4>1. CASE job[q].slug \in torn
          BY <2>1, <2>7, <3>1, <4>1 DEF PlansApproved
        <4>2. CASE job[q].slug \notin torn
          <5>0. PICK t \in Slug : t = job[q].slug
            BY <3>1
          <5> DEFINE own == IF job[q].own THEN {job[q].ver} ELSE 1..job[q].ver
          <5>1. PICK i \in own \cap 1..PlansLast(t) : dir[t].versions[i] = job[q].saw
            BY <3>1, <4>2, <5>0 DEF PlansApproved
          <5>2. i \in 1..PlansLast(t)' /\ dir'[t].versions[i] = job[q].saw
            BY <2>2, <2>3, <2>8, <2>9, <2>11, <3>1, <4>2, <5>0, <5>1
          <5> QED
            BY <2>1, <2>7, <3>1, <5>0, <5>1, <5>2 DEF PlansApproved
        <4> QED
          BY <4>1, <4>2
      <3>2. \A q \in Job : job[q].decision = "allow" \/ (job[q].at = "emit" /\ job[q].approved) =>
              job[q].slug \in Slug
        BY DEF PlansNamed, PlansTypes, PlansJob
      <3> QED
        BY <2>7, <3>1, <3>2 DEF PlansAllowed
    <2> QED
      BY <2>12, <2>13, <2>14, <2>16, <2>17, <2>18, <2>19, <2>20
  <1> QED
    BY <1>1, <1>2, <1>3 DEF Plan!WriteVersion

(* Writing current.md.                                                     *)
LEMMA PlansWritesCurrent ==
  ASSUME PlansInv, NEW p \in Job, Plan!WriteCurrent(p)
  PROVE  PlansInv'
  <1> USE DEF PlansInv
  <1> DEFINE s == job[p].slug
             c == job[p].content
  <1>0. /\ job[p].at = "current" /\ UNCHANGED <<pins, daemon>> /\ s \in Slug /\ c \in Plan!Content /\ c # None
        /\ s # None /\ job[p].decision # "allow" /\ job[p] \in PlansJob
    BY DEF Plan!WriteCurrent, PlansNamed, PlansTypes, PlansJob
  <1>1. CASE Plan!FailHalfWay(p) /\ UNCHANGED dir
    <2>1. Plan!End(p, "deny") /\ torn' = torn \cup {s} /\ torn' \subseteq Slug
      BY <1>0, <1>1 DEF Plan!FailHalfWay, Plan!Fail, PlansTypes
    <2> QED
      BY <1>0, <1>1, <2>1, PlansFails
  <1>3. ASSUME NEW k \in Plan!Content, Plan!FailHalfWay(p), Plan!SetCurrent(p, k) PROVE PlansInv'
    <2>1. PICK t \in Slug : t = s
      BY <1>0
    <2>2. /\ Plan!End(p, "deny") /\ torn' = torn \cup {t} /\ dir' = [dir EXCEPT ![t].current = k]
          /\ job[p].slug = t
      BY <1>3, <2>1 DEF Plan!FailHalfWay, Plan!Fail, Plan!SetCurrent
    <2>3. k # None
      BY ToolsAssumption DEF Plan!Content
    <2>4. /\ dir' \in [Slug -> [versions : PlansVersions, current : Plan!Content \cup {None}]]
          /\ dir'[t].current = k /\ dir'[t].versions = dir[t].versions
          /\ \A u \in Slug \ {t} : dir'[u] = dir[u]
      <3> DEFINE VS == PlansVersions
                 D == [versions : VS, current : Plan!Content \cup {None}]
      <3> HIDE DEF VS
      <3>1. dir \in [Slug -> D]
        BY DEF PlansTypes, VS
      <3>2. /\ dir' \in [Slug -> D]
            /\ dir'[t].current = k /\ dir'[t].versions = dir[t].versions
            /\ \A u \in Slug \ {t} : dir'[u] = dir[u]
        BY <2>2, <3>1
      <3> QED
        BY <3>2 DEF VS
    <2>5. PlansLast(t) \in Nat /\ PlansLast(t)' = PlansLast(t)
      BY <2>4, PlansLatest DEF PlansLast, Plan!LatestPlanVersion
    <2> HIDE DEF s, c
    <2> QED
      BY <1>0, <2>2, <2>3, <2>4, <2>5, PlansTears
  <1>2. CASE /\ dir' = [dir EXCEPT ![s].current = c]
             /\ IF job[p].kind = "save" THEN Plan!End(p, "none") ELSE Plan!Goto(p, "connect")
             /\ UNCHANGED torn
    <2>1. \E x \in PlansJob : /\ job' = [job EXCEPT ![p] = x] /\ x.decision # "allow"
                              /\ \/ x.at = "idle"
                                 \/ x.at = "connect" /\ x.slug = s /\ x.ver = job[p].ver /\ x.content = c
      <3>1. CASE job[p].kind = "save"
        <4> DEFINE x == [Plan!NoJob EXCEPT !.decision = "none"]
        <4>1. job' = [job EXCEPT ![p] = x] /\ x \in PlansJob /\ x.at = "idle" /\ x.decision = "none"
          BY <1>2, <3>1, PlansFresh DEF Plan!End
        <4> HIDE DEF x
        <4> QED
          BY <4>1
      <3>2. CASE job[p].kind # "save"
        <4> DEFINE x == [job[p] EXCEPT !.at = "connect"]
        <4>1. job' = [job EXCEPT ![p] = x]
          BY <1>2, <3>2 DEF Plan!Goto, PlansTypes
        <4>2. /\ x \in PlansJob /\ x.at = "connect" /\ x.ver = job[p].ver /\ x.content = c /\ x.slug = s
              /\ x.decision = job[p].decision
          BY <1>0 DEF PlansJob, PlansAts
        <4> HIDE DEF x
        <4> QED
          BY <1>0, <4>1, <4>2
      <3> QED
        BY <3>1, <3>2
    <2>2. PICK x \in PlansJob : /\ job' = [job EXCEPT ![p] = x] /\ x.decision # "allow"
                                /\ \/ x.at = "idle"
                                   \/ x.at = "connect" /\ x.slug = s /\ x.ver = job[p].ver /\ x.content = c
      BY <2>1
    <2>3. job' \in [Job -> PlansJob] /\ job'[p] = x /\ \A q \in Job \ {p} : job'[q] = job[q]
      BY <2>2, PlansGoes
    <2>4. /\ dir' \in [Slug -> [versions : PlansVersions, current : Plan!Content \cup {None}]]
          /\ dir'[s].current = c
          /\ \A t \in Slug : dir'[t].versions = dir[t].versions
          /\ \A t \in Slug \ {s} : dir'[t] = dir[t]
      <3> DEFINE VS == PlansVersions
                 D == [versions : VS, current : Plan!Content \cup {None}]
      <3> HIDE DEF VS, c, s
      <3>1. dir \in [Slug -> D]
        BY DEF PlansTypes, VS
      <3>2. /\ dir' \in [Slug -> D]
            /\ dir'[s].current = c
            /\ \A t \in Slug : dir'[t].versions = dir[t].versions
            /\ \A t \in Slug \ {s} : dir'[t] = dir[t]
        BY <1>0, <1>2, <3>1
      <3> QED
        BY <3>2 DEF VS
    <2>5. \A t \in Slug : PlansLast(t)' = PlansLast(t)
      BY <2>4 DEF PlansLast, Plan!LatestPlanVersion
    <2>6. /\ \A q \in Job : job[q].at \in PlansBusy => job[q].slug \in Slug
          /\ job'[p].at \in PlansBusy => job'[p].slug \in Slug
      BY <1>0, <2>2, <2>3 DEF PlansNamed, PlansTypes, PlansJob, PlansBusy
    <2>7. PlansTypes'
      BY <1>0, <1>2, <2>3, <2>4 DEF PlansTypes
    <2>8. PlansNamed'
      BY <1>0, <2>2, <2>3 DEF PlansNamed
    <2>9. PlansNumbered'
      BY <1>0, <2>2, <2>3, <2>5, <2>6 DEF PlansNumbered, PlansBusy, PlansWritten
    <2>10. PlansShown'
      <3>1. \A t \in Slug : dir[t].current # None => dir'[t].current # None
        BY <1>0, <2>4
      <3> QED
        BY <1>0, <2>2, <2>3, <2>4, <2>6, <3>1 DEF PlansShown, PlansBusy
    <2>11. PlansAlone'
      BY <1>0, <1>2, <2>2, <2>3 DEF PlansAlone, PlansBusy
    <2>12. s \notin torn => job[p].ver = PlansLast(s) /\ dir[s].versions[PlansLast(s)] = c
                            /\ PlansLast(s) \in 1..PlansLast(s)
      BY <1>0 DEF PlansOwned, PlansOwn, PlansBusy, PlansWritten, PlansNumbered
    <2> HIDE DEF s, c
    <2>13. PlansCurrent'
      <3>1. ASSUME NEW t \in Slug \ torn, t # s, \A q \in Job : job'[q].slug = t => job'[q].at # "current"
            PROVE  \A q \in Job : job[q].slug = t => job[q].at # "current"
        BY <2>3, <3>1 DEF s
      <3>2. ASSUME NEW t \in Slug \ torn
            PROVE  dir'[t].current # None => \E v \in 1..PlansLast(t) : dir[t].versions[v] = dir'[t].current
        BY <2>4, <2>12 DEF PlansCurrent
      <3>3. ASSUME NEW t \in Slug \ torn, \A q \in Job : job'[q].slug = t => job'[q].at # "current",
                   PlansLast(t) > 0
            PROVE  dir'[t].current = dir[t].versions[PlansLast(t)]
        BY <2>4, <2>12, <3>1, <3>3 DEF PlansCurrent
      <3> QED
        BY <1>0, <1>2, <2>4, <2>5, <3>2, <3>3 DEF PlansCurrent
    <2>14. PlansOwned'
      <3>1. s \notin torn => (job'[p].at \in PlansBusy => PlansOwn(p)')
        BY <1>0, <2>2, <2>3, <2>4, <2>5, <2>12 DEF PlansOwn, PlansBusy, PlansWritten
      <3>2. ASSUME NEW q \in Job \ {p}, job[q].at \in PlansBusy, job[q].slug \notin torn PROVE PlansOwn(q)'
        <4>1. PlansOwn(q)
          BY <3>2 DEF PlansOwned
        <4> QED
          BY <1>0, <2>3, <2>4, <2>5, <2>6, <3>2, <4>1 DEF PlansOwn
      <3> QED
        BY <1>2, <2>2, <2>3, <3>1, <3>2 DEF PlansOwned, PlansBusy
    <2>15. PlansAllowed'
      <3>1. \A q \in Job \ {p} : PlansApproved(q) /\ job[q].slug \in Slug => PlansApproved(q)'
        BY <1>2, <2>3, <2>4, <2>5 DEF PlansApproved
      <3>2. \A q \in Job : job[q].decision = "allow" \/ (job[q].at = "emit" /\ job[q].approved) =>
              job[q].slug \in Slug
        BY DEF PlansNamed, PlansTypes, PlansJob
      <3> QED
        BY <2>2, <2>3, <3>1, <3>2 DEF PlansAllowed
    <2> QED
      BY <2>7, <2>8, <2>9, <2>10, <2>11, <2>13, <2>14, <2>15
  <1> QED
    BY <1>1, <1>2, <1>3 DEF Plan!WriteCurrent, Plan!SetCurrent

(* Finding a daemon, or starting one that reads current.md.                *)
LEMMA PlansConnects ==
  ASSUME PlansInv, NEW p \in Job, Plan!ConnectOrStartDaemon(p)
  PROVE  PlansInv'
  <1> USE DEF PlansInv
  <1>1. CASE ~daemon[job[p].slug].alive /\ Plan!Fail(p) /\ UNCHANGED daemon
    <2>1. /\ Plan!End(p, "deny") /\ job[p].at = "connect" /\ UNCHANGED <<dir, daemon, pins, torn>>
          /\ torn \subseteq Slug
      BY <1>1 DEF Plan!ConnectOrStartDaemon, Plan!Fail, PlansTypes
    <2> QED
      BY <2>1, PlansFails
  <1>2. CASE ~(~daemon[job[p].slug].alive /\ Plan!Fail(p) /\ UNCHANGED daemon)
    <2>1. PICK s \in Slug, old \in BOOLEAN : s = job[p].slug /\ old = daemon[job[p].slug].alive
      BY <1>2 DEF Plan!ConnectOrStartDaemon, PlansNamed, PlansTypes, PlansJob
    <2> DEFINE x == [job[p] EXCEPT !.at = "wait", !.own = ~old]
               d == IF old THEN daemon[s] ELSE [alive |-> TRUE, shown |-> dir[s].current]
    <2>2. /\ job[p].at = "connect" /\ UNCHANGED <<dir, pins, torn>>
          /\ job' = [job EXCEPT ![p] = x] /\ daemon' = [daemon EXCEPT ![s] = d]
      BY <1>2, <2>1 DEF Plan!ConnectOrStartDaemon, PlansTypes
    <2>3. /\ job[p] \in PlansJob /\ job[p].content # None /\ job[p].decision # "allow"
          /\ dir[s].current # None /\ dir[s].current \in Plan!Content \cup {None}
          /\ job[p].slug = s /\ s # None
      BY <2>1, <2>2, ToolsAssumption DEF PlansTypes, PlansNamed, PlansShown
    <2>4. /\ x \in PlansJob /\ x.at = "wait" /\ x.own = ~old /\ x.slug = s /\ x.ver = job[p].ver
          /\ x.content = job[p].content /\ x.decision = job[p].decision
      <3> DEFINE own == ~old
      <3>1. own \in BOOLEAN
        BY Zenon
      <3> HIDE DEF own
      <3>2. LET y == [job[p] EXCEPT !.at = "wait", !.own = own]
            IN /\ y \in PlansJob /\ y.at = "wait" /\ y.own = own /\ y.slug = s /\ y.ver = job[p].ver
               /\ y.content = job[p].content /\ y.decision = job[p].decision
        BY <2>3, <3>1 DEF PlansJob, PlansAts
      <3> QED
        BY <3>2 DEF own
    <2>5. d \in [alive : BOOLEAN, shown : Plan!Content \cup {None}] /\ d.alive /\ d.shown # None
      BY <2>1, <2>3 DEF PlansTypes, PlansShown
    <2>6. job' \in [Job -> PlansJob] /\ job'[p] = x /\ \A q \in Job \ {p} : job'[q] = job[q]
      BY <2>2, <2>4, PlansGoes
    <2>7. s \notin torn => /\ PlansLast(s) > 0 /\ dir[s].current = dir[s].versions[PlansLast(s)]
                           /\ job[p].ver = PlansLast(s)
      <3>1. s \notin torn => \A q \in Job : job[q].slug = s => job[q].at # "current"
        BY <2>2, <2>3 DEF PlansAlone, PlansBusy
      <3>2. s \notin torn => job[p].ver = PlansLast(s)
        BY <2>2, <2>3 DEF PlansOwned, PlansOwn, PlansBusy, PlansWritten
      <3>3. PlansLast(s) > 0
        BY <2>2, <2>3, PlansLatest DEF PlansNumbered, PlansWritten
      <3> QED
        BY <3>1, <3>2, <3>3 DEF PlansCurrent
    <2>8. ~old => d.shown = dir[s].current
      OBVIOUS
    <2>9. old => d = daemon[s]
      OBVIOUS
    <2> HIDE DEF x, d
    <2>10. daemon' \in [Slug -> [alive : BOOLEAN, shown : Plan!Content \cup {None}]] /\ daemon'[s] = d
           /\ \A t \in Slug \ {s} : daemon'[t] = daemon[t]
      BY <2>2, <2>5 DEF PlansTypes
    <2>11. \A t : PlansLast(t)' = PlansLast(t)
      BY <2>2 DEF PlansLast, Plan!LatestPlanVersion
    <2>12. PlansTypes'
      BY <2>2, <2>6, <2>10 DEF PlansTypes
    <2>13. PlansNamed'
      BY <2>3, <2>4, <2>6 DEF PlansNamed
    <2>14. PlansNumbered'
      BY <2>2, <2>3, <2>4, <2>6, <2>11 DEF PlansNumbered, PlansWritten
    <2>15. PlansShown'
      BY <2>2, <2>3, <2>4, <2>5, <2>6, <2>10 DEF PlansShown
    <2>16. PlansAlone'
      BY <2>2, <2>3, <2>4, <2>6 DEF PlansAlone, PlansBusy
    <2>17. PlansCurrent'
      <3>1. ASSUME NEW t \in Slug \ torn, \A q \in Job : job'[q].slug = t => job'[q].at # "current"
            PROVE  \A q \in Job : job[q].slug = t => job[q].at # "current"
        BY <2>2, <2>6, <3>1
      <3>2. ASSUME NEW t \in Slug \ torn, daemon'[t].alive
            PROVE  \E v \in 1..PlansLast(t) : dir[t].versions[v] = daemon'[t].shown
        <4>1. CASE t = s /\ ~old
          <5>1. PlansLast(s) \in 1..PlansLast(s)
            BY <2>7, <3>2, <4>1, PlansLatest
          <5> QED
            BY <2>7, <2>8, <2>10, <3>2, <4>1, <5>1
        <4>2. CASE t # s \/ old
          BY <2>1, <2>9, <2>10, <3>2, <4>2 DEF PlansCurrent
        <4> QED
          BY <4>1, <4>2
      <3>3. ASSUME NEW t \in Slug \ torn, PlansLast(t) > 0,
                   \A q \in Job : job'[q].slug = t => job'[q].at # "current"
            PROVE  dir[t].current = dir[t].versions[PlansLast(t)]
        BY <3>1, <3>3 DEF PlansCurrent
      <3>4. ASSUME NEW t \in Slug \ torn, dir[t].current # None
            PROVE  \E v \in 1..PlansLast(t) : dir[t].versions[v] = dir[t].current
        BY <3>4 DEF PlansCurrent
      <3> QED
        BY <2>2, <2>11, <3>2, <3>3, <3>4 DEF PlansCurrent
    <2>18. PlansOwned'
      <3>1. s \notin torn => PlansOwn(p)'
        <4>1. s \notin torn => PlansOwn(p)
          BY <2>2, <2>3 DEF PlansOwned, PlansBusy
        <4>2. /\ job'[p].slug = s /\ job'[p].ver = job[p].ver /\ job'[p].content = job[p].content
              /\ job'[p].at = "wait" /\ job'[p].own = ~old /\ PlansLast(s)' = PlansLast(s)
          BY <2>4, <2>6, <2>11
        <4>3. s \notin torn => job[p].ver = PlansLast(s) /\ dir[s].versions[job[p].ver] = job[p].content
          BY <2>2, <2>3, <4>1 DEF PlansOwn, PlansWritten
        <4>4. s \notin torn /\ ~old => daemon'[s].shown = dir[s].versions[job[p].ver]
          BY <2>7, <2>8, <2>10
        <4> HIDE <2>4, <2>6, <2>11
        <4> QED
          BY <2>2, <4>2, <4>3, <4>4 DEF PlansOwn
      <3>2. ASSUME NEW q \in Job \ {p}, job[q].at \in PlansBusy, job[q].slug \notin torn PROVE PlansOwn(q)'
        <4>1. job[q].slug # s /\ job[q].slug \in Slug
          BY <2>2, <2>3, <3>2 DEF PlansAlone, PlansBusy, PlansNamed, PlansTypes, PlansJob
        <4>2. PlansOwn(q)
          BY <3>2 DEF PlansOwned
        <4> QED
          BY <2>2, <2>6, <2>10, <2>11, <4>1, <4>2 DEF PlansOwn
      <3> QED
        BY <2>2, <2>3, <2>4, <2>6, <3>1, <3>2 DEF PlansOwned
    <2>19. PlansAllowed'
      <3>1. \A q \in Job \ {p} : PlansApproved(q) => PlansApproved(q)'
        BY <2>2, <2>6, <2>11 DEF PlansApproved
      <3> QED
        BY <2>3, <2>4, <2>6, <3>1 DEF PlansAllowed
    <2> QED
      BY <2>12, <2>13, <2>14, <2>15, <2>16, <2>17, <2>18, <2>19
  <1> QED
    BY <1>1, <1>2

(* The hook's answer.                                                      *)
LEMMA PlansEmits ==
  ASSUME PlansInv, NEW p \in Job, Plan!EmitHookDecision(p)
  PROVE  PlansInv'
  <1> USE DEF PlansInv
  <1>1. PICK s \in Slug, ok \in BOOLEAN : s = job[p].slug /\ ok = job[p].approved
    BY DEF Plan!EmitHookDecision, PlansNamed, PlansTypes, PlansJob
  <1>2. /\ job[p].at = "emit" /\ UNCHANGED <<dir, pins, torn>> /\ job[p] \in PlansJob
        /\ torn \subseteq Slug /\ s # None
    BY ToolsAssumption, <1>1 DEF Plan!EmitHookDecision, PlansTypes
  <1>3. CASE ~ok
    <2>1. Plan!End(p, "deny")
      BY <1>1, <1>3 DEF Plan!EmitHookDecision
    <2>2. daemon' = daemon
      <3> DEFINE D == [alive : BOOLEAN, shown : Plan!Content \cup {None}]
      <3>1. daemon \in [Slug -> D] /\ daemon[s].alive \in BOOLEAN
        BY DEF PlansTypes
      <3>2. (daemon[s].alive /\ ~ok) = daemon[s].alive
        BY <1>3, <3>1, Zenon
      <3>3. daemon' = [daemon EXCEPT ![s].alive = daemon[s].alive /\ ~ok]
        BY <1>1 DEF Plan!EmitHookDecision
      <3>4. daemon' = [daemon EXCEPT ![s].alive = daemon[s].alive]
        BY <3>2, <3>3
      <3> QED
        BY <3>1, <3>4
    <2> QED
      BY <1>2, <2>1, <2>2, PlansFails
  <1>4. CASE ok
    <2> DEFINE x == [job[p] EXCEPT !.at = "idle", !.decision = "allow"]
               d == [daemon[s] EXCEPT !.alive = FALSE]
    <2>1. /\ job' = [job EXCEPT ![p] = x]
      BY <1>1, <1>4 DEF Plan!EmitHookDecision, PlansTypes
    <2>2. daemon' = [daemon EXCEPT ![s] = d]
      <3>1. (daemon[s].alive /\ ~ok) = FALSE
        BY <1>4, Zenon
      <3>2. daemon' = [daemon EXCEPT ![s].alive = daemon[s].alive /\ ~ok]
        BY <1>1 DEF Plan!EmitHookDecision
      <3>3. daemon' = [daemon EXCEPT ![s].alive = FALSE]
        BY <3>1, <3>2
      <3> QED
        BY <3>3 DEF PlansTypes
    <2>3. /\ x \in PlansJob /\ x.at = "idle" /\ x.slug = s /\ x.ver = job[p].ver /\ x.own = job[p].own
          /\ x.approved = job[p].approved /\ x.saw = job[p].saw
      BY <1>1, <1>2 DEF PlansJob, PlansAts
    <2>4. d \in [alive : BOOLEAN, shown : Plan!Content \cup {None}] /\ ~d.alive
      BY DEF PlansTypes
    <2> HIDE DEF x, d
    <2>5. job' \in [Job -> PlansJob] /\ job'[p] = x /\ \A q \in Job \ {p} : job'[q] = job[q]
      BY <2>1, <2>3, PlansGoes
    <2>6. daemon' \in [Slug -> [alive : BOOLEAN, shown : Plan!Content \cup {None}]] /\ daemon'[s] = d
          /\ \A t \in Slug \ {s} : daemon'[t] = daemon[t]
      BY <2>2, <2>4 DEF PlansTypes
    <2>7. \A t : PlansLast(t)' = PlansLast(t)
      BY <1>2 DEF PlansLast, Plan!LatestPlanVersion
    <2>8. \A t \in Slug : daemon'[t].alive => daemon'[t] = daemon[t]
      BY <2>4, <2>6
    <2>9. PlansTypes'
      BY <1>2, <2>5, <2>6 DEF PlansTypes
    <2>10. PlansNamed'
      BY <1>2, <2>3, <2>5 DEF PlansNamed
    <2>11. PlansNumbered'
      BY <1>2, <2>3, <2>5, <2>7 DEF PlansNumbered, PlansWritten
    <2>12. PlansShown'
      BY <1>2, <2>3, <2>5, <2>8 DEF PlansShown
    <2>13. PlansAlone'
      BY <1>2, <2>3, <2>5 DEF PlansAlone, PlansBusy
    <2>14. PlansCurrent'
      <3>1. ASSUME NEW t \in Slug \ torn, \A q \in Job : job'[q].slug = t => job'[q].at # "current"
            PROVE  \A q \in Job : job[q].slug = t => job[q].at # "current"
        BY <1>2, <2>5, <3>1
      <3>2. ASSUME NEW t \in Slug \ torn, daemon'[t].alive
            PROVE  \E v \in 1..PlansLast(t) : dir[t].versions[v] = daemon'[t].shown
        BY <2>8, <3>2 DEF PlansCurrent
      <3>3. ASSUME NEW t \in Slug \ torn, PlansLast(t) > 0,
                   \A q \in Job : job'[q].slug = t => job'[q].at # "current"
            PROVE  dir[t].current = dir[t].versions[PlansLast(t)]
        BY <3>1, <3>3 DEF PlansCurrent
      <3>4. ASSUME NEW t \in Slug \ torn, dir[t].current # None
            PROVE  \E v \in 1..PlansLast(t) : dir[t].versions[v] = dir[t].current
        BY <3>4 DEF PlansCurrent
      <3> QED
        BY <1>2, <2>7, <3>2, <3>3, <3>4 DEF PlansCurrent
    <2>15. PlansOwned'
      <3>1. ASSUME NEW q \in Job \ {p}, job[q].at \in PlansBusy, job[q].slug \notin torn PROVE PlansOwn(q)'
        <4>1. PlansOwn(q) /\ job[q].slug \in Slug
          BY <3>1 DEF PlansOwned, PlansBusy, PlansNamed, PlansTypes, PlansJob
        <4> QED
          BY <1>2, <2>5, <2>7, <2>8, <4>1 DEF PlansOwn
      <3> QED
        BY <1>2, <2>3, <2>5, <3>1 DEF PlansOwned, PlansBusy
    <2>16. PlansAllowed'
      <3>1. \A q \in Job \ {p} : PlansApproved(q) => PlansApproved(q)'
        BY <1>2, <2>5, <2>7 DEF PlansApproved
      <3>2. PlansApproved(p)
        BY <1>1, <1>2, <1>4 DEF PlansAllowed
      <3>3. PlansApproved(p)'
        BY <1>1, <1>2, <2>3, <2>5, <2>7, <3>2, ZenonT(30) DEF PlansApproved
      <3> QED
        BY <2>5, <3>1, <3>3 DEF PlansAllowed
    <2> QED
      BY <2>9, <2>10, <2>11, <2>12, <2>13, <2>14, <2>15, <2>16
  <1> QED
    BY <1>3, <1>4

(* The daemon of a plan answers the runs that wait for it, or comes to     *)
(* show current.md: shown is what it shows afterwards, if it lives.        *)
LEMMA PlansAnswers ==
  ASSUME PlansInv, NEW s \in Slug, daemon[s].alive, NEW d, NEW approved \in BOOLEAN, NEW saw,
         d \in [alive : BOOLEAN, shown : Plan!Content \cup {None}],
         d.alive => d.shown = daemon[s].shown,
         approved => saw = daemon[s].shown,
         saw \in Plan!Content \cup {None},
         daemon' = [daemon EXCEPT ![s] = d], Plan!Answer(s, approved, saw), UNCHANGED <<dir, pins, torn>>
  PROVE  PlansInv'
  <1> USE DEF PlansInv
  <1> DEFINE x(q) == [job[q] EXCEPT !.at = "emit", !.approved = approved, !.saw = saw]
             hears(q) == job[q].at = "wait" /\ job[q].slug = s
  <1>1. \A q \in Job : /\ job[q] \in PlansJob /\ x(q) \in PlansJob /\ x(q).at = "emit"
                       /\ x(q).approved = approved /\ x(q).saw = saw
                       /\ x(q).slug = job[q].slug /\ x(q).ver = job[q].ver /\ x(q).own = job[q].own
                       /\ x(q).content = job[q].content /\ x(q).decision = job[q].decision
    <2>1. ASSUME NEW j \in PlansJob
          PROVE  LET y == [j EXCEPT !.at = "emit", !.approved = approved, !.saw = saw]
                 IN  /\ y \in PlansJob /\ y.at = "emit" /\ y.approved = approved /\ y.saw = saw
                     /\ y.slug = j.slug /\ y.ver = j.ver /\ y.own = j.own
                     /\ y.content = j.content /\ y.decision = j.decision
      BY DEF PlansJob, PlansAts
    <2>2. \A q \in Job : job[q] \in PlansJob
      BY DEF PlansTypes
    <2> QED
      BY <2>1, <2>2
  <1> HIDE DEF x
  <1>2. job' = [q \in Job |-> IF hears(q) THEN x(q) ELSE job[q]]
    BY DEF Plan!Answer, x
  <1>3. \A q \in Job : /\ job'[q].slug = job[q].slug /\ job'[q].ver = job[q].ver
                       /\ job'[q].own = job[q].own /\ job'[q].content = job[q].content
                       /\ job'[q].decision = job[q].decision
                       /\ \/ hears(q) /\ job'[q].at = "emit" /\ job'[q].approved = approved /\ job'[q].saw = saw
                          \/ ~hears(q) /\ job'[q] = job[q]
    BY <1>1, <1>2
  <1>4. job' \in [Job -> PlansJob]
    BY <1>1, <1>2
  <1>5. /\ daemon' \in [Slug -> [alive : BOOLEAN, shown : Plan!Content \cup {None}]] /\ daemon'[s] = d
        /\ \A t \in Slug \ {s} : daemon'[t] = daemon[t]
    BY DEF PlansTypes
  <1>6. \A t \in Slug : daemon'[t].alive => daemon[t].alive /\ daemon'[t].shown = daemon[t].shown
    BY <1>5
  <1>7. \A t : PlansLast(t)' = PlansLast(t)
    BY DEF PlansLast, Plan!LatestPlanVersion
  <1>8. PlansTypes'
    BY <1>4, <1>5 DEF PlansTypes
  <1>9. \A q \in Job : /\ job'[q].at \in PlansBusy <=> job[q].at \in PlansBusy
                       /\ job'[q].at = "current" <=> job[q].at = "current"
                       /\ job'[q].at = "write" <=> job[q].at = "write"
                       /\ job'[q].at \in PlansWritten <=> job[q].at \in PlansWritten
                       /\ job'[q].at \in {"connect", "wait", "emit"} <=> job[q].at \in {"connect", "wait", "emit"}
                       /\ job'[q].at = "idle" <=> job[q].at = "idle"
                       /\ job'[q].at \in {"idle", "lookup"} <=> job[q].at \in {"idle", "lookup"}
                       /\ job'[q].at = "wait" => job[q].at = "wait"
    BY <1>3 DEF PlansBusy, PlansWritten
  <1>10. PlansNamed'
    BY <1>3, <1>9 DEF PlansNamed
  <1>11. PlansNumbered'
    BY <1>3, <1>7, <1>9 DEF PlansNumbered
  <1>12. PlansShown'
    BY <1>3, <1>6, <1>9 DEF PlansShown
  <1>13. PlansAlone'
    BY <1>3, <1>9 DEF PlansAlone
  <1>14. PlansCurrent'
    <2>1. ASSUME NEW t \in Slug \ torn, \A q \in Job : job'[q].slug = t => job'[q].at # "current"
          PROVE  \A q \in Job : job[q].slug = t => job[q].at # "current"
      BY <1>3, <1>9, <2>1
    <2>2. ASSUME NEW t \in Slug \ torn, daemon'[t].alive
          PROVE  \E v \in 1..PlansLast(t) : dir[t].versions[v] = daemon'[t].shown
      BY <1>6, <2>2 DEF PlansCurrent
    <2>3. ASSUME NEW t \in Slug \ torn, PlansLast(t) > 0,
                 \A q \in Job : job'[q].slug = t => job'[q].at # "current"
          PROVE  dir[t].current = dir[t].versions[PlansLast(t)]
      BY <2>1, <2>3 DEF PlansCurrent
    <2>4. ASSUME NEW t \in Slug \ torn, dir[t].current # None
          PROVE  \E v \in 1..PlansLast(t) : dir[t].versions[v] = dir[t].current
      BY <2>4 DEF PlansCurrent
    <2> QED
      BY <1>7, <2>2, <2>3, <2>4 DEF PlansCurrent
  <1>15. PlansOwned'
    <2>1. ASSUME NEW q \in Job, job[q].at \in PlansBusy, job[q].slug \notin torn PROVE PlansOwn(q)'
      <3>1. PlansOwn(q) /\ job[q].slug \in Slug
        BY <2>1 DEF PlansOwned, PlansBusy, PlansNamed, PlansTypes, PlansJob
      <3> QED
        BY <1>3, <1>6, <1>7, <1>9, <3>1 DEF PlansOwn
    <2> QED
      BY <1>3, <1>9, <2>1 DEF PlansOwned
  <1>16. PlansAllowed'
    <2>1. \A q \in Job : ~hears(q) /\ PlansApproved(q) => PlansApproved(q)'
      BY <1>3, <1>7 DEF PlansApproved
    <2>2. ASSUME NEW q \in Job, hears(q), approved PROVE PlansApproved(q)'
      <3>1. /\ saw = daemon[s].shown /\ saw # None /\ job[q].slug = s /\ job[q].at = "wait"
            /\ job'[q].slug = s /\ job'[q].saw = saw /\ job'[q].approved
            /\ job'[q].own = job[q].own /\ job'[q].ver = job[q].ver
        BY <1>3, <2>2 DEF PlansShown
      <3>2. s \notin torn => /\ job[q].ver = PlansLast(s)
                             /\ job[q].own => daemon[s].shown = dir[s].versions[job[q].ver]
        BY <2>2, <3>1 DEF PlansOwned, PlansOwn, PlansBusy, PlansWritten
      <3>3. job[q].ver \in 1..PlansLast(s)
        BY <3>1 DEF PlansNumbered, PlansWritten
      <3>4. s \notin torn => \E v \in 1..PlansLast(s) : dir[s].versions[v] = saw
        BY <3>1 DEF PlansCurrent
      <3>5. s \notin torn => \E v \in (IF job[q].own THEN {job[q].ver} ELSE 1..job[q].ver) \cap 1..PlansLast(s) :
              dir[s].versions[v] = saw
        BY <3>1, <3>2, <3>3, <3>4
      <3> QED
        BY <1>7, <3>1, <3>5 DEF PlansApproved
    <2>3. \A q \in Job : hears(q) => job[q].decision # "allow"
      BY DEF PlansNamed
    <2> QED
      BY <1>3, <2>1, <2>2, <2>3 DEF PlansAllowed
  <1> QED
    BY <1>8, <1>10, <1>11, <1>12, <1>13, <1>14, <1>15, <1>16

(* A daemon's finish reaches all runs that wait for it; so does its end.   *)
LEMMA PlansFinish ==
  ASSUME PlansInv, NEW s \in Slug, Plan!Finish(s) \/ Plan!DaemonDies(s)
  PROVE  PlansInv'
  <1>1. /\ daemon[s].alive /\ UNCHANGED <<dir, pins, torn>>
        /\ daemon \in [Slug -> [alive : BOOLEAN, shown : Plan!Content \cup {None}]]
    BY DEF Plan!Finish, Plan!DaemonDies, PlansInv, PlansTypes
  <1>2. CASE Plan!Finish(s)
    <2>1. PICK approved \in BOOLEAN : Plan!Answer(s, approved, daemon[s].shown)
      BY <1>2 DEF Plan!Finish
    <2>2. daemon' = [daemon EXCEPT ![s] = daemon[s]]
      BY <1>1, <1>2 DEF Plan!Finish
    <2>3. daemon[s] \in [alive : BOOLEAN, shown : Plan!Content \cup {None}]
          /\ daemon[s].shown \in Plan!Content \cup {None}
      BY <1>1
    <2> QED
      BY <1>1, <2>1, <2>2, <2>3, PlansAnswers
  <1>3. CASE Plan!DaemonDies(s)
    <2> DEFINE d == [daemon[s] EXCEPT !.alive = FALSE]
    <2>1. daemon' = [daemon EXCEPT ![s] = d] /\ Plan!Answer(s, FALSE, None)
      BY <1>1, <1>3 DEF Plan!DaemonDies
    <2>2. d \in [alive : BOOLEAN, shown : Plan!Content \cup {None}] /\ ~d.alive
      BY <1>1
    <2> HIDE DEF d
    <2> QED
      BY <1>1, <2>1, <2>2, PlansAnswers
  <1> QED
    BY <1>2, <1>3

(* A daemon's watcher sees current.md.                                     *)
LEMMA PlansWatch ==
  ASSUME PlansInv, NEW s \in Slug, Plan!Watch(s)
  PROVE  PlansInv'
  <1> USE DEF PlansInv
  <1> DEFINE d == [daemon[s] EXCEPT !.shown = dir[s].current]
  <1>1. /\ daemon[s].alive /\ UNCHANGED <<dir, pins, job, torn>> /\ daemon' = [daemon EXCEPT ![s] = d]
        /\ dir[s].current # None /\ dir[s].current \in Plan!Content \cup {None}
    BY DEF Plan!Watch, PlansTypes, PlansShown
  <1>2. d \in [alive : BOOLEAN, shown : Plan!Content \cup {None}] /\ d.alive /\ d.shown = dir[s].current
    BY <1>1 DEF PlansTypes
  <1> HIDE DEF d
  <1>3. daemon' \in [Slug -> [alive : BOOLEAN, shown : Plan!Content \cup {None}]] /\ daemon'[s] = d
        /\ \A t \in Slug \ {s} : daemon'[t] = daemon[t]
    BY <1>1, <1>2 DEF PlansTypes
  <1>4. \A t : PlansLast(t)' = PlansLast(t)
    BY <1>1 DEF PlansLast, Plan!LatestPlanVersion
  <1>5. PlansTypes'
    BY <1>1, <1>3 DEF PlansTypes
  <1>6. PlansNamed' /\ PlansAlone'
    BY <1>1 DEF PlansNamed, PlansAlone
  <1>7. PlansNumbered'
    BY <1>1, <1>4 DEF PlansNumbered
  <1>8. PlansShown'
    BY <1>1, <1>2, <1>3 DEF PlansShown
  <1>9. PlansCurrent'
    <2>1. ASSUME NEW t \in Slug \ torn, daemon'[t].alive
          PROVE  \E v \in 1..PlansLast(t) : dir[t].versions[v] = daemon'[t].shown
      BY <1>1, <1>2, <1>3, <2>1 DEF PlansCurrent
    <2> QED
      BY <1>1, <1>4, <2>1 DEF PlansCurrent
  <1>10. PlansOwned'
    <2>1. ASSUME NEW q \in Job, job[q].at \in PlansBusy, job[q].slug \notin torn PROVE PlansOwn(q)'
      <3>1. PlansOwn(q) /\ job[q].slug \in Slug
        BY <2>1 DEF PlansOwned, PlansBusy, PlansNamed, PlansTypes, PlansJob
      <3>2. ASSUME job[q].at = "wait", job[q].slug = s PROVE dir[s].current = dir[s].versions[job[q].ver]
        <4>1. \A r \in Job : job[r].slug = s => job[r].at # "current"
          BY <2>1, <3>2 DEF PlansAlone, PlansBusy
        <4>2. job[q].ver = PlansLast(s) /\ job[q].ver \in 1..PlansLast(s)
          BY <3>1, <3>2 DEF PlansOwn, PlansNumbered, PlansWritten
        <4>3. PlansLast(s) > 0
          BY <4>2, PlansLatest
        <4> QED
          BY <2>1, <3>2, <4>1, <4>2, <4>3 DEF PlansCurrent
      <3> QED
        BY <1>1, <1>2, <1>3, <1>4, <3>1, <3>2 DEF PlansOwn
    <2> QED
      BY <1>1, <2>1 DEF PlansOwned
  <1>11. PlansAllowed'
    <2>1. \A q \in Job : PlansApproved(q) => PlansApproved(q)'
      BY <1>1, <1>4 DEF PlansApproved
    <2> QED
      BY <1>1, <2>1 DEF PlansAllowed
  <1> QED
    BY <1>5, <1>6, <1>7, <1>8, <1>9, <1>10, <1>11

(* Every step of Plans keeps PlansInv.                                     *)
LEMMA PlansHold == PlansInv /\ Plan!Next => PlansInv'
  <1> SUFFICES ASSUME PlansInv, Plan!Next PROVE PlansInv'
    OBVIOUS
  <1>1. ASSUME NEW p \in Job,
               \/ Plan!RunPlanHook(p) \/ Plan!RunPlan(p) \/ Plan!LookupPlanSlug(p) \/ Plan!SavePlanSlug(p)
               \/ Plan!SavePlanWithoutReview(p) \/ Plan!PickVersion(p) \/ Plan!WriteVersion(p)
               \/ Plan!WriteCurrent(p) \/ Plan!ConnectOrStartDaemon(p) \/ Plan!EmitHookDecision(p)
        PROVE  PlansInv'
    BY <1>1, PlansRuns, PlansPicks, PlansWrites, PlansWritesCurrent, PlansConnects, PlansEmits, Zenon
  <1>2. ASSUME NEW s \in Slug, Plan!Watch(s) \/ Plan!Finish(s) \/ Plan!DaemonDies(s)
        PROVE  PlansInv'
    BY <1>2, PlansWatch, PlansFinish, Zenon
  <1> QED
    BY <1>1, <1>2, Zenon DEF Plan!Next

(* PlansInv reads the variables of Plans only.                             *)
LEMMA PlansStutter == PlansInv /\ UNCHANGED Plan!vars => PlansInv'
  <1> SUFFICES ASSUME PlansInv, UNCHANGED Plan!vars PROVE PlansInv'
    OBVIOUS
  <1>1. UNCHANGED <<dir, pins, job, daemon, torn>>
    BY DEF Plan!vars
  <1>2. \A s : PlansLast(s)' = PlansLast(s)
    BY <1>1 DEF PlansLast, Plan!LatestPlanVersion
  <1>3. \A p : (PlansOwn(p) => PlansOwn(p)') /\ (PlansApproved(p) => PlansApproved(p)')
    BY <1>1, <1>2 DEF PlansOwn, PlansApproved
  <1>4. PlansTypes' /\ PlansNamed' /\ PlansAlone' /\ PlansShown'
    BY <1>1 DEF PlansInv, PlansTypes, PlansNamed, PlansAlone, PlansShown
  <1>5. PlansNumbered'
    BY <1>1, <1>2 DEF PlansInv, PlansNumbered
  <1>6. PlansCurrent'
    BY <1>1, <1>2 DEF PlansInv, PlansCurrent
  <1>7. PlansOwned' /\ PlansAllowed'
    BY <1>1, <1>3 DEF PlansInv, PlansOwned, PlansAllowed
  <1> QED
    BY <1>4, <1>5, <1>6, <1>7 DEF PlansInv

(* PlansInv is strong enough.                                              *)
LEMMA PlansKept == PlansInv => Plan!VersionsKept /\ Plan!AllowedWasApproved
  <1> SUFFICES ASSUME PlansInv PROVE Plan!VersionsKept /\ Plan!AllowedWasApproved
    OBVIOUS
  <1> USE DEF PlansInv
  <1>1. \A s \in Slug : DOMAIN dir[s].versions = 1..PlansLast(s) /\ PlansLast(s) \in Nat
    BY PlansLatest
  <1>2. \A s : PlansLast(s) = Plan!LatestPlanVersion(s)
    BY DEF PlansLast
  <1>3. Plan!VersionsKept
    <2> SUFFICES ASSUME NEW s \in Slug \ torn
                 PROVE  /\ DOMAIN dir[s].versions = 1..PlansLast(s)
                        /\ \A p \in Job : job[p].slug = s /\ job[p].at \in {"connect", "wait", "emit"} =>
                             dir[s].versions[job[p].ver] = job[p].content
                        /\ (\A p \in Job : job[p].slug # s \/ ~Plan!Saving(p)) /\ dir[s].current # None =>
                             dir[s].current = dir[s].versions[PlansLast(s)]
      BY <1>2 DEF Plan!VersionsKept
    <2>1. ASSUME NEW p \in Job, job[p].slug = s, job[p].at \in {"connect", "wait", "emit"}
          PROVE  dir[s].versions[job[p].ver] = job[p].content
      BY <2>1 DEF PlansOwned, PlansOwn, PlansBusy, PlansWritten
    <2>2. ASSUME \A p \in Job : job[p].slug # s \/ ~Plan!Saving(p), dir[s].current # None
          PROVE  dir[s].current = dir[s].versions[PlansLast(s)]
      <3>1. \A p \in Job : job[p].slug = s => job[p].at # "current"
        BY <2>2 DEF Plan!Saving
      <3>2. PlansLast(s) > 0
        BY <1>1, <2>2 DEF PlansCurrent
      <3> QED
        BY <3>1, <3>2 DEF PlansCurrent
    <2> QED
      BY <1>1, <2>1, <2>2
  <1>4. Plan!AllowedWasApproved
    <2> SUFFICES ASSUME NEW p \in Job, job[p].decision = "allow"
                 PROVE  /\ job[p].approved /\ job[p].saw # None
                        /\ job[p].slug \notin torn =>
                             \E v \in (IF job[p].own THEN {job[p].ver} ELSE 1..job[p].ver)
                                       \cap DOMAIN dir[job[p].slug].versions :
                               dir[job[p].slug].versions[v] = job[p].saw
      BY DEF Plan!AllowedWasApproved
    <2>1. PlansApproved(p)
      BY DEF PlansAllowed
    <2>2. job[p].slug \in Slug
      BY DEF PlansNamed, PlansTypes, PlansJob
    <2> QED
      BY <1>1, <2>1, <2>2 DEF PlansApproved
  <1> QED
    BY <1>3, <1>4

(* A pin changes only by its agent's own run or when too old, a version    *)
(* only where two runs saved the same plan at once.                        *)
LEMMA PlansPinsStay ==
  ASSUME PlansInv, Plan!Next \/ UNCHANGED Plan!vars
  PROVE  Plan!PinsStay
  <1> USE DEF PlansInv
  <1>1. ASSUME NEW a \in Agent, pins.of[a] # None, pins'.of[a] # pins.of[a]
        PROVE  pins.of[a].old \/ \E p \in Job : job[p].at = "pin" /\ job[p].agent = a
    <2>1. PICK p \in Job : Plan!SavePlanSlug(p)
      BY <1>1, Zenon DEF Plan!Next, Plan!vars, Plan!RunPlanHook, Plan!RunPlan, Plan!LookupPlanSlug,
        Plan!SavePlanWithoutReview, Plan!PickVersion, Plan!WriteVersion, Plan!WriteCurrent,
        Plan!ConnectOrStartDaemon, Plan!EmitHookDecision, Plan!Watch, Plan!Finish, Plan!DaemonDies
    <2> DEFINE f == [b \in Agent |-> IF b = job[p].agent THEN [slug |-> job[p].slug, old |-> FALSE]
                                     ELSE IF pins.of[b] # None /\ pins.of[b].old THEN None ELSE pins.of[b]]
    <2>2. job[p].at = "pin" /\ (pins' = pins \/ pins' = [pins EXCEPT !.of = f])
      BY <2>1 DEF Plan!SavePlanSlug
    <2>3. a # job[p].agent /\ ~pins.of[a].old => f[a] = pins.of[a]
      BY <1>1
    <2> HIDE DEF f
    <2>4. pins' = pins \/ pins'.of[a] = f[a]
      BY <2>2 DEF PlansTypes
    <2> QED
      BY <1>1, <2>2, <2>3, <2>4
  <1>2. ASSUME NEW p \in Job, job[p].at = "lookup", job'[p].at = "pick", job[p].agent # None
        PROVE  job'[p].slug = pins.of[job[p].agent].slug
    <2>1. Plan!LookupPlanSlug(p)
      <3>1. ASSUME NEW q \in Job,
                   \/ Plan!RunPlanHook(q) \/ Plan!RunPlan(q) \/ Plan!LookupPlanSlug(q) \/ Plan!SavePlanSlug(q)
                   \/ Plan!SavePlanWithoutReview(q) \/ Plan!PickVersion(q) \/ Plan!WriteVersion(q)
                   \/ Plan!WriteCurrent(q) \/ Plan!ConnectOrStartDaemon(q) \/ Plan!EmitHookDecision(q)
            PROVE  q = p
        <4>1. ASSUME q # p PROVE job'[p] = job[p]
          BY <3>1, <4>1, ZenonT(30) DEF PlansTypes, Plan!RunPlanHook, Plan!RunPlan, Plan!LookupPlanSlug, Plan!SavePlanSlug,
            Plan!SavePlanWithoutReview, Plan!PickVersion, Plan!WriteVersion, Plan!WriteCurrent,
            Plan!ConnectOrStartDaemon, Plan!EmitHookDecision, Plan!Goto, Plan!End, Plan!Fail,
            Plan!FailHalfWay
        <4> QED
          BY <1>2, <4>1, SMTT(30)
      <3>2. ASSUME NEW s \in Slug, Plan!Watch(s) \/ Plan!Finish(s) \/ Plan!DaemonDies(s)
            PROVE  job'[p] = job[p]
        BY <1>2, <3>2 DEF Plan!Watch, Plan!Finish, Plan!DaemonDies, Plan!Answer
      <3>3. ~UNCHANGED Plan!vars
        BY <1>2 DEF Plan!vars
      <3>4. PICK q \in Job : \/ Plan!RunPlanHook(q) \/ Plan!RunPlan(q) \/ Plan!LookupPlanSlug(q)
                             \/ Plan!SavePlanSlug(q) \/ Plan!SavePlanWithoutReview(q) \/ Plan!PickVersion(q)
                             \/ Plan!WriteVersion(q) \/ Plan!WriteCurrent(q) \/ Plan!ConnectOrStartDaemon(q)
                             \/ Plan!EmitHookDecision(q)
        <4>1. (\E s \in Slug : Plan!Watch(s) \/ Plan!Finish(s) \/ Plan!DaemonDies(s)) => FALSE
          BY <1>2, <3>2
        <4> QED
          BY <3>3, <4>1, Zenon DEF Plan!Next
      <3>5. q = p
        BY <3>1, <3>4
      <3>6. ~Plan!RunPlanHook(p) /\ ~Plan!RunPlan(p)
        BY <1>2 DEF Plan!RunPlanHook, Plan!RunPlan
      <3>7. ~Plan!SavePlanSlug(p) /\ ~Plan!SavePlanWithoutReview(p) /\ ~Plan!PickVersion(p) /\ ~Plan!WriteVersion(p)
        BY <1>2 DEF Plan!SavePlanSlug, Plan!SavePlanWithoutReview, Plan!PickVersion, Plan!WriteVersion
      <3>8. ~Plan!WriteCurrent(p) /\ ~Plan!ConnectOrStartDaemon(p) /\ ~Plan!EmitHookDecision(p)
        BY <1>2 DEF Plan!WriteCurrent, Plan!ConnectOrStartDaemon, Plan!EmitHookDecision
      <3> QED
        BY <3>4, <3>5, <3>6, <3>7, <3>8, Zenon
    <2> DEFINE a == job[p].agent
               pinned == a # None /\ pins.readable /\ pins.of[a] # None
               slug == IF pinned THEN pins.of[a].slug ELSE job[p].content.heading
               at == IF pinned \/ a = None THEN "pick" ELSE "pin"
    <2>2. job' = [job EXCEPT ![p].slug = slug, ![p].at = at]
      BY <2>1 DEF Plan!LookupPlanSlug
    <2> HIDE DEF slug, at
    <2>3. job'[p].slug = slug /\ job'[p].at = at
      BY <2>2 DEF PlansTypes, PlansJob
    <2> QED
      BY <1>2, <2>3 DEF slug, at
  <1>3. ASSUME NEW s \in Slug, NEW v \in DOMAIN dir[s].versions,
               dir'[s].versions[v] # dir[s].versions[v]
        PROVE  s \in torn
    <2>1. PICK p \in Job : Plan!WriteVersion(p) \/ Plan!WriteCurrent(p)
      BY <1>3, Zenon DEF Plan!Next, Plan!vars, Plan!RunPlanHook, Plan!RunPlan, Plan!LookupPlanSlug,
        Plan!SavePlanSlug, Plan!SavePlanWithoutReview, Plan!PickVersion,
        Plan!ConnectOrStartDaemon, Plan!EmitHookDecision, Plan!Watch, Plan!Finish, Plan!DaemonDies
    <2>2. CASE Plan!WriteCurrent(p)
      <3>1. dir'[s].versions = dir[s].versions
        <4> DEFINE VS == PlansVersions
        <4> HIDE DEF VS
        <4>1. dir \in [Slug -> [versions : VS, current : Plan!Content \cup {None}]]
          BY DEF PlansTypes, VS
        <4> QED
          <5>1. \E t, c : dir' = dir \/ dir' = [dir EXCEPT ![t].current = c]
            BY <2>2, Zenon DEF Plan!WriteCurrent, Plan!SetCurrent
          <5> QED
            BY <4>1, <5>1
      <3> QED
        BY <1>3, <3>1
    <2>3. CASE Plan!WriteVersion(p)
      <3>0. job[p].content \in Plan!Content
        BY <2>3 DEF Plan!WriteVersion, PlansNamed, PlansTypes, PlansJob
      <3>1. PICK t \in Slug, ver \in Nat, c \in Plan!Content :
              t = job[p].slug /\ ver = job[p].ver /\ (Plan!SetVersion(p, c) \/ UNCHANGED dir)
        <4>1. job[p].slug \in Slug /\ job[p].ver \in Nat
          BY <2>3 DEF Plan!WriteVersion, PlansNamed, PlansTypes, PlansJob
        <4>2. \E c \in Plan!Content : Plan!SetVersion(p, c) \/ UNCHANGED dir
          BY <2>3, <3>0, Zenon DEF Plan!WriteVersion
        <4> QED
          BY <4>1, <4>2
      <3> DEFINE w == [i \in DOMAIN dir[t].versions \cup {ver} |-> IF i = ver THEN c ELSE dir[t].versions[i]]
      <3>2. dir' = dir \/ dir' = [dir EXCEPT ![t].versions = w]
        BY <3>1 DEF Plan!SetVersion
      <3>3. s = t => v = ver \/ w[v] = dir[s].versions[v]
        BY <1>3
      <3> HIDE DEF w
      <3>4. dir' = dir \/ (s = t /\ dir'[s].versions = w) \/ (s # t /\ dir'[s] = dir[s])
        <4> DEFINE VS == PlansVersions
        <4> HIDE DEF VS
        <4>1. dir \in [Slug -> [versions : VS, current : Plan!Content \cup {None}]]
          BY DEF PlansTypes, VS
        <4> QED
          BY <3>2, <4>1
      <3>5. s = t /\ v = ver
        BY <1>3, <3>3, <3>4
      <3>6. s \notin torn => ver = PlansLast(s) + 1
        BY <2>3, <3>1, <3>5 DEF PlansOwned, PlansOwn, PlansBusy, Plan!WriteVersion
      <3>7. PlansLast(s) \in Nat /\ v \in 1..PlansLast(s)
        BY <1>3, PlansLatest
      <3> QED
        BY <3>5, <3>6, <3>7
    <2> QED
      BY <2>1, <2>2, <2>3
  <1> QED
    BY <1>1, <1>2, <1>3 DEF Plan!PinsStay
------------------------------------------------------------------------------
(* Rounds.  Snapshots are kept up to the number of the round; those on     *)
(* disk are those of the session, unless a failure is known, the round     *)
(* that is being completed apart; and a comment has the line numbers of    *)
(* the text shown, or, where the watcher saw an edit since, of the one     *)
(* before it.                                                              *)
TimesText == 0..MaxVersion \cup {None}
TimesNote == TimesText \cup {Times!Nowhere}
TimesTexts == [File -> TimesText]
TimesNotes == [File -> TimesNote]
TimesShots == [File -> [Times!Round -> TimesText]]
TimesFiles == SUBSET File
TimesUnseen == SUBSET (File \X Times!Round)
TimesFailed == SUBSET {"side", "review", "new"}
TimesDisk == [round : Times!Round, notes : TimesNotes]
TimesMem == [content : TimesTexts, prev : TimesTexts, notes : TimesNotes, shots : TimesShots,
             round : Times!Round, edits : BOOLEAN, signal : BOOLEAN, known : BOOLEAN,
             cj : TimesDisk \cup {None}, sf : TimesShots \cup {None}]
TimesHist == [truth : TimesShots, unseen : TimesUnseen, lost : BOOLEAN, failed : TimesFailed,
              edited : TimesFiles, waiting : TimesFiles, early : TimesFiles, astray : TimesFiles]
TimesTypes ==
  /\ tree \in TimesTexts /\ code \in TimesFiles
  /\ mem \in TimesMem /\ disk \in TimesDisk \cup {None} /\ side \in TimesShots \cup {None}
  /\ pc \in {"rest", "read", "carried", "committed", "saved"} /\ hist \in TimesHist

TimesThere ==
  /\ \A f \in File : mem.content[f] # None => tree[f] # None
  /\ \E f \in File : mem.content[f] # None
TimesWhen ==
  /\ mem.signal \/ pc \in {"read", "carried"} => mem.round < MaxRound /\ hist.early = {}
  /\ pc # "rest" => ~mem.signal
  /\ pc # "read" => mem.cj = None
  /\ mem.edits <=> hist.edited \cup hist.early # {}
  /\ ~mem.signal /\ pc \notin {"read", "carried"} => hist.waiting = {}
TimesCopy ==
  pc = "committed" =>
    /\ mem.sf \notin {None, Times!NoShots}
    /\ IF mem.sf = mem.shots THEN mem.round > 1 ELSE "side" \in hist.failed

TimesSure == hist.failed \cap {"side", "new"} = {}
TimesKept == IF pc = "committed" THEN mem.round - 1 ELSE mem.round
TimesTrue ==
  /\ \A f \in File, r \in Times!Round :
       mem.shots[f][r] # hist.truth[f][r] => <<f, r>> \in hist.unseen
  /\ \A f \in File, r \in Times!Round : r > mem.round => mem.shots[f][r] = None
  /\ \A r \in 2..mem.round : \E f \in File : mem.shots[f][r] # None
  /\ pc # "committed" /\ TimesSure => mem.shots = IF side = None THEN Times!NoShots ELSE side
TimesSide ==
  /\ \A f \in File, r \in Times!Round : r < TimesKept => side[f][r] = mem.shots[f][r]
  /\ \A f \in File : side[f][TimesKept] # None => side[f][TimesKept] = mem.shots[f][TimesKept]
  /\ \A f \in File, r \in Times!Round : r > TimesKept => side[f][r] = None
  /\ \A r \in 2..TimesKept : \E f \in File : side[f][r] # None
TimesTold ==
  ~hist.lost =>
    /\ TimesTrue
    /\ "side" \notin hist.failed /\ side # None => TimesSide
TimesCaught ==
  \/ pc = "committed" /\ mem.sf = mem.shots
  \/ ~hist.lost /\ pc \in {"saved", "rest"} /\ TimesSure /\ side # None
  => \A f \in File : mem.content[f] # None => mem.shots[f][mem.round] # None

TimesSaved ==
  /\ disk # None => disk.notes # Times!NoNotes
  /\ pc = "rest" /\ "review" \notin hist.failed =>
       /\ ~mem.signal => disk = IF mem.notes = Times!NoNotes THEN None
                                ELSE [round |-> mem.round, notes |-> mem.notes]
       /\ ~Times!Gone(mem)

TimesGiven == IF pc = "read" THEN Times!LoadedNotes(mem.cj)
              ELSE IF mem.signal THEN Times!LoadedNotes(disk) ELSE mem.notes
TimesPlaced ==
  \A f \in File \ hist.astray :
    TimesGiven[f] \in {None, IF pc # "carried" /\ f \in hist.edited \cup hist.waiting
                             THEN mem.prev[f] ELSE mem.content[f]}
TimesInv ==
  /\ TimesTypes /\ TimesThere /\ TimesWhen /\ TimesCopy /\ TimesTold /\ TimesCaught /\ TimesSaved
  /\ TimesPlaced

(* None is no text, no snapshots and no review.                            *)
LEMMA TimesNothing ==
  /\ MaxVersion \in Nat /\ MaxRound \in Nat /\ MaxRound >= 1 /\ Times!Round = 1..MaxRound
  /\ 1 \in Times!Round
  /\ None \notin 0..MaxVersion /\ None # Times!Nowhere /\ None \in TimesText /\ None \in TimesNote
  /\ None \notin TimesShots /\ None \notin TimesDisk
  /\ Times!NoNotes \in TimesTexts /\ Times!NoNotes \in TimesNotes /\ Times!NoShots \in TimesShots
  /\ \A f \in File : Times!NoNotes[f] = None /\ \A r \in Times!Round : Times!NoShots[f][r] = None
  /\ \A d \in TimesDisk \cup {None} : Times!LoadedNotes(d) \in TimesNotes
  <1>1. /\ MaxVersion \in Nat /\ MaxRound \in Nat /\ MaxRound >= 1 /\ Times!Round = 1..MaxRound
        /\ None \notin 0..MaxVersion /\ None # Times!Nowhere
    BY ToolsAssumption DEF Times!Round, Times!Nowhere
  <1>2. None \notin TimesShots
    BY <1>1, ToolsAssumption DEF TimesShots, TimesText
  <1>3. None \notin TimesDisk
    <2>1. TimesNote = -1..MaxVersion \cup {None}
      BY <1>1 DEF TimesNote, TimesText, Times!Nowhere
    <2> QED
      BY <1>1, <2>1, ToolsAssumption DEF TimesDisk, TimesNotes
  <1>4. Times!NoNotes \in TimesNotes
    BY DEF TimesNotes, TimesNote, TimesText, Times!NoNotes
  <1>5. \A d \in TimesDisk \cup {None} : Times!LoadedNotes(d) \in TimesNotes
    BY <1>3, <1>4 DEF TimesDisk, Times!LoadedNotes
  <1> QED
    BY <1>1, <1>2, <1>3, <1>5 DEF TimesText, TimesNote, TimesTexts, TimesNotes, TimesShots, Times!NoNotes,
      Times!NoShots

(* The fields of what a session remembers.                                 *)
LEMMA TimesTyped ==
  ASSUME NEW m \in TimesMem, NEW h \in TimesHist
  PROVE  /\ m.content \in TimesTexts /\ m.prev \in TimesTexts /\ m.notes \in TimesNotes
         /\ m.shots \in TimesShots /\ m.round \in Times!Round /\ m.edits \in BOOLEAN
         /\ m.signal \in BOOLEAN /\ m.known \in BOOLEAN
         /\ m.cj \in TimesDisk \cup {None} /\ m.sf \in TimesShots \cup {None}
         /\ h.truth \in TimesShots /\ h.unseen \in TimesUnseen /\ h.lost \in BOOLEAN
         /\ h.failed \in TimesFailed /\ h.edited \in TimesFiles /\ h.waiting \in TimesFiles
         /\ h.early \in TimesFiles /\ h.astray \in TimesFiles
  BY DEF TimesMem, TimesHist

(* Snapshots with the same texts are the same.                             *)
LEMMA TimesSame ==
  ASSUME NEW a \in TimesShots, NEW b \in TimesShots,
         \A f \in File, r \in Times!Round : a[f][r] = b[f][r]
  PROVE  a = b
  <1>1. \A f \in File : a[f] \in [Times!Round -> TimesText] /\ b[f] \in [Times!Round -> TimesText]
    BY DEF TimesShots
  <1>2. \A f \in File : a[f] = b[f]
    BY <1>1
  <1> QED
    BY <1>2 DEF TimesShots

(* captureRoundSnapshot adds texts to one round, and replaces none.        *)
LEMMA TimesCaptures ==
  ASSUME NEW s \in TimesShots, NEW c \in TimesTexts, NEW n \in Times!Round
  PROVE  LET w == Times!CaptureRoundSnapshot(s, c, n)
         IN  /\ w \in TimesShots
             /\ \A f \in File, r \in Times!Round : r # n => w[f][r] = s[f][r]
             /\ \A f \in File : w[f][n] = IF s[f][n] = None THEN c[f] ELSE s[f][n]
  <1> DEFINE w == Times!CaptureRoundSnapshot(s, c, n)
  <1>1. \A f \in File : s[f] \in [Times!Round -> TimesText] /\ c[f] \in TimesText
    BY DEF TimesShots, TimesTexts
  <1>2. w = [f \in File |-> IF s[f][n] = None THEN [s[f] EXCEPT ![n] = c[f]] ELSE s[f]]
    BY DEF Times!CaptureRoundSnapshot
  <1> HIDE DEF w
  <1>3. \A f \in File : w[f] \in [Times!Round -> TimesText]
    BY <1>1, <1>2
  <1>4. \A f \in File : w[f][n] = IF s[f][n] = None THEN c[f] ELSE s[f][n]
    BY <1>1, <1>2
  <1>5. \A f \in File, r \in Times!Round : r # n => w[f][r] = s[f][r]
    BY <1>1, <1>2
  <1>6. w \in TimesShots
    BY <1>2, <1>3 DEF TimesShots
  <1> QED
    BY <1>4, <1>5, <1>6 DEF w

(* clearAllCommentData keeps the texts shown.                              *)
LEMMA TimesWipes ==
  ASSUME NEW m \in TimesMem, NEW h \in TimesHist
  PROVE  LET c == Times!Cleared(m)
             w == Times!Wiped(h)
         IN  /\ c \in TimesMem /\ c.notes = Times!NoNotes /\ ~c.known /\ c.round = 1
             /\ c.shots = Times!NoShots /\ c.content = m.content /\ c.prev = m.prev
             /\ c.edits = m.edits /\ c.signal = m.signal /\ c.cj = m.cj
             /\ w \in TimesHist /\ w.truth = Times!NoShots /\ w.unseen = {}
             /\ "side" \in w.failed /\ "review" \notin w.failed /\ w.lost = h.lost
             /\ w.edited = h.edited /\ w.waiting = h.waiting /\ w.early = h.early
             /\ w.astray = h.astray
  <1> DEFINE c == Times!Cleared(m)
             w == Times!Wiped(h)
             failed == (h.failed \ {"review"}) \cup {"side"}
             none == {}
  <1>1. c = [m EXCEPT !.notes = Times!NoNotes, !.known = FALSE, !.round = 1, !.shots = Times!NoShots]
    BY DEF Times!Cleared
  <1>2. /\ Times!NoNotes \in TimesNotes /\ Times!NoShots \in TimesShots /\ 1 \in Times!Round
        /\ none \in TimesUnseen /\ failed \in TimesFailed
    BY TimesNothing, TimesTyped DEF TimesUnseen, TimesFailed
  <1>3. "side" \in failed /\ "review" \notin failed
    OBVIOUS
  <1>4. w = [h EXCEPT !.truth = Times!NoShots, !.unseen = none, !.failed = failed]
    BY DEF Times!Wiped
  <1> HIDE DEF c, w, failed, none
  <1>5. /\ c \in TimesMem /\ c.notes = Times!NoNotes /\ ~c.known /\ c.round = 1
        /\ c.shots = Times!NoShots /\ c.content = m.content /\ c.prev = m.prev
        /\ c.edits = m.edits /\ c.signal = m.signal /\ c.cj = m.cj
    BY <1>1, <1>2 DEF TimesMem
  <1>6. /\ w \in TimesHist /\ w.truth = Times!NoShots /\ w.unseen = none
        /\ w.failed = failed /\ w.lost = h.lost
        /\ w.edited = h.edited /\ w.waiting = h.waiting /\ w.early = h.early /\ w.astray = h.astray
    BY <1>2, <1>4 DEF TimesHist
  <1> QED
    BY <1>3, <1>5, <1>6 DEF c, w, none

(* A session as it is loaded from disk.                                    *)
LEMMA TimesLoads ==
  ASSUME tree \in TimesTexts, NEW d \in TimesDisk \cup {None}, NEW s \in TimesShots \cup {None}
  PROVE  LET m == Times!Loaded(d, s)
             n == IF d = None THEN 1 ELSE d.round
         IN  /\ m \in TimesMem /\ m.content = tree /\ m.prev = Times!NoNotes
             /\ m.notes = IF d = None THEN Times!NoNotes ELSE d.notes
             /\ m.round = n /\ n \in Times!Round /\ ~m.edits /\ ~m.signal /\ (m.known <=> d # None)
             /\ m.cj = None
             /\ \A f \in File, r \in Times!Round :
                  s # None => m.shots[f][r] = IF r = n /\ s[f][r] = None THEN tree[f] ELSE s[f][r]
             /\ s = None => \A f \in File : m.shots[f][1] = tree[f] /\ m.shots[f][n] = tree[f]
             /\ s = None /\ d = None =>
                  m.shots = Times!CaptureRoundSnapshot(Times!NoShots, tree, 1)
  <1> DEFINE m == Times!Loaded(d, s)
             n == IF d = None THEN 1 ELSE d.round
             first == Times!CaptureRoundSnapshot(Times!NoShots, tree, 1)
             base == IF s = None THEN first ELSE s
             shots == Times!CaptureRoundSnapshot(base, tree, n)
             notes == IF d = None THEN Times!NoNotes ELSE d.notes
             known == d # None
  <1>1. n \in Times!Round /\ notes \in TimesNotes
    BY TimesNothing DEF TimesDisk
  <1>2. /\ first \in TimesShots /\ \A f \in File : first[f][1] = tree[f]
        /\ \A f \in File, r \in Times!Round : r # 1 => first[f][r] = None
    <2>1. /\ first \in TimesShots
          /\ \A f \in File : first[f][1] = IF Times!NoShots[f][1] = None THEN tree[f] ELSE Times!NoShots[f][1]
          /\ \A f \in File, r \in Times!Round : r # 1 => first[f][r] = Times!NoShots[f][r]
      <3>1. Times!NoShots \in TimesShots /\ 1 \in Times!Round
        BY TimesNothing
      <3> QED
        BY <3>1, TimesCaptures
    <2> QED
      BY <2>1, TimesNothing
  <1> HIDE DEF first
  <1>3. base \in TimesShots
    BY <1>2
  <1> HIDE DEF n, base
  <1>4. /\ shots \in TimesShots
        /\ \A f \in File, r \in Times!Round : r # n => shots[f][r] = base[f][r]
        /\ \A f \in File : shots[f][n] = IF base[f][n] = None THEN tree[f] ELSE base[f][n]
    BY <1>1, <1>3, TimesCaptures
  <1>5. m = [content |-> tree, prev |-> Times!NoNotes, notes |-> notes, shots |-> shots, round |-> n,
             edits |-> FALSE, signal |-> FALSE, known |-> known, cj |-> None, sf |-> None]
    BY DEF Times!Loaded, Times!LoadedShots, Times!LoadedRound, Times!LoadedNotes, n, base, first
  <1>6. known \in BOOLEAN
    BY Zenon
  <1> HIDE DEF shots, notes, known, m
  <1>7. /\ m \in TimesMem /\ m.content = tree /\ m.prev = Times!NoNotes /\ m.notes = notes
        /\ m.round = n /\ ~m.edits /\ ~m.signal /\ m.known = known /\ m.shots = shots /\ m.cj = None
    BY <1>1, <1>4, <1>5, <1>6, TimesNothing DEF TimesMem
  <1>8. \A f \in File, r \in Times!Round :
          s # None => shots[f][r] = IF r = n /\ s[f][r] = None THEN tree[f] ELSE s[f][r]
    BY <1>4 DEF base
  <1>9. s = None => \A f \in File : shots[f][1] = tree[f] /\ shots[f][n] = tree[f]
    <2>1. ASSUME s = None, NEW f \in File PROVE shots[f][1] = tree[f] /\ shots[f][n] = tree[f]
      <3>1. base = first
        BY <2>1 DEF base
      <3> QED
        BY <1>1, <1>2, <1>4, <3>1, TimesNothing
    <2> QED
      BY <2>1
  <1>10. s = None /\ d = None => shots = first
    <2> SUFFICES ASSUME s = None, d = None PROVE shots = first
      OBVIOUS
    <2>1. base = first /\ n = 1
      BY DEF base, n
    <2>2. \A f \in File, r \in Times!Round : shots[f][r] = first[f][r]
      BY <1>2, <1>4, <2>1
    <2> QED
      BY <1>2, <1>4, <2>2, TimesSame
  <1> QED
    BY <1>1, <1>7, <1>8, <1>9, <1>10 DEF m, n, notes, known, first

(* What is known of a review without a past.                               *)
LEMMA TimesFresh ==
  ASSUME tree \in TimesTexts
  PROVE  LET h == Times!Fresh
         IN  /\ h \in TimesHist /\ h.truth = Times!CaptureRoundSnapshot(Times!NoShots, tree, 1)
             /\ h.unseen = {} /\ ~h.lost /\ h.failed = {} /\ h.edited = {} /\ h.waiting = {}
             /\ h.early = {} /\ h.astray = {}
  <1> DEFINE h == Times!Fresh
             first == Times!CaptureRoundSnapshot(Times!NoShots, tree, 1)
             none == {}
  <1>1. h = [truth |-> first, unseen |-> none, lost |-> FALSE, failed |-> none, edited |-> none,
             waiting |-> none, early |-> none, astray |-> none]
    BY DEF Times!Fresh
  <1>2. none \in TimesUnseen /\ none \in TimesFailed /\ none \in TimesFiles
    BY DEF TimesUnseen, TimesFailed, TimesFiles
  <1>3. first \in TimesShots
    <2>1. Times!NoShots \in TimesShots /\ 1 \in Times!Round
      BY TimesNothing
    <2> QED
      BY <2>1, TimesCaptures
  <1> HIDE DEF h, first, none
  <1>4. h \in TimesHist
    BY <1>1, <1>2, <1>3 DEF TimesHist
  <1>5. /\ h.truth = first /\ h.unseen = none /\ ~h.lost /\ h.failed = none /\ h.edited = none
        /\ h.waiting = none /\ h.early = none /\ h.astray = none
    BY <1>1
  <1> QED
    BY <1>4, <1>5 DEF h, first, none

(* The texts of the first round.                                           *)
LEMMA TimesFirst ==
  ASSUME tree \in TimesTexts
  PROVE  LET first == Times!CaptureRoundSnapshot(Times!NoShots, tree, 1)
         IN  /\ first \in TimesShots /\ \A f \in File : first[f][1] = tree[f]
             /\ \A f \in File, r \in Times!Round : r # 1 => first[f][r] = None
  <1> DEFINE first == Times!CaptureRoundSnapshot(Times!NoShots, tree, 1)
  <1>1. Times!NoShots \in TimesShots /\ 1 \in Times!Round
    BY TimesNothing
  <1>2. /\ first \in TimesShots
        /\ \A f \in File : first[f][1] = IF Times!NoShots[f][1] = None THEN tree[f] ELSE Times!NoShots[f][1]
        /\ \A f \in File, r \in Times!Round : r # 1 => first[f][r] = Times!NoShots[f][r]
    BY <1>1, TimesCaptures
  <1> HIDE DEF first
  <1>3. \A f \in File, r \in Times!Round : Times!NoShots[f][r] = None
    BY TimesNothing
  <1>4. \A f \in File : first[f][1] = tree[f]
    BY <1>1, <1>2, <1>3
  <1>5. \A f \in File, r \in Times!Round : r # 1 => first[f][r] = None
    BY <1>2, <1>3
  <1> QED
    BY <1>2, <1>4, <1>5 DEF first

(* A review that begins.                                                   *)
LEMMA TimesStart == Times!Init => TimesInv
  <1> SUFFICES ASSUME Times!Init PROVE TimesInv
    OBVIOUS
  <1> DEFINE first == Times!CaptureRoundSnapshot(Times!NoShots, tree, 1)
             nobody == None
  <1>1. /\ tree \in TimesTexts /\ tree # Times!NoNotes /\ code \in TimesFiles /\ disk = nobody
        /\ side = Times!LoadedShots(nobody, nobody) /\ mem = Times!Loaded(nobody, nobody)
        /\ pc = "rest" /\ hist = Times!Fresh
    BY TimesNothing DEF Times!Init, TimesTexts, TimesText, TimesFiles
  <1>2. /\ mem \in TimesMem /\ mem.content = tree /\ mem.notes = Times!NoNotes /\ mem.round = 1
        /\ ~mem.edits /\ ~mem.signal /\ ~mem.known /\ mem.shots = first /\ mem.cj = None
    <2>1. nobody = None /\ nobody \in TimesDisk \cup {None} /\ nobody \in TimesShots \cup {None}
      OBVIOUS
    <2> HIDE DEF nobody
    <2> QED
      BY <1>1, <2>1, TimesLoads
  <1>3. side = mem.shots
    <2>1. Times!Loaded(nobody, nobody).shots = Times!LoadedShots(nobody, nobody)
      BY DEF Times!Loaded
    <2> QED
      BY <1>1, <2>1
  <1>4. /\ first \in TimesShots /\ \A f \in File : first[f][1] = tree[f]
        /\ \A f \in File, r \in Times!Round : r # 1 => first[f][r] = None
    BY <1>1, TimesFirst
  <1>5. /\ hist \in TimesHist /\ hist.truth = first /\ hist.unseen = {} /\ ~hist.lost
        /\ hist.failed = {} /\ hist.edited = {} /\ hist.waiting = {} /\ hist.early = {} /\ hist.astray = {}
    BY <1>1, TimesFresh
  <1> HIDE DEF first
  <1>6. TimesTypes
    BY <1>1, <1>2, <1>3, <1>4, <1>5 DEF TimesTypes
  <1>7. TimesThere
    <2>1. \E f \in File : tree[f] # None
      BY <1>1 DEF TimesTexts, Times!NoNotes
    <2> QED
      BY <1>2, <2>1 DEF TimesThere
  <1>8. TimesWhen /\ TimesCopy
    BY <1>1, <1>2, <1>5 DEF TimesWhen, TimesCopy
  <1>9. TimesTold
    <2>1. TimesKept = 1
      BY <1>1, <1>2 DEF TimesKept
    <2>2. side # None
      BY <1>2, <1>3, <1>4, TimesNothing
    <2>3. TimesSide
      <3>1. \A r \in Times!Round : ~(r < 1) /\ (r > 1 => r # 1)
        BY TimesNothing
      <3> QED
        BY <1>2, <1>3, <1>4, <2>1, <3>1 DEF TimesSide
    <2>4. TimesTrue
      <3>1. \A r \in Times!Round : r > 1 => r # 1
        BY TimesNothing
      <3> QED
        BY <1>2, <1>3, <1>4, <1>5, <2>2, <3>1 DEF TimesTrue
    <2> QED
      BY <2>3, <2>4 DEF TimesTold
  <1>10. TimesCaught
    BY <1>1, <1>2, <1>4 DEF TimesCaught
  <1>11. TimesSaved
    BY <1>1, <1>2 DEF TimesSaved, Times!Gone
  <1>12. TimesPlaced
    BY <1>1, <1>2, TimesNothing DEF TimesPlaced, TimesGiven
  <1> QED
    BY <1>6, <1>7, <1>8, <1>9, <1>10, <1>11, <1>12 DEF TimesInv

(* Steps that leave the snapshots alone, or learn of a failure.            *)
LEMMA TimesStill ==
  ASSUME TimesTold, mem'.shots = mem.shots, mem'.round = mem.round, UNCHANGED side,
         hist'.truth = hist.truth, hist'.unseen = hist.unseen, hist'.lost = hist.lost,
         hist.failed \cap {"side", "new"} \subseteq hist'.failed,
         pc' = "committed" <=> pc = "committed"
  PROVE  TimesTold'
  <1>1. TimesKept' = TimesKept /\ (TimesSure' => TimesSure)
    BY DEF TimesKept, TimesSure
  <1>2. TimesTrue => TimesTrue'
    BY <1>1 DEF TimesTrue
  <1>3. TimesSide => TimesSide'
    BY <1>1 DEF TimesSide
  <1> QED
    BY <1>2, <1>3 DEF TimesTold

(* Steps that take the snapshots away.                                     *)
LEMMA TimesEmpty ==
  ASSUME mem'.shots = Times!NoShots, mem'.round = 1, hist'.truth = Times!NoShots,
         "side" \in hist'.failed \/ side' = None
  PROVE  TimesTold'
  <1>1. TimesTrue'
    <2>1. \A f \in File, r \in Times!Round : Times!NoShots[f][r] = None
      BY TimesNothing
    <2> QED
      BY <2>1 DEF TimesTrue, TimesSure
  <1> QED
    BY <1>1 DEF TimesTold

(* SyncWriteFiles.                                                         *)
LEMMA TimesSyncs ==
  ASSUME NEW m \in TimesMem, NEW h \in TimesHist, Times!SyncWriteFiles(m, h)
  PROVE  /\ mem' \in TimesMem /\ hist' \in TimesHist /\ disk' \in TimesDisk \cup {None}
         /\ mem'.content = m.content /\ mem'.prev = m.prev /\ mem'.edits = m.edits
         /\ mem'.signal = m.signal /\ mem'.cj = m.cj
         /\ hist'.lost = h.lost /\ hist'.edited = h.edited /\ hist'.waiting = h.waiting
         /\ hist'.early = h.early /\ hist'.astray = h.astray
         /\ disk' = IF mem'.notes = Times!NoNotes THEN None ELSE [round |-> mem'.round, notes |-> mem'.notes]
         /\ disk' # None => disk'.notes # Times!NoNotes
         /\ ~Times!Gone(mem)'
         /\ \/ /\ mem'.notes = Times!NoNotes /\ mem'.shots = Times!NoShots /\ mem'.round = 1
               /\ hist'.truth = Times!NoShots /\ "side" \in hist'.failed
            \/ /\ mem'.notes = m.notes /\ mem'.shots = m.shots /\ mem'.round = m.round
               /\ hist'.truth = h.truth /\ hist'.unseen = h.unseen /\ hist'.failed = h.failed \ {"review"}
  <1>1. CASE Times!Gone(m)
    <2>1. disk' = None /\ mem' = Times!Cleared(m) /\ hist' = Times!Wiped(h)
      BY <1>1 DEF Times!SyncWriteFiles
    <2>2. /\ mem' \in TimesMem /\ mem'.notes = Times!NoNotes /\ ~mem'.known /\ mem'.round = 1
          /\ mem'.shots = Times!NoShots /\ mem'.content = m.content /\ mem'.prev = m.prev
          /\ mem'.edits = m.edits /\ mem'.signal = m.signal /\ mem'.cj = m.cj
          /\ hist' \in TimesHist /\ hist'.truth = Times!NoShots /\ "side" \in hist'.failed
          /\ hist'.lost = h.lost /\ hist'.edited = h.edited /\ hist'.waiting = h.waiting
          /\ hist'.early = h.early /\ hist'.astray = h.astray
      BY <2>1, TimesWipes
    <2> QED
      BY <2>1, <2>2 DEF Times!Gone
  <1>2. CASE ~Times!Gone(m)
    <2> DEFINE known == m.notes # Times!NoNotes
               failed == h.failed \ {"review"}
               d == [round |-> m.round, notes |-> m.notes]
    <2>1. /\ disk' = (IF m.notes = Times!NoNotes THEN None ELSE d)
          /\ mem' = [m EXCEPT !.known = known] /\ hist' = [h EXCEPT !.failed = failed]
      BY <1>2 DEF Times!SyncWriteFiles
    <2>2. known \in BOOLEAN
      BY Zenon
    <2>3. failed \in TimesFailed /\ d \in TimesDisk /\ d.notes = m.notes
      BY TimesTyped DEF TimesFailed, TimesDisk
    <2> HIDE DEF known, failed, d
    <2>4. /\ mem' \in TimesMem /\ mem'.known = known /\ mem'.notes = m.notes /\ mem'.round = m.round
          /\ mem'.shots = m.shots /\ mem'.content = m.content /\ mem'.prev = m.prev
          /\ mem'.edits = m.edits /\ mem'.signal = m.signal /\ mem'.cj = m.cj
      BY <2>1, <2>2 DEF TimesMem
    <2>5. /\ hist' \in TimesHist /\ hist'.failed = failed /\ hist'.truth = h.truth
          /\ hist'.unseen = h.unseen /\ hist'.lost = h.lost /\ hist'.edited = h.edited
          /\ hist'.waiting = h.waiting /\ hist'.early = h.early /\ hist'.astray = h.astray
      BY <2>1, <2>3 DEF TimesHist
    <2>6. disk' \in TimesDisk \cup {None} /\ (disk' # None => disk'.notes # Times!NoNotes)
      BY <2>1, <2>3
    <2>7. disk' = IF mem'.notes = Times!NoNotes THEN None ELSE [round |-> mem'.round, notes |-> mem'.notes]
      BY <2>1, <2>4 DEF d
    <2>8. ~Times!Gone(mem)'
      BY <2>1, <2>3, <2>4, TimesNothing DEF Times!Gone, known
    <2> QED
      BY <2>4, <2>5, <2>6, <2>7, <2>8 DEF failed
  <1> QED
    BY <1>1, <1>2

(* A save of the session's comments.                                       *)
LEMMA TimesSaves ==
  ASSUME TimesInv, NEW m \in TimesMem, NEW h \in TimesHist, Times!SyncWriteFiles(m, h),
         m.content = mem.content, m.prev = mem.prev, m.shots = mem.shots, m.round = mem.round,
         m.edits = mem.edits, ~m.signal, ~mem.signal, m.cj = mem.cj,
         h.truth = hist.truth, h.unseen = hist.unseen, h.lost = hist.lost, h.failed = hist.failed,
         h.edited = hist.edited, h.waiting = hist.waiting, h.early = hist.early,
         UNCHANGED <<tree, code, side>>, pc \in {"rest", "saved"}, pc' = "rest",
         \A f \in File \ h.astray :
           m.notes[f] \in {None, IF f \in hist.edited \cup hist.waiting THEN mem.prev[f] ELSE mem.content[f]}
  PROVE  TimesInv'
  <1> USE DEF TimesInv
  <1>1. /\ mem' \in TimesMem /\ hist' \in TimesHist /\ disk' \in TimesDisk \cup {None}
        /\ mem'.content = mem.content /\ mem'.prev = mem.prev /\ mem'.edits = mem.edits
        /\ ~mem'.signal /\ mem'.cj = mem.cj
        /\ hist'.lost = hist.lost /\ hist'.edited = hist.edited /\ hist'.waiting = hist.waiting
        /\ hist'.early = hist.early /\ hist'.astray = h.astray
        /\ disk' = IF mem'.notes = Times!NoNotes THEN None ELSE [round |-> mem'.round, notes |-> mem'.notes]
        /\ disk' # None => disk'.notes # Times!NoNotes
        /\ ~Times!Gone(mem)'
        /\ \/ /\ mem'.notes = Times!NoNotes /\ mem'.shots = Times!NoShots /\ mem'.round = 1
              /\ hist'.truth = Times!NoShots /\ "side" \in hist'.failed
           \/ /\ mem'.notes = m.notes /\ mem'.shots = mem.shots /\ mem'.round = mem.round
              /\ hist'.truth = hist.truth /\ hist'.unseen = hist.unseen /\ hist'.failed = hist.failed \ {"review"}
    BY TimesSyncs
  <1>2. TimesTypes'
    BY <1>1 DEF TimesTypes
  <1>3. TimesThere'
    BY <1>1 DEF TimesThere
  <1>4. TimesWhen' /\ TimesCopy'
    BY <1>1 DEF TimesWhen, TimesCopy
  <1>5. TimesTold' /\ TimesCaught'
    <2>1. CASE mem'.shots = Times!NoShots /\ mem'.round = 1 /\ hist'.truth = Times!NoShots /\ "side" \in hist'.failed
      <3>1. TimesTold'
        BY <2>1, TimesEmpty
      <3>2. TimesCaught'
        BY <2>1 DEF TimesCaught, TimesSure
      <3> QED
        BY <3>1, <3>2
    <2>2. CASE /\ mem'.shots = mem.shots /\ mem'.round = mem.round /\ hist'.truth = hist.truth
               /\ hist'.unseen = hist.unseen /\ hist'.failed = hist.failed \ {"review"}
      <3>1. hist.failed \cap {"side", "new"} \subseteq hist'.failed
        BY <2>2
      <3>2. TimesTold'
        BY <1>1, <2>2, <3>1, TimesStill
      <3>3. TimesCaught'
        BY <1>1, <2>2, <3>1 DEF TimesCaught, TimesSure
      <3> QED
        BY <3>2, <3>3
    <2> QED
      BY <1>1, <2>1, <2>2
  <1>6. TimesSaved'
    BY <1>1 DEF TimesSaved
  <1>7. TimesPlaced'
    <2>1. TimesGiven' = mem'.notes
      BY <1>1 DEF TimesGiven
    <2>2. \A f \in File : Times!NoNotes[f] = None
      BY TimesNothing
    <2> QED
      BY <1>1, <2>1, <2>2 DEF TimesPlaced
  <1> QED
    BY <1>2, <1>3, <1>4, <1>5, <1>6, <1>7

(* The save that ends the completion of a round.                           *)
LEMMA TimesPersists == TimesInv /\ Times!PersistAfterRoundComplete => TimesInv'
  <1> SUFFICES ASSUME TimesInv, Times!PersistAfterRoundComplete PROVE TimesInv'
    OBVIOUS
  <1> USE DEF TimesInv
  <1>1. /\ pc = "saved" /\ pc' = "rest" /\ UNCHANGED <<tree, code, side>> /\ ~mem.signal
        /\ mem \in TimesMem /\ hist \in TimesHist
    BY DEF Times!PersistAfterRoundComplete, TimesWhen, TimesTypes
  <1>2. CASE Times!SyncWriteFiles(mem, hist)
    <2>1. \A f \in File \ hist.astray :
           mem.notes[f] \in {None, IF f \in hist.edited \cup hist.waiting THEN mem.prev[f] ELSE mem.content[f]}
      BY <1>1 DEF TimesPlaced, TimesGiven
    <2> QED
      BY <1>1, <1>2, <2>1, TimesSaves
  <1>3. CASE hist' = [hist EXCEPT !.failed = @ \cup {"review"}] /\ UNCHANGED <<mem, disk>>
    <2> DEFINE failed == hist.failed \cup {"review"}
    <2>1. failed \in TimesFailed
      BY <1>1, TimesTyped DEF TimesFailed
    <2>2. hist' = [hist EXCEPT !.failed = failed]
      BY <1>3
    <2> HIDE DEF failed
    <2>3. /\ hist' \in TimesHist /\ hist'.failed = failed /\ hist'.truth = hist.truth
          /\ hist'.unseen = hist.unseen /\ hist'.lost = hist.lost /\ hist'.edited = hist.edited
          /\ hist'.waiting = hist.waiting /\ hist'.early = hist.early /\ hist'.astray = hist.astray
      BY <1>1, <2>1, <2>2 DEF TimesHist
    <2>4. "review" \in failed /\ hist.failed \cap {"side", "new"} \subseteq failed
      BY DEF failed
    <2>5. TimesTypes' /\ TimesThere' /\ TimesWhen' /\ TimesCopy'
      BY <1>1, <1>3, <2>3 DEF TimesTypes, TimesThere, TimesWhen, TimesCopy
    <2>6. TimesTold'
      BY <1>1, <1>3, <2>3, <2>4, TimesStill
    <2>7. TimesCaught' /\ TimesSaved'
      BY <1>1, <1>3, <2>3, <2>4 DEF TimesCaught, TimesSure, TimesSaved
    <2>8. TimesPlaced'
      BY <1>1, <1>3, <2>3 DEF TimesPlaced, TimesGiven
    <2> QED
      BY <2>5, <2>6, <2>7, <2>8
  <1> QED
    BY <1>2, <1>3 DEF Times!PersistAfterRoundComplete

(* A comment is added or deleted.                                          *)
LEMMA TimesComments ==
  ASSUME TimesInv, NEW f \in File, Times!AddComment(f) \/ Times!DeleteComment(f)
  PROVE  TimesInv'
  <1> USE DEF TimesInv
  <1>1. /\ pc = "rest" /\ pc' = pc /\ UNCHANGED <<tree, code, side>> /\ ~mem.signal
        /\ mem \in TimesMem /\ hist \in TimesHist /\ hist.waiting = {}
    BY DEF Times!AddComment, Times!DeleteComment, TimesWhen, TimesTypes
  <1>2. mem.content[f] \in TimesNote /\ mem.notes \in TimesNotes /\ None \in TimesNote
    BY <1>1, TimesTyped, TimesNothing DEF TimesTexts, TimesNote
  <1>3. \A g \in File \ hist.astray :
          mem.notes[g] \in {None, IF g \in hist.edited \cup hist.waiting THEN mem.prev[g] ELSE mem.content[g]}
    BY <1>1 DEF TimesPlaced, TimesGiven
  <1>4. ASSUME NEW n \in TimesNote, NEW astray \in TimesFiles,
               Times!SyncWriteFiles([mem EXCEPT !.notes[f] = n], [hist EXCEPT !.astray = astray]),
               hist.astray \ {f} \subseteq astray,
               f \notin astray => n = None \/ (f \notin hist.edited /\ n = mem.content[f])
        PROVE  TimesInv'
    <2> DEFINE notes == [mem.notes EXCEPT ![f] = n]
               m == [mem EXCEPT !.notes = notes]
               h == [hist EXCEPT !.astray = astray]
    <2>1. notes \in TimesNotes /\ notes[f] = n /\ \A g \in File \ {f} : notes[g] = mem.notes[g]
      BY <1>2 DEF TimesNotes
    <2>2. [mem EXCEPT !.notes[f] = n] = m
      OBVIOUS
    <2> HIDE DEF notes
    <2>3. /\ m \in TimesMem /\ m.notes = notes /\ m.content = mem.content /\ m.prev = mem.prev
          /\ m.shots = mem.shots /\ m.round = mem.round /\ m.edits = mem.edits /\ m.signal = mem.signal
          /\ m.cj = mem.cj
      BY <1>1, <2>1 DEF TimesMem
    <2>4. /\ h \in TimesHist /\ h.astray = astray /\ h.truth = hist.truth
          /\ h.unseen = hist.unseen /\ h.lost = hist.lost /\ h.edited = hist.edited
          /\ h.waiting = hist.waiting /\ h.early = hist.early /\ h.failed = hist.failed
      BY <1>1, <1>4 DEF TimesHist
    <2>5. Times!SyncWriteFiles(m, h)
      BY <1>4, <2>2
    <2> HIDE DEF m, h
    <2>6. \A g \in File \ h.astray :
            m.notes[g] \in {None, IF g \in hist.edited \cup hist.waiting THEN mem.prev[g] ELSE mem.content[g]}
      <3> SUFFICES ASSUME NEW g \in File \ astray
                   PROVE  notes[g] \in {None, IF g \in hist.edited \cup hist.waiting
                                               THEN mem.prev[g] ELSE mem.content[g]}
        BY <2>3, <2>4
      <3>1. CASE g = f
        BY <1>1, <1>4, <2>1, <3>1
      <3>2. CASE g # f
        <4>1. g \in File \ hist.astray
          BY <1>4, <3>2
        <4> QED
          BY <1>3, <2>1, <3>2, <4>1
      <3> QED
        BY <3>1, <3>2
    <2> QED
      BY <1>1, <2>3, <2>4, <2>5, <2>6, TimesSaves
  <1>5. CASE Times!AddComment(f)
    <2> DEFINE n == mem.content[f]
               astray == (hist.astray \ {f}) \cup ({f} \cap hist.edited)
    <2>1. Times!SyncWriteFiles([mem EXCEPT !.notes[f] = n], [hist EXCEPT !.astray = astray])
      BY <1>5 DEF Times!AddComment
    <2>2. astray \in TimesFiles
      BY <1>1, TimesTyped DEF TimesFiles
    <2>3. hist.astray \ {f} \subseteq astray /\ (f \notin astray => f \notin hist.edited) /\ n = mem.content[f]
      OBVIOUS
    <2> HIDE DEF n, astray
    <2> QED
      BY <1>2, <1>4, <2>1, <2>2, <2>3
  <1>6. CASE Times!DeleteComment(f)
    <2>1. Times!SyncWriteFiles([mem EXCEPT !.notes[f] = None], hist)
      BY <1>6 DEF Times!DeleteComment
    <2>2. hist = [hist EXCEPT !.astray = hist.astray] /\ hist.astray \in TimesFiles
      BY <1>1 DEF TimesHist
    <2>3. Times!SyncWriteFiles([mem EXCEPT !.notes[f] = None], [hist EXCEPT !.astray = hist.astray])
      BY <2>1, <2>2
    <2> QED
      BY <1>2, <1>4, <2>2, <2>3
  <1> QED
    BY <1>5, <1>6

(* The agent edits a file.                                                 *)
LEMMA TimesEdits ==
  ASSUME TimesInv, NEW f \in File, Times!Edit(f)
  PROVE  TimesInv'
  <1> USE DEF TimesInv
  <1>1. tree' \in TimesTexts /\ \A g \in File : tree[g] # None => tree'[g] # None
    <2> DEFINE t == IF tree[f] = None THEN 0 ELSE tree[f] + 1
    <2>1. tree \in TimesTexts /\ tree[f] # MaxVersion /\ tree' = [tree EXCEPT ![f] = t]
      BY DEF Times!Edit, TimesTypes
    <2>2. t \in 0..MaxVersion
      <3>1. tree[f] \in 0..MaxVersion \cup {None}
        BY <2>1 DEF TimesTexts, TimesText
      <3> QED
        BY <2>1, <3>1, TimesNothing
    <2>3. t \in TimesText /\ t # None
      BY <2>2, TimesNothing DEF TimesText
    <2> HIDE DEF t
    <2> QED
      BY <2>1, <2>3 DEF TimesTexts
  <1>2. UNCHANGED <<code, mem, disk, side, pc, hist>>
    BY DEF Times!Edit
  <1>3. TimesTypes' /\ TimesThere' /\ TimesWhen' /\ TimesCopy'
    BY <1>1, <1>2 DEF TimesTypes, TimesThere, TimesWhen, TimesCopy
  <1>4. TimesTold'
    BY <1>2, TimesStill
  <1>5. TimesCaught' /\ TimesSaved' /\ TimesPlaced'
    BY <1>2 DEF TimesCaught, TimesSure, TimesSaved, Times!Gone, TimesPlaced, TimesGiven
  <1> QED
    BY <1>3, <1>4, <1>5

(* TimesInv reads the variables of Timeline only.                          *)
LEMMA TimesStutter == TimesInv /\ UNCHANGED Times!vars => TimesInv'
  <1> SUFFICES ASSUME TimesInv, UNCHANGED Times!vars PROVE TimesInv'
    OBVIOUS
  <1> USE DEF TimesInv
  <1>1. UNCHANGED <<tree, code, mem, disk, side, pc, hist>>
    BY DEF Times!vars
  <1>2. TimesTypes' /\ TimesThere' /\ TimesWhen' /\ TimesCopy'
    BY <1>1 DEF TimesTypes, TimesThere, TimesWhen, TimesCopy
  <1>3. TimesTold'
    BY <1>1, TimesStill
  <1>4. TimesCaught' /\ TimesSaved' /\ TimesPlaced'
    BY <1>1 DEF TimesCaught, TimesSure, TimesSaved, Times!Gone, TimesPlaced, TimesGiven
  <1> QED
    BY <1>2, <1>3, <1>4

(* review.json is removed by someone else.                                 *)
LEMMA TimesRemoves == TimesInv /\ Times!RemovesReview => TimesInv'
  <1> SUFFICES ASSUME TimesInv, Times!RemovesReview PROVE TimesInv'
    OBVIOUS
  <1> USE DEF TimesInv
  <1> DEFINE failed == hist.failed \cup {"review", "side"}
  <1>1. /\ UNCHANGED <<tree, code, mem, pc>> /\ disk' = None /\ side' \in {side, None}
        /\ hist' = [hist EXCEPT !.failed = failed] /\ mem \in TimesMem /\ hist \in TimesHist
    BY DEF Times!RemovesReview, TimesTypes
  <1>2. failed \in TimesFailed
    BY <1>1, TimesTyped DEF TimesFailed
  <1>3. "review" \in failed /\ "side" \in failed
    OBVIOUS
  <1> HIDE DEF failed
  <1>4. /\ hist' \in TimesHist /\ hist'.failed = failed /\ hist'.truth = hist.truth
        /\ hist'.unseen = hist.unseen /\ hist'.lost = hist.lost /\ hist'.edited = hist.edited
        /\ hist'.waiting = hist.waiting /\ hist'.early = hist.early /\ hist'.astray = hist.astray
    BY <1>1, <1>2 DEF TimesHist
  <1>5. TimesTypes' /\ TimesThere' /\ TimesWhen' /\ TimesCopy'
    BY <1>1, <1>3, <1>4 DEF TimesTypes, TimesThere, TimesWhen, TimesCopy
  <1>6. TimesTold'
    <2>1. TimesTrue => TimesTrue'
      BY <1>1, <1>3, <1>4 DEF TimesTrue, TimesSure
    <2> QED
      BY <1>3, <1>4, <2>1 DEF TimesTold
  <1>7. TimesCaught' /\ TimesSaved'
    BY <1>1, <1>3, <1>4 DEF TimesCaught, TimesSure, TimesSaved
  <1>8. TimesPlaced'
    <2>1. TimesGiven' = TimesGiven \/ TimesGiven' = Times!NoNotes
      BY <1>1 DEF TimesGiven, Times!LoadedNotes
    <2> QED
      BY <1>1, <1>4, <2>1, TimesNothing DEF TimesPlaced
  <1> QED
    BY <1>5, <1>6, <1>7, <1>8

(* The comments are cleared.                                               *)
LEMMA TimesClears == TimesInv /\ Times!ClearAllComments => TimesInv'
  <1> SUFFICES ASSUME TimesInv, Times!ClearAllComments PROVE TimesInv'
    OBVIOUS
  <1> USE DEF TimesInv
  <1> DEFINE none == {}
             failed == IF pc = "committed" THEN {"side"} ELSE {}
             back == {f \in File : Times!LoadedNotes(mem.cj)[f] # None}
             astray == hist.astray \cup back
  <1>1. /\ UNCHANGED <<tree, code, pc>> /\ disk' = None /\ side' = None
        /\ mem' = [mem EXCEPT !.notes = Times!NoNotes, !.prev = Times!NoNotes, !.round = 1,
                              !.shots = Times!NoShots, !.known = FALSE, !.edits = FALSE]
        /\ hist' = [hist EXCEPT !.truth = Times!NoShots, !.unseen = none, !.lost = FALSE, !.failed = failed,
                                !.astray = astray, !.edited = none, !.waiting = none, !.early = none]
        /\ mem \in TimesMem /\ hist \in TimesHist
    BY DEF Times!ClearAllComments, TimesTypes
  <1>2. /\ none \in TimesUnseen /\ failed \in TimesFailed /\ none \in TimesFiles
        /\ astray \in TimesFiles
    <2>1. hist.astray \subseteq File
      BY <1>1, TimesTyped DEF TimesFiles
    <2> QED
      BY <2>1 DEF TimesUnseen, TimesFailed, TimesFiles
  <1>3. none = {} /\ (pc = "committed" => "side" \in failed)
    OBVIOUS
  <1>4. \A f \in File \ astray : Times!LoadedNotes(mem.cj)[f] = None
    OBVIOUS
  <1> HIDE DEF none, failed, back, astray
  <1>5. /\ Times!NoNotes \in TimesTexts /\ Times!NoNotes \in TimesNotes /\ Times!NoShots \in TimesShots
        /\ 1 \in Times!Round /\ \A f \in File : Times!NoNotes[f] = None
    BY TimesNothing
  <1>6. /\ mem' \in TimesMem /\ mem'.content = mem.content /\ mem'.notes = Times!NoNotes
        /\ mem'.round = 1 /\ mem'.shots = Times!NoShots /\ ~mem'.known /\ ~mem'.edits
        /\ mem'.signal = mem.signal /\ mem'.cj = mem.cj /\ mem'.sf = mem.sf
    BY <1>1, <1>5 DEF TimesMem
  <1>7. /\ hist' \in TimesHist /\ hist'.truth = Times!NoShots /\ hist'.edited = none
        /\ hist'.waiting = none /\ hist'.early = none /\ hist'.failed = failed /\ hist'.astray = astray
    BY <1>1, <1>2, <1>5 DEF TimesHist
  <1>8. TimesTypes' /\ TimesThere'
    BY <1>1, <1>6, <1>7 DEF TimesTypes, TimesThere
  <1>9. TimesWhen' /\ TimesCopy'
    <2>1. mem.signal \/ pc \in {"read", "carried"} => 1 < MaxRound
      BY <1>1, TimesTyped, TimesNothing DEF TimesWhen
    <2>2. TimesWhen'
      BY <1>1, <1>3, <1>6, <1>7, <2>1 DEF TimesWhen
    <2>3. TimesCopy'
      BY <1>1, <1>3, <1>6, <1>7 DEF TimesCopy
    <2> QED
      BY <2>2, <2>3
  <1>10. TimesTold'
    BY <1>1, <1>6, <1>7, TimesEmpty
  <1>11. TimesCaught' /\ TimesSaved'
    <2>1. TimesCaught'
      BY <1>1, <1>6 DEF TimesCaught, TimesCopy
    <2>2. TimesSaved'
      BY <1>1, <1>6 DEF TimesSaved, Times!Gone
    <2> QED
      BY <2>1, <2>2
  <1>12. TimesPlaced'
    <2>1. \A f \in File \ astray : TimesGiven'[f] = None
      BY <1>1, <1>4, <1>5, <1>6 DEF TimesGiven, Times!LoadedNotes
    <2> QED
      BY <1>7, <2>1 DEF TimesPlaced
  <1> QED
    BY <1>8, <1>9, <1>10, <1>11, <1>12

(* At rest the comments of the session are those on disk.                  *)
LEMMA TimesOnDisk ==
  ASSUME TimesInv, pc = "rest", "review" \notin hist.failed
  PROVE  TimesGiven = Times!LoadedNotes(disk)
  <1> USE DEF TimesInv
  <1>1. CASE mem.signal
    BY <1>1 DEF TimesGiven
  <1>2. CASE ~mem.signal
    <2>1. disk = IF mem.notes = Times!NoNotes THEN None ELSE [round |-> mem.round, notes |-> mem.notes]
      BY <1>2 DEF TimesSaved
    <2>2. disk # None => disk.notes = mem.notes
      BY <2>1
    <2>3. disk = None => mem.notes = Times!NoNotes
      <3>1. mem.notes \in TimesNotes /\ mem.round \in Times!Round
        BY TimesTyped DEF TimesTypes
      <3> QED
        BY <2>1, <3>1, TimesNothing DEF TimesDisk
    <2> QED
      BY <1>2, <2>2, <2>3 DEF TimesGiven, Times!LoadedNotes
  <1> QED
    BY <1>1, <1>2

(* A round's signal.                                                       *)
LEMMA TimesSignals == TimesInv /\ Times!SignalRoundComplete => TimesInv'
  <1> SUFFICES ASSUME TimesInv, Times!SignalRoundComplete PROVE TimesInv'
    OBVIOUS
  <1> USE DEF TimesInv
  <1> DEFINE none == {}
             astray == IF "review" \in hist.failed THEN File ELSE hist.astray
             waiting == hist.waiting \cup hist.edited
  <1>1. /\ UNCHANGED <<tree, code, disk, side>> /\ pc = "rest" /\ pc' = pc /\ mem.round < MaxRound
        /\ mem' = [mem EXCEPT !.notes = Times!NoNotes, !.edits = FALSE, !.signal = TRUE]
        /\ hist' = [hist EXCEPT !.astray = astray, !.edited = none, !.waiting = waiting, !.early = none]
        /\ mem \in TimesMem /\ hist \in TimesHist
    BY DEF Times!SignalRoundComplete, TimesTypes
  <1>2. none \in TimesFiles /\ astray \in TimesFiles /\ waiting \in TimesFiles /\ none = {}
    BY <1>1, TimesTyped DEF TimesFiles
  <1>3. Times!NoNotes \in TimesNotes
    BY TimesNothing
  <1> HIDE DEF none, astray, waiting
  <1>4. /\ mem' \in TimesMem /\ mem'.content = mem.content /\ mem'.prev = mem.prev
        /\ mem'.round = mem.round /\ mem'.shots = mem.shots /\ mem'.known = mem.known /\ ~mem'.edits
        /\ mem'.signal /\ mem'.cj = mem.cj
    BY <1>1, <1>3 DEF TimesMem
  <1>5. /\ hist' \in TimesHist /\ hist'.truth = hist.truth /\ hist'.unseen = hist.unseen
        /\ hist'.lost = hist.lost /\ hist'.failed = hist.failed /\ hist'.edited = none
        /\ hist'.waiting = waiting /\ hist'.early = none /\ hist'.astray = astray
    BY <1>1, <1>2 DEF TimesHist
  <1>6. TimesTypes' /\ TimesThere'
    BY <1>1, <1>4, <1>5 DEF TimesTypes, TimesThere
  <1>7. TimesWhen' /\ TimesCopy'
    BY <1>1, <1>2, <1>4, <1>5 DEF TimesWhen, TimesCopy
  <1>8. TimesTold'
    BY <1>1, <1>4, <1>5, TimesStill
  <1>9. TimesCaught' /\ TimesSaved'
    BY <1>1, <1>4, <1>5 DEF TimesCaught, TimesSure, TimesSaved, Times!Gone
  <1>10. TimesPlaced'
    <2> SUFFICES ASSUME NEW f \in File \ astray
                 PROVE  TimesGiven'[f] \in {None, IF f \in waiting THEN mem.prev[f] ELSE mem.content[f]}
      BY <1>1, <1>2, <1>4, <1>5 DEF TimesPlaced
    <2>1. "review" \notin hist.failed /\ f \in File \ hist.astray
      BY DEF astray
    <2>2. TimesGiven' = Times!LoadedNotes(disk)
      BY <1>1, <1>4 DEF TimesGiven
    <2>3. TimesGiven' = TimesGiven
      BY <1>1, <2>1, <2>2, TimesOnDisk
    <2> QED
      BY <1>1, <2>1, <2>3 DEF TimesPlaced, waiting
  <1> QED
    BY <1>6, <1>7, <1>8, <1>9, <1>10

(* Snapshots are saved to the sidecar.                                     *)
LEMMA TimesSavesShots == TimesInv /\ Times!SavesSnapshots => TimesInv'
  <1> SUFFICES ASSUME TimesInv, Times!SavesSnapshots PROVE TimesInv'
    OBVIOUS
  <1> USE DEF TimesInv
  <1>1. PICK failed \in TimesFailed :
          /\ hist' = [hist EXCEPT !.failed = failed]
          /\ \/ side' = mem.sf /\ mem.sf = mem.shots
             \/ side' \in {side, mem.sf} /\ "side" \in failed
    <2>1. /\ hist.failed \ {"side", "new"} \in TimesFailed /\ hist.failed \cup {"side"} \in TimesFailed
          /\ hist.failed \in TimesFailed
      BY TimesTyped DEF TimesFailed, TimesTypes
    <2>2. CASE side' = mem.sf /\ mem.sf = mem.shots /\ hist' = [hist EXCEPT !.failed = hist.failed \ {"side", "new"}]
      BY <2>1, <2>2
    <2>3. CASE side' = mem.sf /\ mem.sf # mem.shots /\ hist' = [hist EXCEPT !.failed = hist.failed]
      <3>1. "side" \in hist.failed
        BY <2>3 DEF Times!SavesSnapshots, TimesCopy
      <3> QED
        BY <2>1, <2>3, <3>1
    <2>4. CASE side' = side /\ hist' = [hist EXCEPT !.failed = hist.failed \cup {"side"}]
      <3>1. "side" \in hist.failed \cup {"side"}
        OBVIOUS
      <3> QED
        BY <2>1, <2>4, <3>1
    <2> QED
      BY <2>2, <2>3, <2>4 DEF Times!SavesSnapshots
  <1>2. /\ UNCHANGED <<tree, code, disk>> /\ pc = "committed" /\ pc' = "saved"
        /\ mem' = [mem EXCEPT !.sf = None] /\ mem.sf \in TimesShots
        /\ mem \in TimesMem /\ hist \in TimesHist /\ mem.shots \in TimesShots
        /\ mem.round \in Times!Round
    BY TimesTyped DEF Times!SavesSnapshots, TimesTypes, TimesCopy
  <1>3. /\ hist' \in TimesHist /\ hist'.failed = failed /\ hist'.truth = hist.truth
        /\ hist'.unseen = hist.unseen /\ hist'.lost = hist.lost /\ hist'.edited = hist.edited
        /\ hist'.waiting = hist.waiting /\ hist'.early = hist.early /\ hist'.astray = hist.astray
    BY <1>1, <1>2 DEF TimesHist
  <1>4. /\ mem' \in TimesMem /\ mem'.content = mem.content /\ mem'.prev = mem.prev /\ mem'.notes = mem.notes
        /\ mem'.round = mem.round /\ mem'.shots = mem.shots /\ mem'.edits = mem.edits
        /\ mem'.signal = mem.signal /\ mem'.cj = mem.cj
    BY <1>2 DEF TimesMem
  <1>5. TimesTypes' /\ TimesThere' /\ TimesWhen' /\ TimesCopy'
    BY <1>1, <1>2, <1>3, <1>4 DEF TimesTypes, TimesThere, TimesWhen, TimesCopy
  <1>6. TimesTold'
    <2>1. CASE side' = mem.sf /\ mem.sf = mem.shots
      <3>1. side' = mem.shots /\ side' # None
        BY <1>2, <2>1, TimesNothing
      <3>2. TimesKept' = mem.round
        BY <1>2, <1>4 DEF TimesKept
      <3>3. TimesTrue => TimesTrue' /\ TimesSide'
        <4>1. TimesTrue => TimesTrue'
          BY <1>2, <1>3, <1>4, <3>1 DEF TimesTrue
        <4>2. TimesTrue => TimesSide'
          BY <1>2, <1>4, <3>1, <3>2 DEF TimesTrue, TimesSide
        <4> QED
          BY <4>1, <4>2
      <3> QED
        BY <1>3, <3>3 DEF TimesTold
    <2>2. CASE "side" \in failed
      <3>1. TimesTrue => TimesTrue'
        BY <1>2, <1>3, <1>4, <2>2 DEF TimesTrue, TimesSure
      <3> QED
        BY <1>3, <2>2, <3>1 DEF TimesTold
    <2> QED
      BY <1>1, <2>1, <2>2
  <1>7. TimesCaught'
    <2>1. CASE mem.sf = mem.shots
      BY <1>2, <1>4, <2>1 DEF TimesCaught
    <2>2. CASE "side" \in failed
      BY <1>2, <1>3, <2>2 DEF TimesCaught, TimesSure
    <2> QED
      BY <1>1, <2>1, <2>2
  <1>8. TimesSaved' /\ TimesPlaced'
    BY <1>2, <1>3, <1>4 DEF TimesSaved, TimesPlaced, TimesGiven
  <1> QED
    BY <1>5, <1>6, <1>7, <1>8

(* A tick of the watcher.                                                  *)
LEMMA TimesPolls == TimesInv /\ Times!Poll => TimesInv'
  <1> SUFFICES ASSUME TimesInv, Times!Poll PROVE TimesInv'
    OBVIOUS
  <1> USE DEF TimesInv
  <1> DEFINE m == IF Times!Gone(mem) THEN Times!Cleared(mem) ELSE mem
             h == IF Times!Gone(mem) THEN Times!Wiped(hist) ELSE hist
             seen == {f \in File : mem.content[f] # None /\ tree[f] # mem.content[f]}
             texts == [f \in File |-> IF f \in seen THEN tree[f] ELSE m.content[f]]
             prev == [f \in File |-> IF f \in seen \ code /\ ~m.edits THEN m.content[f] ELSE m.prev[f]]
             edits == m.edits \/ seen # {}
             edited == h.edited \cup seen
             strays == (seen \cap (code \cup hist.waiting \cup hist.early))
                       \cup {f \in seen \ hist.edited : hist.edited \cup hist.early # {}}
             astray == h.astray \cup strays
  <1>1. /\ UNCHANGED <<tree, code, disk, side>> /\ pc = "rest" /\ pc' = pc
        /\ mem' = [m EXCEPT !.content = texts, !.prev = prev, !.edits = edits]
        /\ mem \in TimesMem /\ hist \in TimesHist /\ code \in TimesFiles /\ tree \in TimesTexts
    <2>1. /\ UNCHANGED <<tree, code, disk, side>> /\ pc = "rest" /\ pc' = pc
          /\ mem \in TimesMem /\ hist \in TimesHist /\ code \in TimesFiles /\ tree \in TimesTexts
      BY DEF Times!Poll, TimesTypes
    <2>2. mem' = [m EXCEPT !.content = [f \in File |-> IF f \in seen THEN tree[f] ELSE m.content[f]],
                          !.prev = [f \in File |-> IF f \in seen \ code /\ ~m.edits
                                                   THEN m.content[f] ELSE m.prev[f]],
                          !.edits = m.edits \/ seen # {}]
      BY DEF Times!Poll
    <2> QED
      BY <2>1, <2>2
  <1>2. hist' = [h EXCEPT !.edited = edited, !.astray = astray]
    <2>1. hist' = [h EXCEPT !.edited = h.edited \cup seen,
                            !.astray = h.astray \cup (seen \cap (code \cup hist.waiting \cup hist.early))
                                       \cup {f \in seen \ hist.edited : hist.edited \cup hist.early # {}}]
      BY DEF Times!Poll
    <2>2. h.astray \cup (seen \cap (code \cup hist.waiting \cup hist.early))
            \cup {f \in seen \ hist.edited : hist.edited \cup hist.early # {}} = astray
      OBVIOUS
    <2> HIDE DEF astray, seen, h
    <2> QED
      BY <2>1, <2>2
  <1>3. /\ m \in TimesMem /\ m.content = mem.content /\ m.prev = mem.prev /\ m.edits = mem.edits
        /\ m.signal = mem.signal /\ m.cj = mem.cj
        /\ h \in TimesHist /\ h.lost = hist.lost /\ h.edited = hist.edited /\ h.waiting = hist.waiting
        /\ h.early = hist.early /\ h.astray = hist.astray
        /\ \/ /\ Times!Gone(mem) /\ m.notes = Times!NoNotes /\ m.round = 1 /\ m.shots = Times!NoShots /\ ~m.known
              /\ h.truth = Times!NoShots /\ "side" \in h.failed
           \/ ~Times!Gone(mem) /\ m = mem /\ h = hist
    <2>1. CASE Times!Gone(mem)
      <3>1. m = Times!Cleared(mem) /\ h = Times!Wiped(hist)
        BY <2>1
      <3> HIDE DEF m, h
      <3> QED
        BY <1>1, <2>1, <3>1, TimesWipes
    <2>2. CASE ~Times!Gone(mem)
      BY <1>1, <2>2
    <2> QED
      BY <2>1, <2>2
  <1>4. seen \in TimesFiles /\ strays \in TimesFiles /\ strays \subseteq seen
    BY DEF TimesFiles
  <1>5. /\ \A f \in seen : mem.content[f] # None /\ tree[f] # None
        /\ \A f \in seen \ strays :
             f \notin code /\ f \notin hist.waiting /\ f \notin hist.early
             /\ (f \in hist.edited \/ hist.edited \cup hist.early = {})
    BY DEF TimesThere
  <1>6. texts \in TimesTexts /\ prev \in TimesTexts
    BY <1>1, <1>3, TimesTyped DEF TimesTexts
  <1>7. /\ \A f \in File : texts[f] = IF f \in seen THEN tree[f] ELSE mem.content[f]
        /\ \A f \in File : prev[f] = IF f \in seen \ code /\ ~mem.edits THEN mem.content[f] ELSE mem.prev[f]
    BY <1>3
  <1>8. edits \in BOOLEAN
    BY Zenon
  <1>9. edits <=> mem.edits \/ seen # {}
    BY <1>3
  <1>10. /\ edited \in TimesFiles /\ edited = hist.edited \cup seen
         /\ astray \in TimesFiles /\ astray = hist.astray \cup strays
    BY <1>1, <1>3, <1>4, TimesTyped DEF TimesFiles
  <1> HIDE DEF m, h, seen, strays, texts, prev, edits, edited, astray
  <1>11. /\ mem' \in TimesMem /\ mem'.content = texts /\ mem'.prev = prev /\ mem'.edits = edits
         /\ mem'.signal = mem.signal /\ mem'.notes = m.notes /\ mem'.round = m.round
         /\ mem'.shots = m.shots /\ mem'.known = m.known /\ mem'.cj = mem.cj
    BY <1>1, <1>3, <1>6, <1>8 DEF TimesMem
  <1>12. /\ hist' \in TimesHist /\ hist'.edited = edited /\ hist'.astray = astray
         /\ hist'.lost = hist.lost /\ hist'.waiting = hist.waiting /\ hist'.early = hist.early
         /\ hist'.truth = h.truth /\ hist'.unseen = h.unseen /\ hist'.failed = h.failed
    BY <1>2, <1>3, <1>10 DEF TimesHist
  <1>13. TimesTypes'
    BY <1>1, <1>11, <1>12 DEF TimesTypes
  <1>14. \A f \in File : texts[f] # None <=> mem.content[f] # None
    BY <1>5, <1>7
  <1>15. TimesThere'
    BY <1>1, <1>11, <1>14 DEF TimesThere
  <1>16. TimesWhen' /\ TimesCopy'
    <2>1. mem.signal => mem'.round < MaxRound
      <3>1. CASE m.round = 1
        <4>1. mem.signal => 1 < MaxRound
          BY <1>1, TimesTyped, TimesNothing DEF TimesWhen
        <4> QED
          BY <1>11, <3>1, <4>1
      <3>2. CASE m = mem
        BY <1>11, <3>2 DEF TimesWhen
      <3> QED
        BY <1>3, <3>1, <3>2
    <2>2. edits <=> edited \cup hist.early # {}
      BY <1>9, <1>10 DEF TimesWhen
    <2> QED
      BY <1>1, <1>11, <1>12, <2>1, <2>2 DEF TimesWhen, TimesCopy
  <1>17. TimesTold' /\ TimesCaught'
    <2>1. CASE m.round = 1 /\ m.shots = Times!NoShots /\ h.truth = Times!NoShots /\ "side" \in h.failed
      <3>1. TimesTold'
        BY <1>11, <1>12, <2>1, TimesEmpty
      <3> QED
        BY <1>1, <1>12, <2>1, <3>1 DEF TimesCaught, TimesSure
    <2>2. CASE m = mem /\ h = hist
      <3>1. TimesTold'
        BY <1>1, <1>11, <1>12, <2>2, TimesStill
      <3>2. TimesCaught'
        BY <1>1, <1>11, <1>12, <1>14, <2>2 DEF TimesCaught, TimesSure
      <3> QED
        BY <3>1, <3>2
    <2> QED
      BY <1>3, <2>1, <2>2
  <1>18. TimesSaved'
    <2>1. CASE Times!Gone(mem) /\ m.notes = Times!NoNotes /\ ~m.known
      BY <1>1, <1>11, <2>1 DEF TimesSaved, Times!Gone
    <2>2. CASE m = mem /\ h = hist
      BY <1>1, <1>11, <1>12, <2>2 DEF TimesSaved, Times!Gone
    <2> QED
      BY <1>3, <2>1, <2>2
  <1>19. TimesPlaced'
    <2> SUFFICES ASSUME NEW f \in File \ astray
                 PROVE  TimesGiven'[f] \in {None, IF f \in edited \cup hist.waiting THEN prev[f] ELSE texts[f]}
      BY <1>1, <1>11, <1>12 DEF TimesPlaced
    <2>1. TimesGiven' = TimesGiven \/ TimesGiven'[f] = None
      <3>1. CASE Times!Gone(mem) /\ m.notes = Times!NoNotes
        BY <1>1, <1>11, <3>1, TimesNothing DEF TimesGiven, Times!Gone, Times!LoadedNotes
      <3>2. CASE m = mem
        BY <1>1, <1>11, <3>2 DEF TimesGiven
      <3> QED
        BY <1>3, <3>1, <3>2
    <2>2. TimesGiven[f] \in {None, IF f \in hist.edited \cup hist.waiting THEN mem.prev[f] ELSE mem.content[f]}
      BY <1>1, <1>10 DEF TimesPlaced
    <2>3. CASE f \notin seen
      BY <1>7, <1>10, <2>1, <2>2, <2>3
    <2>4. CASE f \in seen
      <3>1. f \notin code /\ f \notin hist.waiting /\ f \in edited
            /\ (f \in hist.edited \/ hist.edited \cup hist.early = {})
        BY <1>5, <1>10, <2>4
      <3>2. CASE f \in hist.edited
        <4>1. mem.edits
          BY <3>2 DEF TimesWhen
        <4> QED
          BY <1>7, <2>1, <2>2, <3>1, <3>2, <4>1
      <3>3. CASE hist.edited \cup hist.early = {}
        <4>1. ~mem.edits /\ f \notin hist.edited
          BY <3>3 DEF TimesWhen
        <4> QED
          BY <1>7, <2>1, <2>2, <2>4, <3>1, <4>1
      <3> QED
        BY <3>1, <3>2, <3>3
    <2> QED
      BY <2>3, <2>4
  <1> QED
    BY <1>13, <1>15, <1>16, <1>17, <1>18, <1>19

(* The first step of a round's completion: new files, and review.json.     *)
LEMMA TimesReads == TimesInv /\ Times!LoadsResolvedComments => TimesInv'
  <1> SUFFICES ASSUME TimesInv, Times!LoadsResolvedComments PROVE TimesInv'
    OBVIOUS
  <1> USE DEF TimesInv
  <1> DEFINE texts == [f \in File |-> IF mem.content[f] = None THEN tree[f] ELSE mem.content[f]]
  <1>1. /\ UNCHANGED <<tree, code, disk, side, hist>> /\ pc = "rest" /\ pc' = "read" /\ mem.signal
        /\ mem' = [mem EXCEPT !.signal = FALSE, !.cj = disk, !.content = texts]
        /\ mem \in TimesMem /\ hist \in TimesHist /\ tree \in TimesTexts /\ disk \in TimesDisk \cup {None}
    BY DEF Times!LoadsResolvedComments, TimesTypes
  <1>2. texts \in TimesTexts
    BY <1>1, TimesTyped DEF TimesTexts
  <1>3. \A f \in File : texts[f] = IF mem.content[f] = None THEN tree[f] ELSE mem.content[f]
    BY SMTT(30)
  <1> HIDE DEF texts
  <1>4. /\ mem' \in TimesMem /\ mem'.content = texts /\ mem'.prev = mem.prev /\ mem'.round = mem.round
        /\ mem'.shots = mem.shots /\ mem'.edits = mem.edits /\ ~mem'.signal /\ mem'.cj = disk
    BY <1>1, <1>2 DEF TimesMem
  <1>5. TimesTypes' /\ TimesWhen' /\ TimesCopy'
    BY <1>1, <1>4 DEF TimesTypes, TimesWhen, TimesCopy
  <1>6. TimesThere'
    BY <1>1, <1>3, <1>4 DEF TimesThere
  <1>7. TimesTold'
    BY <1>1, <1>4, TimesStill
  <1>8. TimesCaught' /\ TimesSaved'
    BY <1>1 DEF TimesCaught, TimesSaved
  <1>9. TimesPlaced'
    <2>1. TimesGiven' = TimesGiven
      BY <1>1, <1>4 DEF TimesGiven
    <2> QED
      BY <1>1, <1>3, <1>4, <2>1 DEF TimesPlaced
  <1> QED
    BY <1>5, <1>6, <1>7, <1>8, <1>9

(* The second: comments are carried forward.                               *)
LEMMA TimesCarries == TimesInv /\ Times!CarriesForward => TimesInv'
  <1> SUFFICES ASSUME TimesInv, Times!CarriesForward PROVE TimesInv'
    OBVIOUS
  <1> USE DEF TimesInv
  <1> DEFINE known == mem.known \/ mem.cj # None
             before == Times!LoadedNotes(mem.cj)
             on == {f \in Times!Changed(mem) : before[f] # None}
  <1>1. /\ UNCHANGED <<tree, code, disk, side>> /\ pc = "read" /\ pc' = "carried" /\ ~mem.signal
        /\ mem \in TimesMem /\ hist \in TimesHist /\ mem.cj \in TimesDisk \cup {None}
    BY TimesTyped DEF Times!CarriesForward, TimesTypes, TimesWhen
  <1>2. known \in BOOLEAN
    BY Zenon
  <1>3. before \in TimesNotes /\ None \in TimesDisk \cup {None}
    BY <1>1, TimesNothing
  <1>4. PICK to \in [on -> 0..MaxVersion \cup {Times!Nowhere}] :
          /\ \A f \in on : to[f] \in Times!Carried(before[f], mem.prev[f], mem.content[f])
          /\ mem' = [mem EXCEPT !.known = known, !.cj = None,
                                !.notes = [f \in File |-> IF f \in on THEN to[f] ELSE before[f]]]
          /\ hist' = [hist EXCEPT !.astray = hist.astray \cup (on \ (hist.edited \cup hist.waiting))]
    BY ZenonT(30) DEF Times!CarriesForward
  <1> HIDE DEF known
  <1>5. on = {f \in File : mem.prev[f] # None /\ before[f] # None}
    BY DEF Times!Changed
  <1> HIDE DEF before, on
  <1> DEFINE notes == [f \in File |-> IF f \in on THEN to[f] ELSE before[f]]
             astray == hist.astray \cup (on \ (hist.edited \cup hist.waiting))
  <1>6. notes \in TimesNotes /\ astray \in TimesFiles
    <2>1. \A f \in on : to[f] \in TimesNote
      BY DEF TimesNote, TimesText
    <2>2. \A f \in File : before[f] \in TimesNote
      BY <1>3 DEF TimesNotes
    <2>3. notes \in TimesNotes
      BY <2>1, <2>2 DEF TimesNotes
    <2>4. on \subseteq File /\ hist.astray \subseteq File
      BY <1>1, <1>5, TimesTyped DEF TimesFiles
    <2> QED
      BY <2>3, <2>4 DEF TimesFiles
  <1>7. \A f \in File : notes[f] = IF f \in on THEN to[f] ELSE before[f]
    OBVIOUS
  <1>8. astray = hist.astray \cup (on \ (hist.edited \cup hist.waiting))
    OBVIOUS
  <1>9. /\ mem' = [mem EXCEPT !.known = known, !.cj = None, !.notes = notes]
        /\ hist' = [hist EXCEPT !.astray = astray]
    BY <1>4
  <1> HIDE DEF notes, astray
  <1>10. /\ mem' \in TimesMem /\ mem'.content = mem.content /\ mem'.prev = mem.prev
         /\ mem'.round = mem.round /\ mem'.shots = mem.shots /\ mem'.edits = mem.edits
         /\ ~mem'.signal /\ mem'.notes = notes /\ mem'.cj = None
    BY <1>1, <1>2, <1>3, <1>6, <1>9 DEF TimesMem
  <1>11. /\ hist' \in TimesHist /\ hist'.astray = astray /\ hist'.truth = hist.truth
         /\ hist'.unseen = hist.unseen /\ hist'.lost = hist.lost /\ hist'.edited = hist.edited
         /\ hist'.waiting = hist.waiting /\ hist'.early = hist.early /\ hist'.failed = hist.failed
    BY <1>1, <1>6, <1>9 DEF TimesHist
  <1>12. TimesTypes' /\ TimesThere' /\ TimesWhen' /\ TimesCopy'
    BY <1>1, <1>10, <1>11 DEF TimesTypes, TimesThere, TimesWhen, TimesCopy
  <1>13. TimesTold'
    BY <1>1, <1>10, <1>11, TimesStill
  <1>14. TimesCaught' /\ TimesSaved'
    BY <1>1 DEF TimesCaught, TimesSaved
  <1>15. TimesPlaced'
    <2> SUFFICES ASSUME NEW f \in File \ astray PROVE notes[f] \in {None, mem.content[f]}
      BY <1>1, <1>10, <1>11 DEF TimesPlaced, TimesGiven
    <2>1. before[f] \in {None, IF f \in hist.edited \cup hist.waiting THEN mem.prev[f] ELSE mem.content[f]}
      BY <1>1, <1>8 DEF TimesPlaced, TimesGiven, before
    <2>2. CASE f \in on
      <3>1. f \in hist.edited \cup hist.waiting /\ before[f] = mem.prev[f]
        BY <1>5, <1>8, <2>1, <2>2
      <3>2. to[f] = mem.content[f]
        BY <1>4, <2>2, <3>1 DEF Times!Carried
      <3> QED
        BY <1>7, <2>2, <3>2
    <2>3. CASE f \notin on
      <3>1. before[f] = None \/ mem.prev[f] = None
        BY <1>5, <2>3
      <3>2. before[f] \in {None, mem.content[f]}
        BY <2>1, <3>1
      <3> QED
        BY <1>7, <2>3, <3>2
    <2> QED
      BY <2>2, <2>3
  <1> QED
    BY <1>12, <1>13, <1>14, <1>15

(* The third: the new round and its snapshots.                             *)
LEMMA TimesCommits == TimesInv /\ Times!CommitsRound => TimesInv'
  <1> SUFFICES ASSUME TimesInv, Times!CommitsRound PROVE TimesInv'
    OBVIOUS
  <1> USE DEF TimesInv
  <1> DEFINE next == mem.round + 1
             listed == {f \in File : mem.content[f] # None}
             shots == Times!CaptureRoundSnapshot(mem.shots, mem.content, next)
             prev == [f \in File |-> IF f \notin code /\ mem.prev[f] = None THEN mem.content[f] ELSE mem.prev[f]]
             texts == [f \in File |-> IF f \in listed THEN tree[f] ELSE None]
             none == {}
             truth == [f \in File |-> [hist.truth[f] EXCEPT ![next] = mem'.content[f]]]
             missed == {<<f, next>> : f \in {g \in listed : tree[g] # mem.content[g]}}
             unseen == hist.unseen \cup missed
             astray == hist.astray \cup {f \in listed : tree[f] # mem.content[f]}
             edited == hist.edited
  <1>1. /\ UNCHANGED <<tree, code, disk, side>> /\ pc = "carried" /\ pc' = "committed" /\ ~mem.signal
        /\ mem' = [mem EXCEPT !.shots = shots, !.sf = shots, !.prev = prev, !.content = texts, !.round = next]
        /\ mem \in TimesMem /\ hist \in TimesHist /\ tree \in TimesTexts /\ mem.round < MaxRound
    BY DEF Times!CommitsRound, TimesTypes, TimesWhen
  <1>2. hist' = [hist EXCEPT !.truth = truth, !.unseen = unseen, !.astray = astray, !.edited = none,
                             !.waiting = none, !.early = edited]
    BY DEF Times!CommitsRound
  <1>3. /\ next \in Times!Round /\ next > 1 /\ next = mem.round + 1 /\ mem.round \in Times!Round
        /\ mem.round \in Nat /\ next \in Nat /\ next > mem.round
        /\ \A r \in Times!Round : /\ (r < next) <=> (r <= mem.round)
                                  /\ (r > next) => (r > mem.round /\ r # next)
                                  /\ (r <= mem.round) => (r # next)
        /\ \A r \in 2..next : r = next \/ r \in 2..mem.round
    BY <1>1, TimesTyped, TimesNothing
  <1> HIDE DEF next
  <1>4. /\ shots \in TimesShots
        /\ \A f \in File, r \in Times!Round : r # next => shots[f][r] = mem.shots[f][r]
        /\ \A f \in File : shots[f][next] = IF mem.shots[f][next] = None THEN mem.content[f] ELSE mem.shots[f][next]
    BY <1>1, <1>3, TimesTyped, TimesCaptures, ZenonT(60)
  <1>5. /\ texts \in TimesTexts /\ prev \in TimesTexts
        /\ \A f \in File : texts[f] = IF mem.content[f] # None THEN tree[f] ELSE None
    BY <1>1, TimesTyped, TimesNothing DEF TimesTexts
  <1>6. /\ astray \in TimesFiles /\ none \in TimesFiles /\ edited \in TimesFiles /\ none = {}
        /\ hist.astray \subseteq astray
        /\ \A f \in File : mem.content[f] # None /\ tree[f] # mem.content[f] => f \in astray
    BY <1>1, TimesTyped DEF TimesFiles
  <1>7. /\ unseen \in TimesUnseen
        /\ \A f \in File : mem.content[f] # None /\ tree[f] # mem.content[f] => <<f, next>> \in unseen
        /\ hist.unseen \subseteq unseen
    <2>1. missed \in TimesUnseen
      BY <1>3 DEF TimesUnseen
    <2>2. \A f \in File : mem.content[f] # None /\ tree[f] # mem.content[f] => <<f, next>> \in missed
      OBVIOUS
    <2>3. hist.unseen \in TimesUnseen
      BY <1>1, TimesTyped
    <2> HIDE DEF missed
    <2> QED
      BY <2>1, <2>2, <2>3 DEF TimesUnseen
  <1>8. edited = hist.edited
    OBVIOUS
  <1> HIDE DEF shots, prev, texts, astray, unseen, none, edited
  <1>9. /\ mem' \in TimesMem /\ mem'.content = texts /\ mem'.prev = prev /\ mem'.round = next
        /\ mem'.shots = shots /\ mem'.edits = mem.edits /\ ~mem'.signal /\ mem'.notes = mem.notes
        /\ mem'.sf = shots /\ mem'.cj = mem.cj
    BY <1>1, <1>3, <1>4, <1>5 DEF TimesMem
  <1>10. /\ truth \in TimesShots
         /\ \A f \in File, r \in Times!Round : truth[f][r] = IF r = next THEN texts[f] ELSE hist.truth[f][r]
    <2>1. hist.truth \in TimesShots
      BY <1>1, TimesTyped
    <2>2. \A f \in File : hist.truth[f] \in [Times!Round -> TimesText] /\ texts[f] \in TimesText
      BY <1>5, <2>1 DEF TimesShots, TimesTexts
    <2>3. truth = [f \in File |-> [hist.truth[f] EXCEPT ![next] = texts[f]]]
      BY <1>9
    <2> HIDE DEF truth
    <2>4. \A f \in File : truth[f] \in [Times!Round -> TimesText]
      BY <2>2, <2>3
    <2>5. truth \in TimesShots
      BY <2>3, <2>4 DEF TimesShots
    <2>6. \A f \in File, r \in Times!Round : truth[f][r] = IF r = next THEN texts[f] ELSE hist.truth[f][r]
      BY <1>3, <2>2, <2>3
    <2> QED
      BY <2>5, <2>6
  <1> HIDE DEF truth
  <1>11. /\ hist' \in TimesHist /\ hist'.truth = truth /\ hist'.unseen = unseen /\ hist'.astray = astray
         /\ hist'.edited = none /\ hist'.waiting = none /\ hist'.early = edited
         /\ hist'.lost = hist.lost /\ hist'.failed = hist.failed
    BY <1>1, <1>2, <1>6, <1>7, <1>10 DEF TimesHist
  <1>12. TimesTypes'
    BY <1>1, <1>9, <1>11 DEF TimesTypes
  <1>13. TimesThere'
    BY <1>1, <1>5, <1>9 DEF TimesThere
  <1>14. TimesWhen' /\ TimesCopy'
    <2>1. mem.edits <=> edited # {}
      BY <1>1, <1>8 DEF TimesWhen
    <2>2. TimesWhen'
      BY <1>1, <1>3, <1>6, <1>9, <1>11, <2>1 DEF TimesWhen
    <2>3. shots \notin {None, Times!NoShots}
      <3>1. PICK f \in File : mem.content[f] # None
        BY DEF TimesThere
      <3>2. shots[f][next] # None
        BY <1>4, <3>1
      <3> QED
        BY <1>3, <1>4, <3>2, TimesNothing
    <2> QED
      BY <1>1, <1>3, <1>9, <2>2, <2>3 DEF TimesCopy
  <1>15. TimesTold'
    <2> SUFFICES ASSUME ~hist.lost
                 PROVE  TimesTrue' /\ ("side" \notin hist.failed /\ side # None => TimesSide')
      BY <1>1, <1>11 DEF TimesTold
    <2>1. TimesTrue /\ ("side" \notin hist.failed /\ side # None => TimesSide)
      BY DEF TimesTold
    <2>2. TimesKept = mem.round /\ TimesKept' = mem.round
      BY <1>1, <1>3, <1>9 DEF TimesKept
    <2>3. \A f \in File : mem.shots[f][next] = None
      BY <1>3, <2>1 DEF TimesTrue
    <2>4. TimesTrue'
      <3>1. \A f \in File, r \in Times!Round : shots[f][r] # truth[f][r] => <<f, r>> \in unseen
        <4> SUFFICES ASSUME NEW f \in File, NEW r \in Times!Round, shots[f][r] # truth[f][r]
                     PROVE  <<f, r>> \in unseen
          OBVIOUS
        <4>1. CASE r = next
          BY <1>4, <1>5, <1>7, <1>10, <2>3, <4>1
        <4>2. CASE r # next
          <5>1. <<f, r>> \in hist.unseen
            BY <1>4, <1>10, <2>1, <4>2 DEF TimesTrue
          <5> QED
            BY <1>7, <5>1
        <4> QED
          BY <4>1, <4>2
      <3>2. \A f \in File, r \in Times!Round : r > next => shots[f][r] = None
        BY <1>3, <1>4, <2>1 DEF TimesTrue
      <3>3. ASSUME NEW r \in 2..next PROVE \E f \in File : shots[f][r] # None
        <4>1. CASE r = next
          BY <1>4, <2>3, <4>1 DEF TimesThere
        <4>2. CASE r # next
          <5>1. r \in 2..mem.round /\ r \in Times!Round
            BY <1>3, <4>2, TimesNothing
          <5> QED
            BY <1>4, <2>1, <4>2, <5>1 DEF TimesTrue
        <4> QED
          BY <4>1, <4>2
      <3> QED
        BY <1>1, <1>9, <1>11, <3>1, <3>2, <3>3 DEF TimesTrue
    <2>5. TimesSide => TimesSide'
      <3>1. \A f \in File, r \in Times!Round : r <= mem.round => shots[f][r] = mem.shots[f][r]
        BY <1>3, <1>4
      <3>2. \A r \in Times!Round : r < mem.round => r <= mem.round
        BY <1>3, TimesNothing
      <3>3. mem.round <= mem.round
        BY <1>3, TimesNothing
      <3> QED
        BY <1>1, <1>3, <1>9, <2>2, <3>1, <3>2, <3>3 DEF TimesSide
    <2> QED
      BY <2>1, <2>4, <2>5
  <1>16. TimesCaught'
    BY <1>1, <1>4, <1>5, <1>9 DEF TimesCaught
  <1>17. TimesSaved'
    BY <1>1 DEF TimesSaved
  <1>18. TimesPlaced'
    <2> SUFFICES ASSUME NEW f \in File \ astray PROVE mem.notes[f] \in {None, texts[f]}
      BY <1>1, <1>6, <1>9, <1>11 DEF TimesPlaced, TimesGiven
    <2>1. mem.notes[f] \in {None, mem.content[f]}
      BY <1>1, <1>6 DEF TimesPlaced, TimesGiven
    <2> QED
      BY <1>5, <1>6, <2>1
  <1> QED
    BY <1>12, <1>13, <1>14, <1>15, <1>16, <1>17, <1>18

(* A new daemon reads review.json and the sidecar.                         *)
LEMMA TimesRestarts == TimesInv /\ Times!Restart => TimesInv'
  <1> SUFFICES ASSUME TimesInv, Times!Restart PROVE TimesInv'
    OBVIOUS
  <1> USE DEF TimesInv
  <1> DEFINE n == IF disk = None THEN 1 ELSE disk.round
             notes == IF disk = None THEN Times!NoNotes ELSE disk.notes
             first == Times!CaptureRoundSnapshot(Times!NoShots, tree, 1)
  <1>1. /\ UNCHANGED <<tree, code, disk>> /\ pc' = "rest" /\ mem' = Times!Loaded(disk, side)
        /\ mem \in TimesMem /\ hist \in TimesHist /\ tree \in TimesTexts /\ code \in TimesFiles
        /\ disk \in TimesDisk \cup {None} /\ side \in TimesShots \cup {None}
    BY DEF Times!Restart, TimesTypes
  <1>2. (side # None => side' = side) /\ (side = None => side' \in {mem'.shots, None})
    <2>1. side' \in IF side = None THEN {mem'.shots, None} ELSE {side}
      BY DEF Times!Restart
    <2>2. CASE side = None
      BY <2>1, <2>2
    <2>3. CASE side # None
      BY <2>1, <2>3
    <2> QED
      BY <2>2, <2>3
  <1>3. /\ mem' \in TimesMem /\ mem'.content = tree /\ mem'.notes = notes
        /\ mem'.round = n /\ n \in Times!Round /\ ~mem'.edits /\ ~mem'.signal /\ (mem'.known <=> disk # None)
        /\ mem'.cj = None
        /\ \A f \in File, r \in Times!Round :
             side # None => mem'.shots[f][r] = IF r = n /\ side[f][r] = None THEN tree[f] ELSE side[f][r]
        /\ side = None /\ disk = None => mem'.shots = first
    BY <1>1, TimesLoads
  <1>4. mem'.shots \in TimesShots
    BY <1>3 DEF TimesMem
  <1>5. TimesThere'
    BY <1>1, <1>3 DEF TimesThere
  <1>6. TimesSaved'
    <2>1. disk = IF notes = Times!NoNotes THEN None ELSE [round |-> n, notes |-> notes]
      <3>1. CASE disk = None
        BY <3>1
      <3>2. CASE disk # None
        <4>1. disk \in TimesDisk /\ notes = disk.notes /\ n = disk.round /\ notes # Times!NoNotes
          BY <1>1, <3>2 DEF TimesSaved
        <4>2. disk = [round |-> disk.round, notes |-> disk.notes]
          BY <4>1 DEF TimesDisk
        <4> QED
          BY <4>1, <4>2
      <3> QED
        BY <3>1, <3>2
    <2> HIDE DEF n, notes
    <2> QED
      BY <1>1, <1>3, <2>1 DEF TimesSaved, Times!Gone
  <1>7. CASE disk = None /\ side = None
    <2> DEFINE failed == IF side' = None THEN {"side"} ELSE {}
    <2>1. hist' = [Times!Fresh EXCEPT !.failed = failed]
      BY <1>7 DEF Times!Restart
    <2>2. failed \in TimesFailed /\ (side' # None => failed = {}) /\ (side' = None => "side" \in failed)
      BY DEF TimesFailed
    <2> DEFINE h == Times!Fresh
    <2>3. /\ h \in TimesHist /\ h.truth = first /\ h.unseen = {} /\ ~h.lost
          /\ h.edited = {} /\ h.waiting = {} /\ h.early = {}
      BY <1>1, TimesFresh
    <2> HIDE DEF h, failed
    <2>4. /\ hist' \in TimesHist /\ hist'.truth = first /\ hist'.unseen = {} /\ ~hist'.lost
          /\ hist'.edited = {} /\ hist'.waiting = {} /\ hist'.early = {} /\ hist'.failed = failed
      <3>1. hist' = [h EXCEPT !.failed = failed]
        BY <2>1 DEF h
      <3> QED
        BY <2>2, <2>3, <3>1 DEF TimesHist
    <2>5. /\ first \in TimesShots /\ \A f \in File : first[f][1] = tree[f]
          /\ \A f \in File, r \in Times!Round : r # 1 => first[f][r] = None
      BY <1>1, TimesFirst
    <2>6. n = 1 /\ notes = Times!NoNotes /\ mem'.shots = first /\ side' \in {first, None}
      BY <1>2, <1>3, <1>7
    <2> HIDE DEF first, n, notes
    <2>7. TimesTypes'
      BY <1>1, <1>3, <2>4, <2>5, <2>6 DEF TimesTypes
    <2>8. TimesWhen' /\ TimesCopy'
      BY <1>1, <1>3, <2>4 DEF TimesWhen, TimesCopy
    <2>9. TimesTold'
      <3>1. TimesKept' = 1
        BY <1>1, <1>3, <2>6 DEF TimesKept
      <3>2. \A r \in Times!Round : ~(r < 1) /\ (r > 1 => r # 1)
        BY TimesNothing
      <3>3. first # None
        BY <2>5, TimesNothing
      <3>4. TimesTrue'
        <4>1. TimesSure' => side' = first
          BY <2>2, <2>4, <2>6 DEF TimesSure
        <4> QED
          BY <1>3, <2>4, <2>5, <2>6, <3>2, <3>3, <4>1 DEF TimesTrue
      <3>5. side' # None => TimesSide'
        BY <1>3, <2>5, <2>6, <3>1, <3>2, <3>3 DEF TimesSide
      <3> QED
        BY <3>4, <3>5 DEF TimesTold
    <2>10. TimesCaught'
      BY <1>3, <2>5, <2>6 DEF TimesCaught
    <2>11. TimesPlaced'
      BY <1>1, <1>3, <2>6, TimesNothing DEF TimesPlaced, TimesGiven
    <2> QED
      BY <1>5, <1>6, <2>7, <2>8, <2>9, <2>10, <2>11
  <1>8. CASE ~(disk = None /\ side = None)
    <2> DEFINE none == {}
               truth == [f \in File |-> [r \in Times!Round |->
                           IF r > mem'.round THEN None
                           ELSE IF r = mem'.round /\ (side = None \/ side[f][r] = None) THEN tree[f]
                           ELSE hist.truth[f][r]]]
               still == pc = "rest" /\ \A f \in File : tree[f] = None \/ mem.content[f] # None
               failed == (hist.failed \ {"review"}) \cup (IF side' = None THEN {"side"} ELSE {})
                         \cup (IF still THEN {} ELSE {"new"})
               lost == hist.lost \/ side = None \/ "side" \in hist.failed \/ Times!Rounds(side) # 1..mem'.round
               astray == IF "review" \in hist.failed \/ pc # "rest" THEN File
                         ELSE hist.astray \cup hist.edited \cup hist.waiting \cup {f \in File : tree[f] # mem.content[f]}
    <2>1. hist' = [hist EXCEPT !.truth = truth, !.failed = failed, !.lost = lost, !.astray = astray,
                               !.edited = none, !.waiting = none, !.early = none]
      BY <1>8 DEF Times!Restart
    <2>2. /\ failed \in TimesFailed /\ astray \in TimesFiles /\ none \in TimesFiles
      BY <1>1, TimesTyped DEF TimesFailed, TimesFiles
    <2>3. lost \in BOOLEAN
      BY Zenon
    <2>4. /\ ~lost => /\ ~hist.lost /\ side # None /\ "side" \notin hist.failed
                       /\ Times!Rounds(side) = 1..mem'.round
          /\ hist.failed \cap {"side", "new"} \subseteq failed
          /\ "new" \notin failed => pc = "rest" /\ \A f \in File : tree[f] = None \/ mem.content[f] # None
          /\ none = {}
          /\ \A f \in File \ astray : /\ "review" \notin hist.failed /\ pc = "rest"
                                     /\ f \notin hist.astray /\ f \notin hist.edited \cup hist.waiting
                                     /\ tree[f] = mem.content[f]
      OBVIOUS
    <2>5. /\ truth \in TimesShots
          /\ \A f \in File, r \in Times!Round :
               truth[f][r] = IF r > n THEN None
                             ELSE IF r = n /\ (side = None \/ side[f][r] = None) THEN tree[f]
                             ELSE hist.truth[f][r]
      <3>1. hist.truth \in TimesShots
        BY <1>1, TimesTyped
      <3>2. \A f \in File, r \in Times!Round :
              hist.truth[f][r] \in TimesText /\ tree[f] \in TimesText /\ None \in TimesText
        BY <1>1, <3>1, TimesNothing DEF TimesShots, TimesTexts
      <3> HIDE DEF n
      <3>3. mem'.round = n
        BY <1>3
      <3>4. truth = [f \in File |-> [r \in Times!Round |->
                      IF r > n THEN None
                      ELSE IF r = n /\ (side = None \/ side[f][r] = None) THEN tree[f]
                      ELSE hist.truth[f][r]]]
        BY <3>3
      <3> HIDE DEF truth
      <3> QED
        BY <3>2, <3>4 DEF TimesShots
    <2> HIDE DEF n, notes, first, none, truth, still, failed, lost, astray
    <2>6. /\ hist' \in TimesHist /\ hist'.truth = truth /\ hist'.failed = failed /\ hist'.lost = lost
          /\ hist'.astray = astray /\ hist'.edited = none /\ hist'.waiting = none /\ hist'.early = none
          /\ hist'.unseen = hist.unseen
      BY <1>1, <2>1, <2>2, <2>3, <2>5 DEF TimesHist
    <2>7. TimesTypes'
      BY <1>1, <1>2, <1>3, <1>4, <2>6 DEF TimesTypes
    <2>8. TimesWhen' /\ TimesCopy'
      BY <1>1, <1>3, <2>4, <2>6 DEF TimesWhen, TimesCopy
    <2>9. ASSUME ~lost
          PROVE  TimesTrue' /\ TimesSide'
      <3>1. /\ TimesTrue /\ TimesSide /\ side # None /\ side' = side /\ Times!Rounds(side) = 1..n
            /\ side \in TimesShots
        BY <1>1, <1>2, <1>3, <2>4, <2>9 DEF TimesTold
      <3>2. TimesKept \in 1..MaxRound
        <4>1. pc = "committed" => mem.round > 1
          BY <2>4, <2>9 DEF TimesCopy
        <4> QED
          BY <1>1, <4>1, TimesTyped, TimesNothing DEF TimesKept
      <3>3. n \in 1..MaxRound
        BY <1>3, TimesNothing
      <3>4. \A r \in Times!Round : r \in 1..n <=> \E f \in File : side[f][r] # None
        BY <3>1 DEF Times!Rounds
      <3>5. ~(n < TimesKept)
        <4> SUFFICES ASSUME n < TimesKept PROVE FALSE
          OBVIOUS
        <4>1. TimesKept \in 2..TimesKept /\ TimesKept \notin 1..n /\ TimesKept \in Times!Round
          BY <3>2, <3>3, TimesNothing
        <4> QED
          BY <3>1, <3>4, <4>1 DEF TimesSide
      <3>6. ~(n > TimesKept)
        <4> SUFFICES ASSUME n > TimesKept PROVE FALSE
          OBVIOUS
        <4>1. n \in 1..n /\ n \in Times!Round
          BY <3>3, TimesNothing
        <4> QED
          BY <3>1, <3>4, <4>1 DEF TimesSide
      <3>7. n = TimesKept
        BY <3>2, <3>3, <3>5, <3>6
      <3>8. /\ TimesKept' = n
            /\ \A r \in Times!Round : (r < n \/ r = n \/ r > n) /\ (r < n => ~(r > n)) /\ (r > n => r # n)
                                       /\ (r < n => r # n)
        BY <1>1, <1>3, <3>3, TimesNothing DEF TimesKept
      <3>9. \A f \in File, r \in Times!Round :
              /\ r < n => mem'.shots[f][r] = side[f][r] /\ side[f][r] = mem.shots[f][r]
                          /\ truth[f][r] = hist.truth[f][r]
              /\ r > n => mem'.shots[f][r] = None /\ side[f][r] = None /\ truth[f][r] = None
              /\ r = n => \/ side[f][r] = None /\ mem'.shots[f][r] = tree[f] /\ truth[f][r] = tree[f]
                          \/ /\ side[f][r] # None /\ mem'.shots[f][r] = side[f][r]
                             /\ side[f][r] = mem.shots[f][r] /\ truth[f][r] = hist.truth[f][r]
        <4> SUFFICES ASSUME NEW f \in File, NEW r \in Times!Round
                     PROVE  /\ r < n => mem'.shots[f][r] = side[f][r] /\ side[f][r] = mem.shots[f][r]
                                        /\ truth[f][r] = hist.truth[f][r]
                            /\ r > n => mem'.shots[f][r] = None /\ side[f][r] = None /\ truth[f][r] = None
                            /\ r = n => \/ side[f][r] = None /\ mem'.shots[f][r] = tree[f] /\ truth[f][r] = tree[f]
                                        \/ /\ side[f][r] # None /\ mem'.shots[f][r] = side[f][r]
                                           /\ side[f][r] = mem.shots[f][r] /\ truth[f][r] = hist.truth[f][r]
          OBVIOUS
        <4>1. CASE r < n
          BY <1>3, <2>5, <3>1, <3>7, <3>8, <4>1 DEF TimesSide
        <4>2. CASE r > n
          BY <1>3, <2>5, <3>1, <3>7, <3>8, <4>2 DEF TimesSide
        <4>3. CASE r = n
          <5>1. ~(r < n) /\ ~(r > n)
            BY <3>3, <4>3
          <5>2. side[f][r] # None => side[f][r] = mem.shots[f][r]
            BY <3>1, <3>7, <4>3 DEF TimesSide
          <5> QED
            BY <1>3, <2>5, <3>1, <4>3, <5>1, <5>2
        <4> QED
          BY <3>8, <4>1, <4>2, <4>3
      <3>10. TimesSide'
        <4>1. \A r \in 2..n : \E f \in File : side[f][r] # None
          BY <3>1, <3>7 DEF TimesSide
        <4> QED
          BY <1>3, <3>1, <3>8, <3>9, <4>1 DEF TimesSide
      <3>11. TimesTrue'
        <4>1. \A f \in File, r \in Times!Round :
                mem'.shots[f][r] # truth[f][r] => <<f, r>> \in hist.unseen
          BY <3>1, <3>8, <3>9 DEF TimesTrue
        <4>2. ASSUME NEW r \in 2..n PROVE \E f \in File : mem'.shots[f][r] # None
          <5>1. PICK f \in File : side[f][r] # None
            BY <3>1, <3>7 DEF TimesSide
          <5>2. r \in Times!Round /\ (r < n \/ r = n)
            BY <3>3, TimesNothing
          <5> QED
            BY <3>9, <5>1, <5>2
        <4>3. ASSUME TimesSure' PROVE mem'.shots = side
          <5>1. TimesSure /\ pc = "rest" /\ \A f \in File : tree[f] = None \/ mem.content[f] # None
            BY <2>4, <2>6, <4>3 DEF TimesSure
          <5>2. mem.shots = side /\ mem.round = n
            BY <3>1, <3>7, <5>1 DEF TimesTrue, TimesKept
          <5>3. \A f \in File : tree[f] # None => side[f][n] # None
            BY <2>4, <2>9, <3>1, <5>1, <5>2 DEF TimesCaught
          <5>4. \A f \in File, r \in Times!Round : mem'.shots[f][r] = side[f][r]
            BY <1>3, <3>1, <5>3
          <5> QED
            BY <1>4, <3>1, <5>4, TimesSame
        <4> QED
          BY <1>3, <2>6, <3>1, <3>9, <4>1, <4>2, <4>3 DEF TimesTrue
      <3> QED
        BY <3>10, <3>11
    <2>10. TimesTold'
      BY <2>6, <2>9 DEF TimesTold
    <2>11. TimesCaught'
      <3>1. ~lost => side # None
        BY <2>4
      <3>2. ASSUME ~lost, NEW f \in File, tree[f] # None PROVE mem'.shots[f][n] # None
        BY <1>3, <3>1, <3>2
      <3> QED
        BY <1>1, <1>3, <2>6, <3>2 DEF TimesCaught
    <2>12. TimesPlaced'
      <3> SUFFICES ASSUME NEW f \in File \ astray PROVE notes[f] \in {None, tree[f]}
        BY <1>1, <1>3, <2>4, <2>6 DEF TimesPlaced, TimesGiven
      <3>1. TimesGiven = notes
        BY <2>4, TimesOnDisk DEF notes, Times!LoadedNotes
      <3>2. TimesGiven[f] \in {None, mem.content[f]}
        BY <2>4 DEF TimesPlaced
      <3> QED
        BY <2>4, <3>1, <3>2
    <2> QED
      BY <1>5, <1>6, <2>7, <2>8, <2>10, <2>11, <2>12
  <1> QED
    BY <1>7, <1>8

(* Every step of Timeline keeps TimesInv.                                  *)
LEMMA TimesHold == TimesInv /\ Times!Next => TimesInv'
  <1> SUFFICES ASSUME TimesInv, Times!Next PROVE TimesInv'
    OBVIOUS
  <1>1. ASSUME NEW f \in File, Times!Edit(f) \/ Times!AddComment(f) \/ Times!DeleteComment(f)
        PROVE  TimesInv'
    BY <1>1, TimesEdits, TimesComments, Zenon
  <1> QED
    BY <1>1, TimesPolls, TimesSignals, TimesReads, TimesCarries, TimesCommits, TimesSavesShots,
      TimesPersists, TimesClears, TimesRemoves, TimesRestarts, Zenon DEF Times!Next

(* TimesInv is strong enough.                                              *)
LEMMA TimesGoOn == TimesInv => Times!TimelineIsTrue /\ Times!RoundsGoOn /\ Times!CommentsStayInPlace
  <1> SUFFICES ASSUME TimesInv PROVE Times!TimelineIsTrue /\ Times!RoundsGoOn /\ Times!CommentsStayInPlace
    OBVIOUS
  <1> USE DEF TimesInv
  <1>1. Times!TimelineIsTrue
    <2> SUFFICES ASSUME ~hist.lost
                 PROVE  /\ \A f \in File, r \in Times!Round :
                             mem.shots[f][r] # hist.truth[f][r] => <<f, r>> \in hist.unseen
                        /\ 2..mem.round \subseteq Times!Rounds(mem.shots)
                        /\ pc = "rest" /\ hist.failed \cap {"side", "new"} = {}
                             => mem.shots = IF side = None THEN Times!NoShots ELSE side
      BY DEF Times!TimelineIsTrue
    <2>1. TimesTrue
      BY DEF TimesTold
    <2>2. mem.shots # None
      BY TimesTyped, TimesNothing DEF TimesTypes
    <2>3. \A r \in 2..mem.round : r \in Times!Round
      BY TimesTyped, TimesNothing DEF TimesTypes
    <2>4. 2..mem.round \subseteq Times!Rounds(mem.shots)
      BY <2>1, <2>2, <2>3 DEF TimesTrue, Times!Rounds
    <2> QED
      BY <2>1, <2>4 DEF TimesTrue, TimesSure
  <1>2. Times!RoundsGoOn
    BY DEF TimesSaved, Times!RoundsGoOn
  <1>3. Times!CommentsStayInPlace
    <2> SUFFICES ASSUME NEW f \in File \ hist.astray
                 PROVE  TimesGiven[f] \in {None, mem.content[f]}
                          \cup (IF f \in hist.edited \cup hist.waiting THEN {mem.prev[f]} ELSE {})
      BY DEF Times!CommentsStayInPlace, TimesGiven
    <2> QED
      BY DEF TimesPlaced
  <1> QED
    BY <1>1, <1>2, <1>3
------------------------------------------------------------------------------
(* Whichever part a behavior is about, its invariant holds.                *)
ToolsInv ==
  /\ tool = "trust" => TrustInv
  /\ tool = "story" => StoryInv
  /\ tool = "folders" => FoldersInv
  /\ tool = "root" => RootInv
  /\ tool = "plans" => PlansInv
  /\ tool = "rounds" => TimesInv

(* Every part starts in its invariant.                                     *)
LEMMA ToolsStart == Init => ToolsInv
  BY TrustStarts, StoryStarts, FoldersStart, RootStarts, PlansStart, TimesStart DEF Init, ToolsInv

(* A step of Tools is one of the part a behavior is about.                 *)
LEMMA ToolsSteps ==
  ASSUME [Next]_vars
  PROVE  /\ tool' = tool
         /\ tool = "trust" => Trust!Next \/ UNCHANGED Trust!vars
         /\ tool = "story" => Tale!Next \/ UNCHANGED Tale!vars
         /\ tool = "folders" => Folders!Next \/ UNCHANGED Folders!vars
         /\ tool = "root" => Root!Next \/ UNCHANGED Root!vars
         /\ tool = "plans" => Plan!Next \/ UNCHANGED Plan!vars
         /\ tool = "rounds" => Times!Next \/ UNCHANGED Times!vars
  <1>1. CASE Next
    BY <1>1 DEF Next
  <1>2. CASE UNCHANGED vars
    BY <1>2 DEF vars, ofFolders, ofTrust, ofPlans, ofRoot, ofRounds, Trust!vars, Tale!vars, Folders!vars,
      Root!vars, Plan!vars, Times!vars
  <1> QED
    BY <1>1, <1>2

(* Every step of every part keeps its invariant.                           *)
LEMMA ToolsHold == ToolsInv /\ [Next]_vars => ToolsInv'
  <1> SUFFICES ASSUME ToolsInv, [Next]_vars PROVE ToolsInv'
    OBVIOUS
  <1>1. tool = "trust" => TrustInv'
    BY ToolsSteps, TrustHolds, TrustStutter DEF ToolsInv
  <1>2. tool = "story" => StoryInv'
    BY ToolsSteps, StoryHolds, StoryStutter DEF ToolsInv
  <1>3. tool = "folders" => FoldersInv'
    BY ToolsSteps, FoldersHold, FoldersStutter DEF ToolsInv
  <1>4. tool = "root" => RootInv'
    BY ToolsSteps, RootHolds, RootStutter DEF ToolsInv
  <1>5. tool = "plans" => PlansInv'
    BY ToolsSteps, PlansHold, PlansStutter DEF ToolsInv
  <1>6. tool = "rounds" => TimesInv'
    BY ToolsSteps, TimesHold, TimesStutter DEF ToolsInv
  <1> QED
    BY <1>1, <1>2, <1>3, <1>4, <1>5, <1>6, ToolsSteps DEF ToolsInv

(* ToolsInv is an invariant of Tools.                                      *)
THEOREM ToolsInvariant == Spec => []ToolsInv
  BY ToolsStart, ToolsHold, PTL DEF Spec

(* No review, plan version, story or text of a round is lost on the way,   *)
(* however the steps of the processes, runs and commands interleave, files *)
(* fail to move, daemons die and restart, and answers are lost.            *)
THEOREM NothingIsLost == Spec => []NoWorkIsLost
  <1>1. ToolsInv => NoWorkIsLost
    <2> SUFFICES ASSUME ToolsInv PROVE NoWorkIsLost
      OBVIOUS
    <2>1. tool = "folders" => Folders!ReviewSurvives
      BY FoldersSurvive DEF ToolsInv
    <2>2. tool = "plans" => Plan!VersionsKept
      BY PlansKept DEF ToolsInv
    <2>3. tool = "story" => Tale!StoryInStep
      BY DEF ToolsInv, StoryInv
    <2>4. tool = "rounds" => Times!TimelineIsTrue /\ Times!RoundsGoOn /\ Times!CommentsStayInPlace
      BY TimesGoOn DEF ToolsInv
    <2> QED
      BY <2>1, <2>2, <2>3, <2>4 DEF NoWorkIsLost
  <1> QED
    BY <1>1, ToolsInvariant, PTL

(* What is used is what it is taken for: prompts and hooks those the user  *)
(* agreed to, an allowed plan one that was approved, a language server's   *)
(* files those of the commit shown.                                        *)
THEOREM TrustStays == Spec => []TrustIsKept
  <1>1. ToolsInv => TrustIsKept
    <2> SUFFICES ASSUME ToolsInv PROVE TrustIsKept
      OBVIOUS
    <2>1. tool = "trust" => Trust!AnswersStay /\ Trust!UsedAsAnswered
      BY TrustSuffices DEF ToolsInv
    <2>2. tool = "plans" => Plan!AllowedWasApproved
      BY PlansKept DEF ToolsInv
    <2>3. tool = "root" => Root!AnswersFromHead /\ Root!WorkspaceIsHead /\ Root!NothingAbandoned
      BY RootKept DEF ToolsInv
    <2> QED
      BY <2>1, <2>2, <2>3 DEF TrustIsKept
  <1> QED
    BY <1>1, ToolsInvariant, PTL

(* No step takes what is another's: a review a daemon serves, the answers  *)
(* for other projects, a pin of another agent, a folder that is not a      *)
(* worktree of crit's.                                                     *)
THEOREM NothingIsTaken == Spec => StepsTakeNothing
  <1>1. ToolsInv /\ [Next]_vars =>
          [/\ tool = "folders" => Folders!CleanupSparesTheLive
           /\ tool = "trust" => Trust!OthersKeysStay
           /\ tool = "plans" => Plan!PinsStay
           /\ tool = "root" => Root!ForeignStays]_vars
    <2> SUFFICES ASSUME ToolsInv, [Next]_vars
                 PROVE  /\ tool = "folders" => Folders!CleanupSparesTheLive
                        /\ tool = "trust" => Trust!OthersKeysStay
                        /\ tool = "plans" => Plan!PinsStay
                        /\ tool = "root" => Root!ForeignStays
      OBVIOUS
    <2>1. tool = "folders" => Folders!CleanupSparesTheLive
      BY ToolsSteps, FoldersSpareTheLive DEF ToolsInv
    <2>2. tool = "trust" => Trust!OthersKeysStay
      BY ToolsSteps, TrustTakesNothing DEF ToolsInv
    <2>3. tool = "plans" => Plan!PinsStay
      BY ToolsSteps, PlansPinsStay DEF ToolsInv
    <2>4. tool = "root" => Root!ForeignStays
      BY ToolsSteps, RootSparesForeign DEF ToolsInv
    <2> QED
      BY <2>1, <2>2, <2>3, <2>4
  <1> QED
    BY <1>1, ToolsInvariant, PTL DEF Spec, StepsTakeNothing
==============================================================================
