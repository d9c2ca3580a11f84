---------------------------- MODULE ProjectTrust ----------------------------
(* Prompts and hooks that a project brings along are used only as far as   *)
(* the user trusts them (prompt/trust.go, render.go, discover.go,          *)
(* hooks/resolve.go, server/prompts.go).  A daemon per project asks the    *)
(* user and writes the answer into the one file of the user's settings,    *)
(* which every daemon and the user's own commands write under its lock.    *)
EXTENDS Integers, Sequences, SequencesExt

CONSTANTS
  Project,    \* projects, each with its daemon
  MaxActs     \* bound on edits, answers, finishes, failures and settings changed

VARIABLES
  content,    \* content[p]: what p brings along, a Content
  settings,   \* the user's file: trusted entries and all other keys
  job,        \* job[p]: what p's daemon is doing
  asked,      \* asked[p]: the last answer saved for p and the content then
  used,       \* used[p]: how far p's finish is, what it judged and took
  acts
vars == <<content, settings, job, asked, used, acts>>
-----------------------------------------------------------------------------
(* Which of several prompts or hooks is taken.  A layer has entries in its *)
(* file, by key, and scripts found by name.  An entry is blank, inline, a  *)
(* file that is there or lost, or of no known form.                        *)

Keys(hook, mode) == IF mode = "" THEN <<<<hook>>>> ELSE <<<<hook, mode>>, <<hook>>>>

(* The first key with something to say, or none.                           *)
LookupPrompt(entries, keys) ==
  SelectSeq(keys, LAMBDA k : k \in DOMAIN entries /\ entries[k] # "blank")
DiscoverFile(found, keys) == SelectSeq(keys, LAMBDA k : k \in found)

Loads(value) == value \in {"inline", "file"}
Taken(layer, how, key) == <<[layer |-> layer, how |-> how, key |-> key]>>

Discovered(global, project, keys, useProject) ==
  LET ours == IF useProject THEN DiscoverFile(project.found, keys) ELSE <<>>
      mine == DiscoverFile(global.found, keys)
  IN IF ours # <<>> THEN Taken("project", "found", Head(ours))
     ELSE IF mine # <<>> THEN Taken("global", "found", Head(mine)) ELSE <<>>

(* A prompt of the project that does not load gives way to the user's; the *)
(* user's own that does not load gives way to none but the stock prompt.   *)
ResolveFinishTemplate(global, project, keys, useProject) ==
  LET ours == IF useProject THEN LookupPrompt(project.entries, keys) ELSE <<>>
      mine == LookupPrompt(global.entries, keys)
  IN IF ours # <<>> /\ Loads(project.entries[Head(ours)])
       THEN Taken("project", "entry", Head(ours))
     ELSE IF mine # <<>>
       THEN IF Loads(global.entries[Head(mine)])
            THEN Taken("global", "entry", Head(mine)) ELSE <<>>
     ELSE Discovered(global, project, keys, useProject)

(* A hook that is named but does not load stops the search.                *)
ResolveFinishCommand(global, project, keys, useProject) ==
  LET ours == IF useProject THEN LookupPrompt(project.entries, keys) ELSE <<>>
      mine == LookupPrompt(global.entries, keys)
  IN IF ours # <<>>
       THEN IF Loads(project.entries[Head(ours)])
            THEN Taken("project", "entry", Head(ours)) ELSE <<>>
     ELSE IF mine # <<>>
       THEN IF Loads(global.entries[Head(mine)])
            THEN Taken("global", "entry", Head(mine)) ELSE <<>>
     ELSE Discovered(global, project, keys, useProject)

(* The prompt of a finish.  In a story the layers are asked for the story  *)
(* first and the stock prompt for it comes before any that is general.     *)
ResolveTemplateText(global, project, stock, keys, story, useProject) ==
  LET Try(ks) == LET own == ResolveFinishTemplate(global, project, ks, useProject)
                     st  == DiscoverFile(stock, ks)
                 IN IF own # <<>> THEN own
                    ELSE IF st # <<>> THEN Taken("stock", "found", Head(st)) ELSE <<>>
  IN IF story /\ Try(<<Head(keys)>>) # <<>> THEN Try(<<Head(keys)>>)
     ELSE IF story THEN Try(Tail(keys)) ELSE Try(keys)
-----------------------------------------------------------------------------
(* The trust store.  Content 0 is a project that brings nothing along; a   *)
(* content stands for its hash, which covers entries and files.            *)
Content == 0..2
Modes == {"until_change", "always", "defaults"}
NoEntry == [mode |-> "none", hash |-> 0]
Entry(mode, c) == [mode |-> mode, hash |-> IF mode = "until_change" THEN c ELSE 0]
(* A finish judges the project thrice, each time from its files: before it *)
(* begins, for its prompt and for its hooks.  At last it has used what it  *)
(* took, 0 if that is nothing; edited, if p was since it was hashed.       *)
NotUsed == [stage |-> "hooks", at |-> "used", hash |-> 0, edited |-> FALSE, project |-> FALSE,
            said |-> NoEntry, took |-> 0]

Init ==
  /\ content \in [Project -> Content]
  /\ settings = [trusted |-> [p \in Project |-> NoEntry], other |-> 0]
  /\ job = [p \in Project |-> [at |-> "idle"]]
  /\ asked = [p \in Project |-> NoEntry]
  /\ used = [p \in Project |-> NotUsed]
  /\ acts = 0

Act == acts < MaxActs /\ acts' = acts + 1

EditProject(p) ==
  /\ Act
  /\ \E c \in Content \ {content[p]} : content' = [content EXCEPT ![p] = c]
  /\ used' = [used EXCEPT ![p].edited = @ \/ used[p].at \in {"hashed", "judged"}]
  /\ UNCHANGED <<settings, job, asked>>

(* Another command changes another key, under the same lock.               *)
SaveOther ==
  /\ Act
  /\ \A p \in Project : job[p].at # "writing"
  /\ settings' = [settings EXCEPT !.other = @ + 1]
  /\ UNCHANGED <<content, job, asked, used>>

(* handleProjectPromptTrust hashes what is there now, then takes the lock. *)
Choose(p, mode) ==
  /\ Act
  /\ job[p].at = "idle"
  /\ job' = [job EXCEPT ![p] = [at |-> "locking", entry |-> Entry(mode, content[p]), read |-> settings]]
  /\ UNCHANGED <<content, settings, asked, used>>

(* Mutant: what is written back was read before the lock was taken.        *)
ReadBeforeLock(p) ==
  /\ job[p].at = "locking"
  /\ \A q \in Project : job[q].at # "writing"
  /\ job' = [job EXCEPT ![p].at = "writing"]
  /\ UNCHANGED <<content, settings, asked, used, acts>>

LockGlobalConfig(p) ==
  /\ job[p].at = "locking"
  /\ \A q \in Project : job[q].at # "writing"
  /\ job' = [job EXCEPT ![p].at = "writing", ![p].read = settings]
  /\ UNCHANGED <<content, settings, asked, used, acts>>

(* Five seconds without the lock, or a failure to write: nothing is saved. *)
SaveFails(p) ==
  /\ job[p].at \in {"locking", "writing"}
  /\ job' = [job EXCEPT ![p] = [at |-> "idle"]]
  /\ UNCHANGED <<content, settings, asked, used, acts>>

SaveTrustChoice(p) ==
  /\ job[p].at = "writing"
  /\ settings' = [job[p].read EXCEPT !.trusted[p] = job[p].entry]
  /\ asked' = [asked EXCEPT ![p] = job[p].entry]
  /\ job' = [job EXCEPT ![p] = [at |-> "idle"]]
  /\ UNCHANGED <<content, used, acts>>

Trusts(entry, c) ==
  /\ c # 0
  /\ entry.mode = "always" \/ (entry.mode = "until_change" /\ entry.hash = c)
Untrusted(entry, c) == c # 0 /\ entry.mode # "defaults" /\ ~Trusts(entry, c)

(* A finish, one at a time in a project.                                   *)
Finish(p) ==
  /\ Act
  /\ used[p].at = "used" /\ used[p].stage = "hooks"
  /\ used' = [used EXCEPT ![p] = [NotUsed EXCEPT !.stage = "gate", !.at = "ready"]]
  /\ UNCHANGED <<content, settings, job, asked>>

(* EvaluateTrust: what the project brings is hashed,                       *)
ContentHash(p) ==
  /\ used[p].at = "ready" \/ (used[p].at = "used" /\ used[p].stage = "prompt")
  /\ used' = [used EXCEPT ![p].stage = IF used[p].at = "used" THEN "hooks" ELSE @,
                          ![p].at = "hashed", ![p].hash = content[p], ![p].edited = FALSE]
  /\ UNCHANGED <<content, settings, job, asked, acts>>

(* and judged by the settings.  One that was not asked about ends a finish *)
(* before it begins, and is left out of it later.                          *)
EvaluateTrust(p) ==
  /\ used[p].at = "hashed"
  /\ LET entry == settings.trusted[p]
         hash  == used[p].hash
     IN used' = [used EXCEPT ![p] =
          IF @.stage # "gate"
          THEN [@ EXCEPT !.at = "judged", !.project = Trusts(entry, hash), !.said = asked[p]]
          ELSE IF Untrusted(entry, hash) THEN NotUsed
          ELSE [@ EXCEPT !.stage = "prompt", !.at = "ready"]]
  /\ UNCHANGED <<content, settings, job, asked, acts>>

(* The settings cannot be read: the finish goes on, without the project's  *)
(* prompt, and with no hook at all.                                        *)
EvaluateFails(p) ==
  /\ Act
  /\ used[p].at = "hashed" /\ used[p].hash # 0
  /\ used' = [used EXCEPT ![p] =
       CASE @.stage = "gate"   -> [@ EXCEPT !.stage = "prompt", !.at = "ready"]
         [] @.stage = "prompt" -> [@ EXCEPT !.at = "judged", !.project = FALSE, !.said = NoEntry]
         [] @.stage = "hooks"  -> NotUsed]
  /\ UNCHANGED <<content, settings, job, asked>>

(* RenderFinish, ResolveFinishCommand and Run: what was written in its     *)
(* settings is as it was read, but files and scripts are read again.       *)
Use(p) ==
  /\ used[p].at = "judged"
  /\ \E c \in IF used[p].project THEN {used[p].hash, content[p]} ELSE {0} :
       used' = [used EXCEPT ![p].at = "used", ![p].took = c]
  /\ UNCHANGED <<content, settings, job, asked, acts>>

Next ==
  \/ SaveOther
  \/ \E p \in Project :
       \/ EditProject(p) \/ LockGlobalConfig(p) \/ SaveFails(p) \/ SaveTrustChoice(p)
       \/ Finish(p) \/ ContentHash(p) \/ EvaluateTrust(p) \/ EvaluateFails(p) \/ Use(p)
       \/ \E mode \in Modes : Choose(p, mode)
Spec == Init /\ [][Next]_vars
-----------------------------------------------------------------------------
(* Whatever is saved concurrently for other projects and by other          *)
(* commands, the file has each user's last answer: no save undoes another. *)
AnswersStay == \A p \in Project : settings.trusted[p] = asked[p]

(* A finish used what the project brought along only if the user's last    *)
(* answer was to trust it always, or to trust just this; and it did use    *)
(* what was trusted.  But what is edited after it was hashed and before it *)
(* is used may be used although nobody was asked.  An answer that could    *)
(* not be saved, or one for another project, changes nothing.              *)
UsedAsAnswered ==
  \A p \in Project :
    LET u == used[p] IN
    u.at = "used" /\ ~u.edited =>
      /\ u.took # 0 => Trusts(u.said, u.took)
      /\ Trusts(u.said, u.hash) => u.took = u.hash

(* Other commands' keys are never set back.                                *)
OthersKeysStay == settings'.other >= settings.other

(* What a finish takes, from the most to the least specific source: the    *)
(* settings before found scripts, the project before the user, the mode    *)
(* before the general; a project not trusted contributes nothing.  What is *)
(* named but does not load is not made up for by a lesser source, but for  *)
(* the prompt of a project, without which it goes on as if the project's   *)
(* settings named none.                                                    *)
TakenInOrder(global, project, keys, useProject) ==
  LET cmd  == ResolveFinishCommand(global, project, keys, useProject)
      text == ResolveFinishTemplate(global, project, keys, useProject)
      Entries(layer, name) ==
        LET ks == LookupPrompt(layer.entries, keys) IN
        [i \in DOMAIN ks |-> [layer |-> name, how |-> "entry", key |-> ks[i]]]
      Found(layer, name) ==
        LET ks == DiscoverFile(layer.found, keys) IN
        [i \in DOMAIN ks |-> [layer |-> name, how |-> "found", key |-> ks[i]]]
      wanted == (IF useProject THEN Entries(project, "project") ELSE <<>>)
                \o Entries(global, "global")
                \o (IF useProject THEN Found(project, "project") ELSE <<>>)
                \o Found(global, "global")
      Value(t) == IF t.how = "found" THEN "file"
                  ELSE IF t.layer = "project" THEN project.entries[t.key]
                  ELSE global.entries[t.key]
      Choice(ts) == IF ts # <<>> /\ Loads(Value(Head(ts))) THEN <<Head(ts)>> ELSE <<>>
      ProjectEntry(t) == t.layer = "project" /\ t.how = "entry"
      lost == wanted # <<>> /\ ProjectEntry(Head(wanted)) /\ ~Loads(Value(Head(wanted)))
  IN /\ cmd = Choice(wanted)
     /\ text = Choice(IF lost THEN SelectSeq(wanted, LAMBDA t : ~ProjectEntry(t)) ELSE wanted)

(* A finish says what its own mode's template says where anybody, the      *)
(* stock included, has one for a story; elsewhere stock is the last resort.*)
StoryHasItsPrompt(global, project, stock, keys, useProject) ==
  LET Text(story) == ResolveTemplateText(global, project, stock, keys, story, useProject)
      own == ResolveFinishTemplate(global, project, keys, useProject)
  IN /\ Head(keys) \in stock => Text(TRUE) # <<>> /\ Text(TRUE)[1].key = Head(keys)
     /\ own # <<>> => Text(FALSE) = own
     /\ own = <<>> /\ Text(FALSE) # <<>> => Text(FALSE)[1].layer = "stock"
=============================================================================
