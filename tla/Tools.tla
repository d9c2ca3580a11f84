------------------------------- MODULE Tools -------------------------------
(* The parts of crit that run beside a review: where a review is kept and  *)
(* cleaned up, what a project may bring along, plans, stories, where       *)
(* language servers look, and the texts of past rounds.  They share no     *)
(* state, and tool says which one a behavior is about; the variables of    *)
(* the others are None.                                                    *)
EXTENDS Integers

CONSTANTS
  Process,                             \* ReviewFolders
  Project,                             \* ProjectTrust
  Job, Agent, Slug, Wording,           \* Plans
  Command, Trees, Ignored, SafeId, Answers,  \* Story
  Request, Commit,                     \* LspWorkspace
  File, MaxVersion, MaxRound,          \* Timeline
  None,
  Acts                                 \* tool -> bound on its acts

VARIABLES
  tool,
  disk, pc, job, daemon, tree, hist, acts,   \* of several parts
  sidecar, session, cleanup, made, overlap,  \* ReviewFolders
  content, settings, asked, used,            \* ProjectTrust
  dir, pins, torn,                           \* Plans
  unheard,                                   \* Story
  focus, lsp, req,                           \* LspWorkspace
  code, mem, side                            \* Timeline

ofFolders == <<sidecar, session, cleanup, made, overlap>>
ofTrust == <<content, settings, asked, used>>
ofPlans == <<dir, pins, torn>>
ofRoot == <<focus, lsp, req>>
ofRounds == <<code, mem, side>>
vars == <<tool, disk, pc, job, daemon, tree, hist, acts, ofFolders, ofTrust, ofPlans, unheard,
          ofRoot, ofRounds>>

Folders == INSTANCE ReviewFolders WITH MaxActs <- Acts["folders"]
Trust   == INSTANCE ProjectTrust WITH MaxActs <- Acts["trust"]
Plan    == INSTANCE Plans WITH MaxActs <- Acts["plans"]
Tale    == INSTANCE Story WITH MaxActs <- Acts["story"]
Root    == INSTANCE LspWorkspace WITH MaxActs <- Acts["root"]
Times   == INSTANCE Timeline WITH MaxActs <- Acts["rounds"]
-----------------------------------------------------------------------------
ASSUME ToolsAssumption ==
  /\ "first" \notin Process
  /\ None \notin [kind : {"file", "dir"}, review : SUBSET (Process \cup {"first"}), snaps : BOOLEAN,
                 old : BOOLEAN]
  /\ None \notin Commit \cup Request
  /\ None \notin Slug /\ None \notin [heading : Slug, text : Wording]
  /\ None \notin [sha : Commit \cup {None}, patterns : {{}, {"go"}, {"go", "py"}}, whole : BOOLEAN]
  /\ MaxVersion \in Nat /\ MaxRound \in Nat \ {0} /\ None \notin -1..MaxVersion
  /\ None \notin [round : 1..MaxRound, notes : [File -> -1..MaxVersion \cup {None}]]
  /\ None \notin [File -> [1..MaxRound -> 0..MaxVersion \cup {None}]]

NoFolders == sidecar = None /\ session = None /\ cleanup = None /\ made = None /\ overlap = None
NoTrust == content = None /\ settings = None /\ asked = None /\ used = None
NoPlans == dir = None /\ pins = None /\ torn = None
NoRoot == focus = None /\ lsp = None /\ req = None
NoRounds == code = None /\ mem = None /\ side = None

Init ==
  \/ /\ tool = "folders" /\ Folders!Init
     /\ job = None /\ daemon = None /\ tree = None /\ hist = None /\ unheard = None
     /\ NoTrust /\ NoPlans /\ NoRoot /\ NoRounds
  \/ /\ tool = "trust" /\ Trust!Init
     /\ disk = None /\ pc = None /\ daemon = None /\ tree = None /\ hist = None /\ unheard = None
     /\ NoFolders /\ NoPlans /\ NoRoot /\ NoRounds
  \/ /\ tool = "plans" /\ Plan!Init
     /\ disk = None /\ pc = None /\ tree = None /\ hist = None /\ unheard = None
     /\ NoFolders /\ NoTrust /\ NoRoot /\ NoRounds
  \/ /\ tool = "story" /\ Tale!Init
     /\ pc = None /\ hist = None
     /\ NoFolders /\ NoTrust /\ NoPlans /\ NoRoot /\ NoRounds
  \/ /\ tool = "root" /\ Root!Init
     /\ pc = None /\ job = None /\ tree = None /\ unheard = None
     /\ NoFolders /\ NoTrust /\ NoPlans /\ NoRounds
  \/ /\ tool = "rounds" /\ Times!Init
     /\ job = None /\ daemon = None /\ unheard = None
     /\ NoFolders /\ NoTrust /\ NoPlans /\ NoRoot

Next ==
  \/ /\ tool = "folders" /\ Folders!Next
     /\ UNCHANGED <<tool, job, daemon, tree, hist, unheard, ofTrust, ofPlans, ofRoot, ofRounds>>
  \/ /\ tool = "trust" /\ Trust!Next
     /\ UNCHANGED <<tool, disk, pc, daemon, tree, hist, unheard, ofFolders, ofPlans, ofRoot, ofRounds>>
  \/ /\ tool = "plans" /\ Plan!Next
     /\ UNCHANGED <<tool, disk, pc, tree, hist, unheard, ofFolders, ofTrust, ofRoot, ofRounds>>
  \/ /\ tool = "story" /\ Tale!Next
     /\ UNCHANGED <<tool, pc, hist, ofFolders, ofTrust, ofPlans, ofRoot, ofRounds>>
  \/ /\ tool = "root" /\ Root!Next
     /\ UNCHANGED <<tool, pc, job, tree, unheard, ofFolders, ofTrust, ofPlans, ofRounds>>
  \/ /\ tool = "rounds" /\ Times!Next
     /\ UNCHANGED <<tool, job, daemon, unheard, ofFolders, ofTrust, ofPlans, ofRoot>>
Spec == Init /\ [][Next]_vars
-----------------------------------------------------------------------------
(* No review, plan version, story or text of a round is lost on the way:   *)
(* Folders!ReviewSurvives, Plan!VersionsKept, Tale!StoryInStep,            *)
(* Times!TimelineIsTrue, Times!RoundsGoOn and Times!CommentsStayInPlace.   *)
NoWorkIsLost ==
  /\ tool = "folders" => Folders!ReviewSurvives
  /\ tool = "plans" => Plan!VersionsKept
  /\ tool = "story" => Tale!StoryInStep
  /\ tool = "rounds" => Times!TimelineIsTrue /\ Times!RoundsGoOn /\ Times!CommentsStayInPlace

(* What is used is what it is taken for: a project's prompts and hooks are *)
(* those the user agreed to (Trust!AnswersStay, Trust!UsedAsAnswered), an  *)
(* allowed plan the one approved (Plan!AllowedWasApproved), and the files  *)
(* that language servers read those of the commit shown                    *)
(* (Root!WorkspaceIsHead, Root!AnswersFromHead, Root!NothingAbandoned).    *)
TrustIsKept ==
  /\ tool = "trust" => Trust!AnswersStay /\ Trust!UsedAsAnswered
  /\ tool = "plans" => Plan!AllowedWasApproved
  /\ tool = "root" => Root!AnswersFromHead /\ Root!WorkspaceIsHead /\ Root!NothingAbandoned

(* No step takes what is another's: Folders!CleanupSparesTheLive,          *)
(* Trust!OthersKeysStay, Plan!PinsStay and Root!ForeignStays.              *)
StepsTakeNothing ==
  [][/\ tool = "folders" => Folders!CleanupSparesTheLive
     /\ tool = "trust" => Trust!OthersKeysStay
     /\ tool = "plans" => Plan!PinsStay
     /\ tool = "root" => Root!ForeignStays]_vars
=============================================================================
