------------------------------ MODULE FocusSync ------------------------------
(***************************************************************************)
(* Which text the lines of a comment refer to.  The session keeps a copy   *)
(* of a file and the comments on it.  Three things replace the copy while  *)
(* the reviewer adds comments: a sync with the working tree, a completed   *)
(* round, and a switch of the focus between the working tree and a fixed   *)
(* range of commits.  Texts are versions; a comment's lines refer to one.  *)
(***************************************************************************)
EXTENDS Naturals

CONSTANTS
  Comment,
  MaxVersion,  \* bound: versions of the working tree
  MaxActs      \* bound: comments, rounds, switches and failures

ASSUME FocusAssumption == MaxVersion \in Nat \ {0} /\ MaxActs \in Nat

VARIABLES
  tree,     \* version of the file in the working tree
  focus,    \* "W": working tree, "R": range
  file,     \* the session's copy: content, comments, those of the last round
  spare,    \* the copy that the last switch replaced
  disk,     \* review.json: lines of each comment
  scope,    \* the focus review.json names
  view,     \* focus each comment was made in
  shown,    \* version the browser shows
  armed,    \* the save timer runs
  mu,       \* who holds writeMu: "free", "switch" or "sync"
  pending,  \* a round is being completed
  seq,      \* number of round signals
  queued,   \* the watcher has a signal to take
  hand,     \* the watcher's round handler
  sync,     \* a sync with the working tree
  switch,   \* a change of focus
  astray,   \* comments whose lines are known to be off
  hurried,  \* comments made where a save does not see them
  torn,     \* a round has put back the files of the other focus
  double,   \* the watcher has served two signals at once, and has one more to take
  acts

session == <<file, spare, focus, view>>
round == <<pending, seq, queued, hand>>
store == <<disk, scope, armed>>
ghosts == <<astray, hurried, torn, double>>
vars == <<tree, session, store, shown, mu, round, sync, switch, ghosts, acts>>

Head == MaxVersion + 1   \* the text at the end of the range
Version == 1..Head
None == [c \in Comment |-> 0]
Lines == [Comment -> 0..Head]
In(lines) == {c \in Comment : lines[c] # 0}
Fresh(v) == [content |-> v, com |-> None, prev |-> None, base |-> 0]
Files == [content : Version, com : Lines, prev : Lines, base : 0..Head]
Act == acts < MaxActs /\ acts' = acts + 1

HandOff == [at |-> "off", seq |-> 0, of |-> "file"]
SyncOff == [at |-> "off", from |-> 1, to |-> 1, of |-> "file"]
SwitchOff == [at |-> "off", to |-> "W", content |-> 1]

Init ==
  /\ tree = 1 /\ focus = "W" /\ file = Fresh(1) /\ spare = Fresh(1)
  /\ disk = None /\ scope = "W" /\ view = [c \in Comment |-> "none"]
  /\ shown = 1 /\ armed = FALSE /\ mu = "free"
  /\ pending = FALSE /\ seq = 0 /\ queued = FALSE /\ hand = HandOff
  /\ sync = SyncOff /\ switch = SwitchOff
  /\ astray = {} /\ hurried = {} /\ torn = FALSE /\ double = FALSE /\ acts = 0
-----------------------------------------------------------------------------
(* A save writes memory over the file and keeps what only the file has.    *)
Saved == [c \in Comment |-> IF file.com[c] # 0 THEN file.com[c] ELSE disk[c]]

(* Lines are carried from one text to another; those of a comment of the   *)
(* other focus end up somewhere, and without a text to carry from they     *)
(* stay as they are.                                                       *)
Carried(lines, from, to) ==
  [c \in Comment |-> IF c \in In(lines) /\ lines[c] = from THEN to ELSE lines[c]]
Behind == {c \in In(file.com) : disk[c] # file.com[c]}
Added == In(file.com) \ In(file.prev)
Misled(lines) == {c \in In(lines) : view[c] # focus}

AgentEdits ==
  /\ tree < MaxVersion /\ tree' = tree + 1
  /\ UNCHANGED <<session, store, shown, mu, round, sync, switch, ghosts, acts>>

(* The browser takes what the session has.                                 *)
Show ==
  /\ shown # file.content /\ shown' = file.content
  /\ UNCHANGED <<tree, session, store, mu, round, sync, switch, ghosts, acts>>

(* AddComment takes the lines the browser showed.                          *)
AddComment(c) ==
  /\ Act /\ view[c] = "none"
  /\ file' = [file EXCEPT !.com[c] = shown]
  /\ view' = [view EXCEPT ![c] = focus]
  /\ armed' = TRUE
  /\ astray' = IF shown = file.content THEN astray ELSE astray \cup {c}
  /\ hurried' = IF switch.at = "off" THEN hurried ELSE hurried \cup {c}
  /\ UNCHANGED <<tree, focus, spare, disk, scope, shown, mu, round, sync, switch, torn, double>>

TimerFires ==
  /\ armed /\ mu = "free"
  /\ armed' = FALSE /\ disk' = Saved
  /\ UNCHANGED <<tree, session, scope, shown, mu, round, sync, switch, ghosts, acts>>
-----------------------------------------------------------------------------
(* SyncWorkingTree, run when the browser asks for live content.            *)

SyncStarts ==
  /\ sync.at = "off" /\ focus = "W" /\ ~pending /\ file.content # tree
  /\ sync' = [at |-> "read", from |-> file.content, to |-> file.content, of |-> "file"]
  /\ UNCHANGED <<tree, session, store, shown, mu, round, switch, ghosts, acts>>

SyncReads ==
  /\ sync.at = "read"
  /\ sync' = IF tree = sync.from THEN SyncOff ELSE [sync EXCEPT !.at = "apply", !.to = tree]
  /\ UNCHANGED <<tree, session, store, shown, mu, round, switch, ghosts, acts>>

(* applySyncUpdates: not while a round is pending, and only if the text is *)
(* still the one that was read.                                            *)
Applies == ~pending /\ sync.of = "file" /\ file.content = sync.from
SyncApplies ==
  /\ sync.at = "apply" /\ mu = "free"
  /\ IF Applies
     THEN /\ file' = [file EXCEPT !.content = sync.to,
                                  !.com = Carried(@, sync.from, sync.to)]
          /\ astray' = astray \cup Misled(file.com)
          /\ IF In(file.com) # {} THEN mu' = "sync" /\ sync' = [sync EXCEPT !.at = "save"]
             ELSE mu' = mu /\ sync' = SyncOff
     ELSE /\ sync' = SyncOff /\ UNCHANGED <<file, astray, mu>>
  /\ UNCHANGED <<tree, focus, spare, view, store, shown, round, switch, hurried, torn, double, acts>>

(* Moved lines are saved at once, under writeMu.                           *)
SyncSaves ==
  /\ sync.at = "save"
  /\ disk' = Saved /\ armed' = FALSE /\ mu' = "free" /\ sync' = SyncOff
  /\ UNCHANGED <<tree, session, scope, shown, round, switch, ghosts, acts>>
(* A failed save leaves the old lines in the file.                         *)
SyncSaveFails ==
  /\ Act /\ sync.at = "save"
  /\ armed' = FALSE /\ mu' = "free" /\ sync' = SyncOff
  /\ astray' = astray \cup Behind /\ hurried' = hurried \cup {c \in Behind : disk[c] = 0}
  /\ UNCHANGED <<tree, session, disk, scope, shown, round, switch, torn, double>>
-----------------------------------------------------------------------------
(* SignalRoundComplete: the agent has finished.  An armed save is dropped  *)
(* with what it would have written.                                        *)

(* Mutant: a signal sent while the watcher is busy is dropped.             *)
QueueIfIdle == queued \/ hand.at = "off"
Queue == TRUE
Signal ==
  /\ Act /\ mu = "free"
  /\ armed' = FALSE /\ pending' = TRUE /\ seq' = seq + 1 /\ queued' = Queue
  /\ file' = [file EXCEPT !.com = None]
  /\ hurried' = hurried \cup {c \in In(file.com) : disk[c] = 0}
  /\ astray' = astray \cup Behind
       \cup IF hand.at \in {"list", "files", "reread", "carry"} THEN Added ELSE {}
  /\ UNCHANGED <<tree, spare, focus, view, disk, scope, shown, mu, hand, sync, switch, torn, double>>

(* handleRoundCompleteGit, in the watcher.                                 *)
Hand(from, to) == hand.at = from /\ hand' = [hand EXCEPT !.at = to]

Receive ==
  /\ queued /\ Hand("off", "start") /\ queued' = FALSE
  /\ UNCHANGED <<tree, session, store, shown, mu, pending, seq, sync, switch, ghosts, acts>>
HandleStarts ==
  /\ hand.at = "start" /\ hand' = [at |-> "load", seq |-> seq, of |-> "file"]
  /\ double' = (double \/ queued)
  /\ UNCHANGED <<tree, session, store, shown, mu, pending, seq, queued, sync, switch, astray, hurried, torn, acts>>
LoadComments ==
  /\ Hand("load", "list") /\ file' = [file EXCEPT !.prev = disk]
  /\ UNCHANGED <<tree, focus, spare, view, store, shown, mu, pending, seq, queued, sync, switch, ghosts, acts>>

(* RefreshFileList looks at the focus, asks the VCS without a lock, and    *)
(* puts the files it looked at in place: the session's, or those a switch  *)
(* has replaced (of two switches, the last).                               *)
ListFiles ==
  /\ hand.at = "list"
  /\ hand' = [hand EXCEPT !.at = IF focus = "R" THEN "reread" ELSE "files"]
  /\ UNCHANGED <<tree, session, store, shown, mu, pending, seq, queued, sync, switch, ghosts, acts>>
AssignFiles ==
  /\ hand.at = "files" /\ hand' = [hand EXCEPT !.at = "reread", !.of = "file"]
  /\ IF hand.of = "file" THEN UNCHANGED <<file, torn, astray, hurried>>
     ELSE /\ file' = spare /\ torn' = TRUE /\ astray' = Comment
          /\ hurried' = hurried \cup {c \in In(file.com) : disk[c] = 0}
  /\ UNCHANGED <<tree, focus, spare, view, store, shown, mu, pending, seq, queued, sync, switch, double, acts>>

(* The text that the comments of the last round refer to is taken anew in  *)
(* every round.                                                            *)
Base == IF In(file.prev) # {} THEN file.content ELSE file.base
(* rereadFileContents leaves a pull request's files alone.                 *)
Reread == IF focus = "R" THEN file.content ELSE tree
RereadFile ==
  /\ Hand("reread", "carry")
  /\ file' = [file EXCEPT !.base = Base, !.content = Reread]
  /\ UNCHANGED <<tree, focus, spare, view, store, shown, mu, pending, seq, queued, sync, switch, ghosts, acts>>

(* carryForwardComments: the file's comments are moved; what was added     *)
(* since the signal stays where it is.                                     *)
CarryForward ==
  /\ Hand("carry", "persist")
  /\ IF In(file.prev) = {} THEN UNCHANGED file
     ELSE file' = [file EXCEPT !.com = [c \in Comment |->
            IF c \in Added THEN @[c] ELSE Carried(file.prev, file.base, file.content)[c]]]
  /\ astray' = astray \cup Misled(file.prev)
                      \cup {c \in Added : file.com[c] # file.content}
  /\ UNCHANGED <<tree, focus, spare, view, store, shown, mu, pending, seq, queued, sync, switch,
                 hurried, torn, double, acts>>
Persist ==
  /\ Hand("persist", "finish") /\ mu = "free"
  /\ disk' = Saved /\ armed' = FALSE
  /\ UNCHANGED <<tree, session, scope, shown, mu, pending, seq, queued, sync, switch, ghosts, acts>>
PersistFails ==
  /\ Act /\ Hand("persist", "finish") /\ mu = "free"
  /\ armed' = FALSE
  /\ astray' = astray \cup Behind /\ hurried' = hurried \cup {c \in Behind : disk[c] = 0}
  /\ UNCHANGED <<tree, session, disk, scope, shown, mu, pending, seq, queued, sync, switch, torn, double>>

(* finishRoundPending: unless a newer signal has come.  The mutant does    *)
(* not look for one.                                                       *)
StillPendingNever == FALSE
StillPending == seq # hand.seq
FinishRound ==
  /\ hand.at = "finish" /\ hand' = HandOff
  /\ pending' = (pending /\ StillPending)
  /\ UNCHANGED <<tree, session, store, shown, mu, seq, queued, sync, switch, ghosts, acts>>
-----------------------------------------------------------------------------
(* SetFocus, under writeMu to the end.                                     *)

To(at) == switch' = [switch EXCEPT !.at = at]

SwitchStarts(f) ==
  /\ Act /\ mu = "free" /\ switch.at = "off"
  /\ mu' = "switch" /\ armed' = FALSE
  /\ switch' = [at |-> "flush", to |-> f, content |-> file.content]
  /\ UNCHANGED <<tree, session, disk, scope, shown, round, sync, ghosts>>

Flushed == Saved
Flush ==
  /\ switch.at = "flush" /\ To("build") /\ disk' = Flushed
  /\ UNCHANGED <<tree, session, scope, armed, shown, mu, round, sync, ghosts, acts>>
(* Mutant: the timer is not set again.                                     *)
LeaveTimer == armed
ArmTimer == TRUE
FlushFails ==
  /\ Act /\ switch.at = "flush"
  /\ switch' = SwitchOff /\ mu' = "free" /\ armed' = ArmTimer
  /\ UNCHANGED <<tree, session, disk, scope, shown, round, sync, ghosts>>

(* buildFilesForFocus reads the range, or the working tree as it is now.   *)
Build ==
  /\ switch.at = "build"
  /\ switch' = [switch EXCEPT !.at = "swap", !.content = IF switch.to = "R" THEN Head ELSE tree]
  /\ UNCHANGED <<tree, session, store, shown, mu, round, sync, ghosts, acts>>
BuildFails ==
  /\ Act /\ switch.at = "build" /\ switch' = SwitchOff /\ mu' = "free"
  /\ UNCHANGED <<tree, session, store, shown, round, sync, ghosts>>

(* From here on the round handler and a sync hold files that are replaced, *)
(* and those of before the last switch are nowhere; a failed switch puts   *)
(* the old ones back.                                                      *)
Replaced == [file |-> "spare", spare |-> "gone", gone |-> "gone"]
PutBack == [file |-> "spare", spare |-> "file", gone |-> "gone"]
Hold(now) ==
  /\ hand' = [hand EXCEPT !.of = IF hand.at = "files" THEN now[@] ELSE @]
  /\ sync' = [sync EXCEPT !.of = IF sync.at # "off" THEN now[@] ELSE @]
Swap ==
  /\ switch.at = "swap" /\ switch' = [switch EXCEPT !.at = "load", !.to = focus]
  /\ focus' = switch.to /\ file' = Fresh(switch.content) /\ spare' = file
  /\ Hold(Replaced)
  /\ astray' = IF pending THEN astray \cup In(Saved) ELSE astray
  /\ UNCHANGED <<tree, view, store, shown, mu, pending, seq, queued, hurried, torn, double, acts>>

(* loadCritJSON: comments come back with the lines they had in the file.   *)
LoadFile ==
  /\ switch.at = "load" /\ To("persist")
  /\ file' = [file EXCEPT !.com = IF In(disk) = {} THEN @ ELSE disk]
  /\ astray' = astray \cup {c \in In(disk) : view[c] = focus /\ disk[c] # file.content}
  /\ UNCHANGED <<tree, focus, spare, view, store, shown, mu, round, sync, hurried, torn, double, acts>>

PersistScope ==
  /\ switch.at = "persist" /\ switch' = SwitchOff /\ mu' = "free"
  /\ scope' = focus /\ armed' = TRUE
  /\ UNCHANGED <<tree, session, disk, shown, round, sync, ghosts, acts>>
(* The old focus and its files come back.                                  *)
OldFocus == switch.to
RollBack ==
  /\ Act /\ switch.at = "persist" /\ switch' = SwitchOff /\ mu' = "free"
  /\ focus' = OldFocus /\ file' = spare /\ spare' = file
  /\ Hold(PutBack)
  /\ UNCHANGED <<tree, view, store, shown, pending, seq, queued, ghosts>>

SyncStep == SyncReads \/ SyncApplies \/ SyncSaves
HandleStep ==
  \/ Receive \/ HandleStarts \/ LoadComments \/ ListFiles \/ AssignFiles
  \/ RereadFile \/ CarryForward \/ Persist \/ FinishRound
SwitchStep == Flush \/ Build \/ Swap \/ LoadFile \/ PersistScope

Next ==
  \/ AgentEdits \/ Show \/ TimerFires \/ (\E c \in Comment : AddComment(c))
  \/ SyncStarts \/ SyncStep \/ SyncSaveFails
  \/ Signal \/ HandleStep \/ PersistFails
  \/ (\E f \in {"W", "R"} : SwitchStarts(f)) \/ SwitchStep
  \/ FlushFails \/ BuildFails \/ RollBack

Spec == Init /\ [][Next]_vars

(* Timers fire and every goroutine runs.                                   *)
FairSpec ==
  /\ Spec
  /\ WF_vars(TimerFires) /\ WF_vars(SyncStep) /\ WF_vars(HandleStep) /\ WF_vars(SwitchStep)
-----------------------------------------------------------------------------
TypeOK ==
  /\ tree \in 1..MaxVersion /\ shown \in Version /\ focus \in {"W", "R"} /\ scope \in {"W", "R"}
  /\ file \in Files /\ spare \in Files /\ disk \in Lines
  /\ mu \in {"free", "switch", "sync"} /\ armed \in BOOLEAN /\ pending \in BOOLEAN
  /\ mu = "switch" <=> switch.at # "off"
  /\ mu = "sync" <=> sync.at = "save"
  /\ hand.at # "off" /\ hand.at # "start" => hand.seq \in 1..seq
  /\ astray \cup hurried \subseteq Comment

(* The lines of a comment refer to the text it is shown with, through      *)
(* syncs and rounds in any order.  Astray are: comments made on a text the *)
(* browser had kept, or made during a round and then not moved; those of   *)
(* one focus moved with the text of the other; working-tree comments that  *)
(* come back to a tree edited meanwhile; those whose new lines were not    *)
(* saved, because that failed or because the next round was signalled; and *)
(* those of a round in whose middle the focus was switched.  And two       *)
(* signals before the watcher looks at the first end the round too early.  *)
CommentsFollowText ==
  ~double => \A c \in In(file.com) \ astray :
    view[c] = focus /\ hand.at # "carry" => file.com[c] = file.content

(* No switch, failed or not, and no round loses a comment, but for one     *)
(* made during a switch or too late for the save before a round.           *)
CommentsSurvive ==
  \A c \in Comment \ hurried : view[c] # "none" => file.com[c] # 0 \/ disk[c] # 0

(* The text shown is that of the focus, and the focus is the one           *)
(* review.json names, whatever failed; unless a round has read the file    *)
(* list of the focus that a switch was leaving.                            *)
FocusIsConsistent ==
  ~torn => /\ focus = "R" <=> file.content = Head
           /\ switch.at = "off" => scope = focus

(* Every signalled round ends, and syncing resumes.                        *)
RoundsEnd == []<>~pending

(* Every comment gets saved.                                               *)
CommentsGetSaved ==
  \A c \in Comment : []<>(view[c] = "none" \/ c \in hurried \/ disk[c] # 0)
(* The review keeps in step with the text in every state, up to the named  *)
(* exceptions: comments stay, and stay on the text of their focus.         *)
ReviewInStep == TypeOK /\ CommentsFollowText /\ CommentsSurvive /\ FocusIsConsistent
=============================================================================
