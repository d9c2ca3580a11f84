------------------------------ MODULE Timeline ------------------------------
(* The rounds of a review of files that are not looked at as changes of a  *)
(* repository: the texts each round began with, kept in snapshots.json     *)
(* beside review.json, the number of the round, which only review.json     *)
(* keeps, and the comments that are carried to the new text                *)
(* (session/watch.go, session/round_snapshots.go).  A text is its version, *)
(* and a comment the version its line numbers are those of.  Each file has *)
(* at most one comment, and none are made while a round is completed       *)
(* (module ReviewSync has those).                                          *)
EXTENDS Integers

CONSTANTS
  File,       \* in a directory that was given to crit
  None,
  MaxVersion, \* bound on the texts of a file
  MaxRound,   \* bound on the rounds
  MaxActs     \* bound on what people, agents and failures do

VARIABLES
  tree,       \* the text of each file, None before it is made
  code,       \* the files that are not markdown
  mem,        \* the daemon's session
  disk,       \* review.json: None, or the round and the comments
  side,       \* snapshots.json: None, or each file's text at each round
  pc,         \* how far the completion of a round is
  hist,       \* what really happened, and what explains a difference
  acts

vars == <<tree, code, mem, disk, side, pc, hist, acts>>

Round    == 1..MaxRound
NoShots  == [f \in File |-> [r \in Round |-> None]]
NoNotes  == [f \in File |-> None]
Nowhere  == -1
Act      == acts < MaxActs /\ acts' = acts + 1

(* Mutant: a round's texts are taken again.                                *)
RecaptureSnapshot(shots, content, round) ==
  [f \in File |-> [shots[f] EXCEPT ![round] = content[f]]]
(* captureRoundSnapshot never overwrites.                                  *)
CaptureRoundSnapshot(shots, content, round) ==
  [f \in File |-> IF shots[f][round] = None THEN [shots[f] EXCEPT ![round] = content[f]] ELSE shots[f]]

(* NewSessionFromFiles, then loadCritJSON and loadSnapshotsFromSidecar.    *)
(* cj and sf are what the completion of a round has read of review.json    *)
(* and what it is about to write to snapshots.json, held without a lock.   *)
LoadedRound(d) == IF d = None THEN 1 ELSE d.round
LoadedNotes(d) == IF d = None THEN NoNotes ELSE d.notes
LoadedShots(d, s) ==
  CaptureRoundSnapshot(IF s = None THEN CaptureRoundSnapshot(NoShots, tree, 1) ELSE s,
                       tree, LoadedRound(d))
Loaded(d, s) ==
  [content |-> tree, prev |-> NoNotes, notes |-> LoadedNotes(d),
   shots |-> LoadedShots(d, s), round |-> LoadedRound(d), edits |-> FALSE, signal |-> FALSE,
   known |-> d # None, cj |-> None, sf |-> None]

(* truth is the text each file had when a round began, unseen when the     *)
(* watcher had not looked, edited the files it found edited in this round, *)
(* waiting those it found before a signal not yet handled, and early those *)
(* it found between the signal and the new round.                          *)
Fresh == [truth |-> CaptureRoundSnapshot(NoShots, tree, 1), unseen |-> {}, lost |-> FALSE,
          failed |-> {}, edited |-> {}, waiting |-> {}, early |-> {}, astray |-> {}]
Init ==
  /\ tree \in [File -> {0, None}] /\ tree # NoNotes
  /\ code \in SUBSET File
  /\ disk = None /\ side = LoadedShots(None, None) /\ mem = Loaded(None, None)
  /\ pc = "rest" /\ hist = Fresh /\ acts = 0
-----------------------------------------------------------------------------
(* clearAllCommentData, when review.json was there and is gone.            *)
Gone(m) == m.known /\ disk = None
Cleared(m) == [m EXCEPT !.notes = NoNotes, !.known = FALSE, !.round = 1, !.shots = NoShots]
Wiped(h) == [h EXCEPT !.truth = NoShots, !.unseen = {}, !.failed = (@ \ {"review"}) \cup {"side"}]
(* SyncWriteFiles: a review with no comments is removed.                   *)
SyncWriteFiles(m, h) ==
  IF Gone(m) THEN disk' = None /\ mem' = Cleared(m) /\ hist' = Wiped(h)
  ELSE /\ disk' = IF m.notes = NoNotes THEN None ELSE [round |-> m.round, notes |-> m.notes]
       /\ mem' = [m EXCEPT !.known = m.notes # NoNotes]
       /\ hist' = [h EXCEPT !.failed = @ \ {"review"}]

(* The watcher's tick.  The first edit after a round's signal makes it     *)
(* keep the text before, of the files it finds changed in that tick only.  *)
Poll ==
  /\ pc = "rest"
  /\ LET m == IF Gone(mem) THEN Cleared(mem) ELSE mem
         seen == {f \in File : mem.content[f] # None /\ tree[f] # mem.content[f]}
     IN
       /\ m # mem \/ seen # {}
       /\ mem' = [m EXCEPT !.content = [f \in File |-> IF f \in seen THEN tree[f] ELSE @[f]],
                           !.prev = [f \in File |-> IF f \in seen \ code /\ ~m.edits
                                                    THEN m.content[f] ELSE @[f]],
                           !.edits = @ \/ seen # {}]
       /\ hist' = [IF Gone(mem) THEN Wiped(hist) ELSE hist EXCEPT
                     !.edited = @ \cup seen,
                     !.astray = @ \cup (seen \cap (code \cup hist.waiting \cup hist.early))
                                  \cup {f \in seen \ hist.edited : hist.edited \cup hist.early # {}}]
  /\ UNCHANGED <<tree, code, disk, side, pc, acts>>

SignalRoundComplete ==
  /\ Act /\ pc = "rest" /\ mem.round < MaxRound
  /\ mem' = [mem EXCEPT !.notes = NoNotes, !.edits = FALSE, !.signal = TRUE]
  /\ hist' = [hist EXCEPT !.astray = IF "review" \in hist.failed THEN File ELSE @,
                          !.edited = {}, !.waiting = @ \cup hist.edited, !.early = {}]
  /\ UNCHANGED <<tree, code, disk, side, pc>>

(* Where a comment is carried to: its place in the text now, if it was for *)
(* the text before; else its anchor may be found there, or not.            *)
Carried(at, prev, content) == IF at = prev THEN {content} ELSE {content, Nowhere}
Changed(m) == {f \in File : m.prev[f] # None}

(* handleRoundCompleteFiles: new files of the directory, then review.json, *)
(* read before the session is locked,                                      *)
LoadsResolvedComments ==
  /\ pc = "rest" /\ mem.signal /\ pc' = "read"
  /\ mem' = [mem EXCEPT !.signal = FALSE, !.cj = disk,
                        !.content = [f \in File |-> IF @[f] = None THEN tree[f] ELSE @[f]]]
  /\ UNCHANGED <<tree, code, disk, side, hist, acts>>
(* its comments, carried,                                                  *)
CarriesForward ==
  /\ pc = "read" /\ pc' = "carried"
  /\ LET before == LoadedNotes(mem.cj)
         on == {f \in Changed(mem) : before[f] # None}
     IN \E to \in [on -> 0..MaxVersion \cup {Nowhere}] :
       /\ \A f \in on : to[f] \in Carried(before[f], mem.prev[f], mem.content[f])
       /\ mem' = [mem EXCEPT !.known = @ \/ mem.cj # None, !.cj = None,
                             !.notes = [f \in File |-> IF f \in on THEN to[f] ELSE before[f]]]
       /\ hist' = [hist EXCEPT !.astray = @ \cup (on \ (hist.edited \cup hist.waiting))]
  /\ UNCHANGED <<tree, code, disk, side, acts>>
(* the texts the new round begins with, of which it keeps a copy to write, *)
(* and those now on disk,                                                  *)
CommitsRound ==
  /\ pc = "carried" /\ pc' = "committed"
  /\ LET next == mem.round + 1
         listed == {f \in File : mem.content[f] # None}
     IN
       /\ mem' = [mem EXCEPT !.shots = CaptureRoundSnapshot(@, mem.content, next),
                             !.sf = CaptureRoundSnapshot(mem.shots, mem.content, next),
                             !.prev = [f \in File |-> IF f \notin code /\ @[f] = None THEN mem.content[f] ELSE @[f]],
                             !.content = [f \in File |-> IF f \in listed THEN tree[f] ELSE None],
                             !.round = next]
       /\ hist' = [hist EXCEPT !.truth = [f \in File |-> [@[f] EXCEPT ![next] = mem'.content[f]]],
                               !.unseen = @ \cup {<<f, next>> : f \in {g \in listed : tree[g] # mem.content[g]}},
                               !.astray = @ \cup {f \in listed : tree[f] # mem.content[f]},
                               !.edited = {}, !.waiting = {}, !.early = hist.edited]
  /\ UNCHANGED <<tree, code, disk, side, acts>>
(* the copy to snapshots.json, even when the review was cleared since, and *)
(* review.json.                                                            *)
SavesSnapshots ==
  /\ pc = "committed" /\ pc' = "saved" /\ mem' = [mem EXCEPT !.sf = None]
  /\ \/ /\ side' = mem.sf /\ acts' = acts
        /\ hist' = [hist EXCEPT !.failed = IF mem.sf = mem.shots THEN @ \ {"side", "new"} ELSE @]
     \/ Act /\ side' = side /\ hist' = [hist EXCEPT !.failed = @ \cup {"side"}]
  /\ UNCHANGED <<tree, code, disk>>
PersistAfterRoundComplete ==
  /\ pc = "saved" /\ pc' = "rest"
  /\ \/ SyncWriteFiles(mem, hist) /\ acts' = acts
     \/ Act /\ hist' = [hist EXCEPT !.failed = @ \cup {"review"}] /\ UNCHANGED <<mem, disk>>
  /\ UNCHANGED <<tree, code, side>>
-----------------------------------------------------------------------------
(* An agent edits a file, or makes it.                                     *)
Edit(f) ==
  /\ Act /\ tree[f] # MaxVersion
  /\ tree' = [tree EXCEPT ![f] = IF @ = None THEN 0 ELSE @ + 1]
  /\ UNCHANGED <<code, mem, disk, side, pc, hist>>

(* Comments, with the save that follows.                                   *)
AddComment(f) ==
  /\ Act /\ pc = "rest" /\ ~mem.signal /\ mem.content[f] # None /\ mem.notes[f] = None
  /\ SyncWriteFiles([mem EXCEPT !.notes[f] = mem.content[f]],
                    [hist EXCEPT !.astray = (@ \ {f}) \cup ({f} \cap hist.edited)])
  /\ UNCHANGED <<tree, code, side, pc>>
DeleteComment(f) ==
  /\ Act /\ pc = "rest" /\ ~mem.signal /\ mem.notes[f] # None
  /\ SyncWriteFiles([mem EXCEPT !.notes[f] = None], hist)
  /\ UNCHANGED <<tree, code, side, pc>>

(* Any time, also while a round is completed: what that has read or copied *)
(* before comes back.  (A removal of the folder that fails: ReviewLock.)   *)
ClearAllComments ==
  /\ Act
  /\ mem' = [mem EXCEPT !.notes = NoNotes, !.prev = NoNotes, !.round = 1, !.shots = NoShots,
                        !.known = FALSE, !.edits = FALSE]
  /\ disk' = None /\ side' = None
  /\ hist' = [hist EXCEPT !.truth = NoShots, !.unseen = {}, !.lost = FALSE,
                          !.failed = IF pc = "committed" THEN {"side"} ELSE {},
                          !.astray = @ \cup {f \in File : LoadedNotes(mem.cj)[f] # None},
                          !.edited = {}, !.waiting = {}, !.early = {}]
  /\ UNCHANGED <<tree, code, pc>>

(* Another process removes review.json, or all of the review.              *)
RemovesReview ==
  /\ Act /\ disk # None /\ disk' = None /\ side' \in {side, None}
  /\ hist' = [hist EXCEPT !.failed = @ \cup {"review", "side"}]
  /\ UNCHANGED <<tree, code, mem, pc>>

(* The daemon ends or dies, and crit starts another.                       *)
Rounds(s) == {r \in Round : s # None /\ \E f \in File : s[f][r] # None}
Restart ==
  /\ Act /\ mem' = Loaded(disk, side) /\ pc' = "rest"
  /\ side' \in IF side = None THEN {mem'.shots, None} ELSE {side}
  /\ hist' = IF disk = None /\ side = None THEN [Fresh EXCEPT !.failed = IF side' = None THEN {"side"} ELSE {}]
             ELSE [hist EXCEPT
                     !.truth = [f \in File |-> [r \in Round |->
                                 IF r > mem'.round THEN None
                                 ELSE IF r = mem'.round /\ (side = None \/ side[f][r] = None) THEN tree[f]
                                 ELSE @[f][r]]],
                     !.failed = (@ \ {"review"}) \cup
                                (IF side' = None THEN {"side"} ELSE {}) \cup
                                (IF pc = "rest" /\ \A f \in File : tree[f] = None \/ mem.content[f] # None
                                 THEN {} ELSE {"new"}),
                     !.lost = @ \/ side = None \/ "side" \in hist.failed \/ Rounds(side) # 1..mem'.round,
                     !.astray = IF "review" \in hist.failed \/ pc # "rest" THEN File
                                ELSE @ \cup hist.edited \cup hist.waiting \cup {f \in File : tree[f] # mem.content[f]},
                     !.edited = {}, !.waiting = {}, !.early = {}]
  /\ UNCHANGED <<tree, code, disk>>

Next ==
  \/ \E f \in File : Edit(f) \/ AddComment(f) \/ DeleteComment(f)
  \/ Poll \/ SignalRoundComplete \/ LoadsResolvedComments \/ CarriesForward \/ CommitsRound
  \/ SavesSnapshots \/ PersistAfterRoundComplete \/ ClearAllComments \/ RemovesReview \/ Restart
Spec == Init /\ [][Next]_vars
-----------------------------------------------------------------------------
(* A round's snapshot is the text the agent left at the end of the round   *)
(* before it (round_snapshot.go:7), whatever was edited, restarted or     *)
(* cleared since, and no round but the first lacks one: except the text of *)
(* an edit the watcher had not looked at yet, and after snapshots outlived *)
(* their review or the other way round, as when a review is cleared after  *)
(* a round copied its snapshots and before it wrote them.                  *)
TimelineIsTrue ==
  ~hist.lost =>
    /\ \A f \in File, r \in Round :
         mem.shots[f][r] # hist.truth[f][r] => <<f, r>> \in hist.unseen
    /\ 2..mem.round \subseteq Rounds(mem.shots)
    /\ pc = "rest" /\ hist.failed \cap {"side", "new"} = {}
         => mem.shots = IF side = None THEN NoShots ELSE side

(* review.json has the round and the comments of the session at rest, with *)
(* which a restart goes on; only a review with no comments has no file,    *)
(* and that is not taken for a removal by another process.                 *)
RoundsGoOn ==
  pc = "rest" /\ "review" \notin hist.failed =>
    /\ ~mem.signal => disk = IF mem.notes = NoNotes THEN None ELSE [round |-> mem.round, notes |-> mem.notes]
    /\ ~Gone(mem)

(* A comment has the line numbers of the text shown, or of the one it is   *)
(* shown against, from which the next round carries it; except when its    *)
(* file was edited after another in the same round, or changed again       *)
(* between signal and round, unseen by the watcher or while the daemon was *)
(* down, when it was made after an edit or the round had none, was cleared *)
(* when the round had read it already, and code.                           *)
CommentsStayInPlace ==
  \A notes \in {IF pc = "read" THEN LoadedNotes(mem.cj)
                ELSE IF mem.signal THEN LoadedNotes(disk) ELSE mem.notes} :
  \A f \in File \ hist.astray :
    notes[f] \in {None, mem.content[f]} \cup (IF f \in hist.edited \cup hist.waiting THEN {mem.prev[f]} ELSE {})
=============================================================================
