----------------------------- MODULE ReviewSync -----------------------------
(***************************************************************************)
(* How a daemon keeps the comments it holds in memory and review.json in   *)
(* step, while the reviewer works through HTTP handlers, `crit comment`    *)
(* processes write the same file, and agents complete rounds.              *)
(*                                                                         *)
(* Three locks order the steps.  s.mu guards memory: what one critical     *)
(* section does is one action here.  s.writeMu serialises saves, round     *)
(* signals and clearing: `writer' is whoever holds it.  The review write   *)
(* lock is a file lock shared with the other processes: the writer holds   *)
(* it at the pcs of FlockHeld, and a command-line process holds it for the *)
(* whole of its read-modify-write, which is therefore one action.          *)
(***************************************************************************)
EXTENDS ReviewData

CONSTANTS
  Mtime,      \* modification times of review.json
  Preloaded,  \* comments, posted to GitHub, in the file the daemon starts on
  Enabled,    \* what the environment does in this instance
  MaxOps      \* bound: how often the environment acts

NoMtime == 0      \* time.Time{}, and the time of a file that is not there
NoGen == 0        \* no timer armed; write generations start at 1

ASSUME MtimeAssumption ==
  /\ NoMtime \notin Mtime
  /\ \A a, b, c \in Mtime \cup {NoMtime} : \E m \in Mtime : m \notin {a, b, c}
ASSUME PreloadedAssumption == Preloaded \subseteq CommentId
ASSUME MaxOpsAssumption == MaxOps \in Nat

VARIABLES
  mem,       \* comments of s.Files and s.reviewComments
  round,     \* s.ReviewRound
  tomb,      \* s.deletedCommentIDs
  gone,      \* s.deletedReplyIDs
  dirty,     \* s.resolvedDirtyIDs: id |-> the change's sequence number
  queue,     \* s.pendingGitHubDeletes; a GitHub id is its comment's id
  loaded,    \* s.lastLoadedPendingGHDeletes
  pending,   \* s.pendingWrite
  unloaded,  \* s.diskHasUnloadedComments
  last,      \* s.lastCritJSONMtime
  seq,       \* s.writeSeq, s.resolvedDirtySeq, s.writeGen
  timer,     \* generation captured by the armed debounce timer, or NoGen
  fired,     \* generations of timer callbacks waiting for writeMu
  writer,    \* holder of writeMu
  watch,     \* the watcher goroutine
  roundChan, \* s.roundComplete holds a signal
  disk,      \* review.json
  hist,      \* history: what happened, for the properties only
  ops        \* how often the environment has acted

memory == <<mem, round, tomb, gone, dirty, queue, loaded>>
flags == <<pending, unloaded, last>>
timers == <<timer, fired>>
vars == <<memory, flags, seq, timers, writer, watch, roundChan, disk, hist, ops>>

NoChanges == [c \in {} |-> 0]
NoFile == [mtime |-> NoMtime, comments |-> NoComments, round |-> 0, deletes |-> {}]
NoSnapshot ==
  [mem |-> NoComments, round |-> 0, tomb |-> {}, dirty |-> NoChanges,
   queue |-> {}, loaded |-> {}, write |-> 0]
Free == [pc |-> "free", by |-> "none", snap |-> NoSnapshot, adds |-> FALSE]
Idle == [pc |-> "idle", mtime |-> NoMtime, comments |-> NoComments, round |-> 0]

FlockHeld == writer.pc \in {"merge", "snapshot", "save", "ack", "ackEmpty"}
Missing == disk.mtime = NoMtime
NewMtime == CHOOSE m \in Mtime : m \notin {disk.mtime, last, watch.mtime}

(* The environment spends one of MaxOps on an operation of this kind.      *)
Act(kind) == kind \in Enabled /\ ops < MaxOps /\ ops' = ops + 1

Init ==
  /\ disk = IF Preloaded = {} THEN NoFile
            ELSE [mtime |-> CHOOSE m \in Mtime : TRUE, round |-> 1, deletes |-> {},
                  comments |-> [c \in Preloaded |-> [Fresh EXCEPT !.github = TRUE]]]
  /\ mem = disk.comments /\ round = 1 /\ last = disk.mtime
  /\ tomb = {} /\ gone = {} /\ dirty = NoChanges /\ queue = {} /\ loaded = {}
  /\ pending = FALSE /\ unloaded = FALSE
  /\ seq = [write |-> 0, resolved |-> 0, gen |-> 1]
  /\ timer = NoGen /\ fired = {}
  /\ writer = Free /\ watch = Idle /\ roundChan = FALSE
  /\ hist = [born |-> Preloaded, said |-> {}, deleted |-> {},
             agentReplies |-> {}, unsaved |-> {},
             raced |-> FALSE, removed |-> FALSE, failed |-> FALSE]
  /\ ops = 0
-----------------------------------------------------------------------------
(* The reviewer's handlers: one critical section of s.mu each.             *)

(* Mutant: an armed or firing timer is left to carry later changes too.    *)
ScheduleWriteOnce(resolvedChanges) ==
  /\ pending' = TRUE
  /\ seq' = [write |-> seq.write + 1, resolved |-> seq.resolved + resolvedChanges,
              gen |-> seq.gen]
  /\ timer' = IF pending THEN timer ELSE seq.gen

(* Mutant: the callback captures the generation after the current one.     *)
ScheduleWriteAhead(resolvedChanges) ==
  /\ pending' = TRUE
  /\ seq' = [write |-> seq.write + 1, resolved |-> seq.resolved + resolvedChanges,
              gen |-> seq.gen]
  /\ timer' = seq.gen + 1

ScheduleWrite(resolvedChanges) ==
  /\ pending' = TRUE
  /\ seq' = [write |-> seq.write + 1, resolved |-> seq.resolved + resolvedChanges,
              gen |-> seq.gen]
  /\ timer' = seq.gen

MarkResolvedDirty(c) == dirty' = With(dirty, c, seq.resolved + 1)

AddComment(c) ==
  /\ Act("add") /\ c \notin hist.born
  /\ mem' = With(mem, c, Fresh)
  /\ ScheduleWrite(0)
  /\ hist' = [hist EXCEPT !.born = @ \cup {c}, !.unsaved = @ \cup {c}]
  /\ UNCHANGED <<round, tomb, gone, dirty, queue, loaded, unloaded, last, fired,
                 writer, watch, roundChan, disk>>

DeleteComment(c) ==
  /\ Act("delete") /\ c \in DOMAIN mem
  /\ mem' = Without(mem, {c})
  /\ tomb' = tomb \cup {c}
  /\ queue' = IF mem[c].github /\ c \notin ReviewLevel THEN queue \cup {c} ELSE queue
  /\ ScheduleWrite(0)
  /\ hist' = [hist EXCEPT !.deleted = @ \cup {c}, !.unsaved = @ \ {c},
                          !.agentReplies = {p \in @ : p[1] # c}]
  /\ UNCHANGED <<round, gone, dirty, loaded, unloaded, last, fired,
                 writer, watch, roundChan, disk>>

SetCommentResolved(c, resolved) ==
  /\ Act("resolve") /\ c \in DOMAIN mem
  /\ mem' = With(mem, c, [mem[c] EXCEPT !.resolved = resolved])
  /\ MarkResolvedDirty(c)
  /\ ScheduleWrite(1)
  /\ UNCHANGED <<round, tomb, gone, queue, loaded, unloaded, last, fired,
                 writer, watch, roundChan, disk, hist>>

AddReply(c, r) ==
  /\ Act("reply") /\ c \in DOMAIN mem /\ r \notin hist.said
  /\ mem' = With(mem, c, [mem[c] EXCEPT !.replies = @ \cup {r}, !.resolved = FALSE])
  /\ MarkResolvedDirty(c)
  /\ ScheduleWrite(1)
  /\ hist' = [hist EXCEPT !.said = @ \cup {r}]
  /\ UNCHANGED <<round, tomb, gone, queue, loaded, unloaded, last, fired,
                 writer, watch, roundChan, disk>>

DeleteReply(c, r) ==
  /\ Act("deleteReply") /\ c \in DOMAIN mem /\ r \in mem[c].replies
  /\ mem' = With(mem, c, [mem[c] EXCEPT !.replies = @ \ {r}])
  /\ gone' = gone \cup {r}
  /\ ScheduleWrite(0)
  /\ hist' = [hist EXCEPT !.agentReplies = @ \ {<<c, r>>}]
  /\ UNCHANGED <<round, tomb, dirty, queue, loaded, unloaded, last, fired,
                 writer, watch, roundChan, disk>>

Reviewer ==
  \E c \in CommentId :
    \/ AddComment(c)
    \/ DeleteComment(c)
    \/ \E resolved \in BOOLEAN : SetCommentResolved(c, resolved)
    \/ \E r \in ReplyId : AddReply(c, r) \/ DeleteReply(c, r)
-----------------------------------------------------------------------------
(* Saving.  The timer's callback and SyncWriteFiles take writeMu and then  *)
(* run the same steps.                                                     *)

At(pc) == writer.pc = pc
WriterTo(pc) == writer' = [writer EXCEPT !.pc = pc]

(* Unlock writeMu; the watcher's own save returns to its loop.             *)
Release ==
  /\ writer' = Free
  /\ watch' = IF writer.by = "round" THEN Idle ELSE watch

TimerFires ==
  /\ timer # NoGen
  /\ timer' = NoGen /\ fired' = fired \cup {timer}
  /\ UNCHANGED <<memory, flags, seq, writer, watch, roundChan, disk, hist, ops>>

(* A callback whose generation is no longer current writes nothing.        *)
TimerCallback(gen) ==
  /\ At("free") /\ gen \in fired
  /\ fired' = fired \ {gen}
  /\ writer' = IF gen = seq.gen THEN [Free EXCEPT !.pc = "check", !.by = "timer"]
               ELSE writer
  /\ UNCHANGED <<memory, flags, seq, timer, watch, roundChan, disk, hist, ops>>

StopTimer == timer' = NoGen /\ seq' = [seq EXCEPT !.gen = @ + 1]

SyncWriteFiles(by) ==
  /\ At("free")
  /\ StopTimer
  /\ writer' = [Free EXCEPT !.pc = "check", !.by = by]

Finish ==
  /\ Act("finish") /\ SyncWriteFiles("finish")
  /\ UNCHANGED <<memory, flags, fired, watch, roundChan, disk, hist>>

DeletedOutside == last # NoMtime /\ Missing

CheckExternalDeletion ==
  /\ At("check")
  /\ WriterTo(IF DeletedOutside THEN "wipe" ELSE "merge")
  /\ UNCHANGED <<memory, flags, seq, timers, watch, roundChan, disk, hist, ops>>

(* Mutant: the save does not look at the file for replies.                 *)
MergeNoReplies ==
  /\ At("merge")
  /\ WriterTo(IF DeletedOutside THEN "wipe" ELSE "snapshot")
  /\ UNCHANGED <<memory, flags, seq, timers, watch, roundChan, disk, hist, ops>>

(* handleExternalDeletion again, now under the file lock, then             *)
(* mergeRepliesWrittenSinceLastWrite.                                      *)
MergeReplies ==
  /\ At("merge")
  /\ IF DeletedOutside
     THEN WriterTo("wipe") /\ mem' = mem
     ELSE /\ WriterTo("snapshot")
          /\ mem' = IF Missing \/ disk.mtime = last THEN mem
                    ELSE AddNewReplies(mem, disk.comments, gone, DOMAIN dirty)
  /\ UNCHANGED <<round, tomb, gone, dirty, queue, loaded, flags, seq, timers,
                 watch, roundChan, disk, hist, ops>>

SnapshotForWrite ==
  /\ At("snapshot")
  /\ writer' = [writer EXCEPT !.pc = "save",
       !.snap = [mem |-> mem, round |-> round, tomb |-> tomb, dirty |-> dirty,
                 queue |-> queue, loaded |-> loaded, write |-> seq.write]]
  /\ UNCHANGED <<memory, flags, seq, timers, watch, roundChan, disk, hist, ops>>

(* buildCritJSON, then remove the empty file or replace the file.          *)
SaveReviewFile ==
  LET snap == writer.snap
      built == BuildComments(snap.mem, disk.comments, snap.tomb)
  IN /\ At("save")
     /\ IF DOMAIN built = {}
        THEN disk' = NoFile
        ELSE disk' = [mtime |-> NewMtime, comments |-> built, round |-> snap.round,
                      deletes |-> ReconcileDeletes(snap.queue, disk.deletes, snap.loaded)]
     /\ writer' = [writer EXCEPT
          !.pc = IF DOMAIN built = {} THEN "ackEmpty" ELSE "ack",
          !.adds = DiskAdds(snap.mem, disk.comments, snap.tomb)]
     /\ hist' = [hist EXCEPT !.unsaved = @ \ DOMAIN built]
     /\ UNCHANGED <<memory, flags, seq, timers, watch, roundChan, ops>>

(* No file lock, or no file.                                               *)
SaveFails ==
  /\ Act("fail") /\ (At("merge") \/ At("save"))
  /\ Release
  /\ hist' = [hist EXCEPT !.failed = TRUE]
  /\ UNCHANGED <<memory, flags, seq, timers, roundChan, disk>>

(* Mutant: changes made after the snapshot are acknowledged with it.       *)
AcknowledgeEverything == pending' = FALSE /\ tomb' = {} /\ dirty' = NoChanges

(* What both acknowledgements do under s.mu.                               *)
AcknowledgeSnapshot ==
  LET snap == writer.snap
      Written(c) == c \in DOMAIN snap.dirty /\ snap.dirty[c] = dirty[c]
  IN /\ pending' = (pending /\ seq.write # snap.write)
     /\ tomb' = tomb \ snap.tomb
     /\ dirty' = Without(dirty, {c \in DOMAIN dirty : Written(c)})

(* The file is gone again if someone removed it after the rename.          *)
AcknowledgeWrite ==
  /\ At("ack")
  /\ IF Missing
     THEN UNCHANGED <<memory, flags>>
     ELSE /\ last' = disk.mtime /\ unloaded' = writer.adds
          /\ queue' = disk.deletes /\ loaded' = disk.deletes
          /\ AcknowledgeSnapshot
          /\ UNCHANGED <<mem, round, gone>>
  /\ Release
  /\ UNCHANGED <<seq, timers, roundChan, disk, hist, ops>>

MarkEmptyWritten ==
  /\ At("ackEmpty")
  /\ last' = NoMtime /\ queue' = {} /\ loaded' = {}
  /\ AcknowledgeSnapshot
  /\ Release
  /\ UNCHANGED <<mem, round, gone, unloaded, seq, timers, roundChan, disk, hist, ops>>

(* clearAllCommentData: the file was removed under the daemon.  `raced',   *)
(* for the properties: it was not, or not since memory last changed.       *)
ClearAllCommentData(raced) ==
  /\ last' = NoMtime
  /\ mem' = NoComments /\ tomb' = {} /\ dirty' = NoChanges /\ round' = 1
  /\ hist' = [hist EXCEPT !.unsaved = {}, !.agentReplies = {}, !.raced = @ \/ raced]
  /\ UNCHANGED <<gone, queue, loaded, pending, unloaded>>

WriterWipes ==
  /\ At("wipe")
  /\ ClearAllCommentData(~hist.removed)
  /\ Release
  /\ UNCHANGED <<seq, timers, roundChan, disk, ops>>

Writer ==
  \/ \E gen \in fired : TimerCallback(gen)
  \/ CheckExternalDeletion \/ MergeReplies \/ SnapshotForWrite
  \/ SaveReviewFile \/ AcknowledgeWrite \/ MarkEmptyWritten \/ WriterWipes
-----------------------------------------------------------------------------
(* ClearAllComments resets memory, then removes the folder; writeMu is     *)
(* held throughout, s.mu is not.                                           *)

ClearMemory ==
  /\ Act("clear") /\ At("free")
  /\ StopTimer
  /\ mem' = NoComments /\ round' = 1 /\ last' = NoMtime /\ pending' = FALSE
  /\ writer' = [Free EXCEPT !.pc = "clear", !.by = "clear"]
  /\ hist' = [hist EXCEPT !.unsaved = {}, !.agentReplies = {}, !.removed = TRUE]
  /\ UNCHANGED <<tomb, gone, dirty, queue, loaded, unloaded, fired, watch,
                 roundChan, disk>>

ClearReviewFolder ==
  /\ At("clear")
  /\ disk' = NoFile
  /\ Release
  /\ UNCHANGED <<memory, flags, seq, timers, roundChan, hist, ops>>
-----------------------------------------------------------------------------
(* The watcher: one goroutine that polls review.json and completes rounds. *)

WatchAt(pc) == watch.pc = pc
WatchTo(pc) == watch' = [watch EXCEPT !.pc = pc]

(* mergeExternalCritJSON, first lines: stat.                               *)
WatchStats ==
  /\ WatchAt("idle")
  /\ watch' = [Idle EXCEPT !.pc = "compare", !.mtime = disk.mtime]
  /\ UNCHANGED <<memory, flags, seq, timers, writer, roundChan, disk, hist, ops>>

(* Mutant: an unchanged time means there is nothing to load.               *)
WatchComparesTimeOnly ==
  /\ WatchAt("compare")
  /\ watch' =
       IF watch.mtime = NoMtime
       THEN IF last # NoMtime THEN [watch EXCEPT !.pc = "wipe"] ELSE Idle
       ELSE IF (last # NoMtime /\ watch.mtime = last) \/ pending
            THEN Idle ELSE [watch EXCEPT !.pc = "read"]
  /\ UNCHANGED <<memory, flags, seq, timers, writer, roundChan, disk, hist, ops>>

(* Nothing new, or a write pending: back to the loop.  s.mu is released    *)
(* before the file is read.                                                *)
WatchCompares ==
  /\ WatchAt("compare")
  /\ watch' =
       IF watch.mtime = NoMtime
       THEN IF last # NoMtime THEN [watch EXCEPT !.pc = "wipe"] ELSE Idle
       ELSE IF (last # NoMtime /\ watch.mtime = last /\ ~unloaded) \/ pending
            THEN Idle ELSE [watch EXCEPT !.pc = "read"]
  /\ UNCHANGED <<memory, flags, seq, timers, writer, roundChan, disk, hist, ops>>

WatchReads ==
  /\ WatchAt("read")
  /\ watch' = IF Missing THEN Idle
              ELSE [watch EXCEPT !.pc = "merge", !.comments = disk.comments,
                                 !.round = disk.round]
  /\ UNCHANGED <<memory, flags, seq, timers, writer, roundChan, disk, hist, ops>>

StaleRound == watch.round > 0 /\ round > watch.round

(* For the properties: memory or the file moved on since the watcher looked. *)
Outdated == pending \/ writer.pc # "free" \/ watch.mtime # disk.mtime

(* A file of an earlier round is not applied, only remembered as seen.     *)
WatchMerges ==
  /\ WatchAt("merge")
  /\ last' = watch.mtime /\ unloaded' = FALSE
  /\ IF StaleRound
     THEN UNCHANGED <<mem, tomb>>
     ELSE mem' = MergeFromDisk(mem, watch.comments) /\ tomb' = {}
  /\ hist' = [hist EXCEPT !.unsaved = @ \cap DOMAIN mem', !.raced = @ \/ Outdated]
  /\ watch' = Idle
  /\ UNCHANGED <<round, gone, dirty, queue, loaded, pending, seq, timers,
                 writer, roundChan, disk, ops>>

WatchWipes ==
  /\ WatchAt("wipe")
  /\ ClearAllCommentData(Outdated)
  /\ watch' = Idle
  /\ UNCHANGED <<seq, timers, writer, roundChan, disk, ops>>

(* The agent says it is done: POST /api/round-complete or review-cycle.    *)
SignalRoundComplete ==
  /\ Act("signal") /\ At("free")
  /\ StopTimer
  /\ pending' = FALSE
  /\ mem' = ReviewOnly(mem)
  /\ roundChan' = TRUE
  /\ hist' = [hist EXCEPT !.unsaved = @ \cap ReviewLevel]
  /\ UNCHANGED <<round, tomb, gone, dirty, queue, loaded, unloaded, last, fired,
                 writer, watch, disk>>

(* handleRoundCompleteGit, loadResolvedComments: stat and read.            *)
RoundReads ==
  /\ WatchAt("idle") /\ roundChan
  /\ roundChan' = FALSE
  /\ watch' = [pc |-> "load", mtime |-> disk.mtime, comments |-> disk.comments,
               round |-> disk.round]
  /\ UNCHANGED <<memory, flags, seq, timers, writer, disk, hist, ops>>

(* Review-level comments become the file's; file comments are kept aside   *)
(* as PreviousComments.                                                    *)
RoundLoads ==
  /\ WatchAt("load")
  /\ IF watch.mtime = NoMtime
     THEN UNCHANGED <<mem, last>>
     ELSE /\ last' = watch.mtime
          /\ mem' = Override(FileLevel(mem), ReviewOnly(watch.comments))
  /\ hist' = [hist EXCEPT !.unsaved = @ \cap DOMAIN mem']
  /\ WatchTo("carry")
  /\ UNCHANGED <<round, tomb, gone, dirty, queue, loaded, pending, unloaded, seq,
                 timers, writer, roundChan, disk, ops>>

RoundCarries ==
  /\ WatchAt("carry")
  /\ mem' = CarryForward(mem, FileLevel(watch.comments))
  /\ WatchTo("restore")
  /\ UNCHANGED <<round, tomb, gone, dirty, queue, loaded, flags, seq, timers,
                 writer, roundChan, disk, hist, ops>>

(* restoreOrphanedComments, under writeMu.                                 *)
RoundRestores ==
  /\ WatchAt("restore") /\ At("free")
  /\ mem' = IF Missing THEN mem
            ELSE Override(mem, FileLevel(Without(disk.comments, tomb)))
  /\ WatchTo("advance")
  /\ UNCHANGED <<round, tomb, gone, dirty, queue, loaded, flags, seq, timers,
                 writer, roundChan, disk, hist, ops>>

RoundAdvances ==
  /\ WatchAt("advance")
  /\ round' = round + 1
  /\ WatchTo("persist")
  /\ UNCHANGED <<mem, tomb, gone, dirty, queue, loaded, flags, seq, timers,
                 writer, roundChan, disk, hist, ops>>

PersistAfterRoundComplete ==
  /\ WatchAt("persist") /\ SyncWriteFiles("round")
  /\ WatchTo("saving")
  /\ UNCHANGED <<memory, flags, fired, roundChan, disk, hist, ops>>

Watcher ==
  \/ WatchStats \/ WatchCompares \/ WatchReads \/ WatchMerges \/ WatchWipes
  \/ RoundReads \/ RoundLoads \/ RoundCarries \/ RoundRestores \/ RoundAdvances
  \/ PersistAfterRoundComplete
-----------------------------------------------------------------------------
(* Other processes and the operating system.                               *)

AgentSaves(cs) ==
  disk' = [disk EXCEPT !.mtime = NewMtime, !.comments = cs,
                       !.round = IF Missing THEN 1 ELSE @]

AgentComments(c) ==
  /\ Act("agentAdd") /\ ~FlockHeld /\ c \notin hist.born
  /\ AgentSaves(With(disk.comments, c, Fresh))
  /\ hist' = [hist EXCEPT !.born = @ \cup {c}]
  /\ UNCHANGED <<memory, flags, seq, timers, writer, watch, roundChan>>

AgentReplies(c, r, resolve) ==
  /\ Act("agentReply") /\ ~FlockHeld
  /\ c \in DOMAIN disk.comments /\ r \notin hist.said
  /\ AgentSaves(With(disk.comments, c,
       [disk.comments[c] EXCEPT !.replies = @ \cup {r}, !.resolved = resolve]))
  /\ hist' = [hist EXCEPT !.said = @ \cup {r}, !.agentReplies = @ \cup {<<c, r>>}]
  /\ UNCHANGED <<memory, flags, seq, timers, writer, watch, roundChan>>

(* `crit comment --clear' and `crit cleanup' wait for the lock.            *)
FolderCleared ==
  /\ Act("cleanup") /\ ~FlockHeld /\ ~Missing
  /\ disk' = NoFile
  /\ hist' = [hist EXCEPT !.agentReplies = {}, !.removed = TRUE]
  /\ UNCHANGED <<memory, flags, seq, timers, writer, watch, roundChan>>

(* `rm' does not.                                                          *)
FileRemoved ==
  /\ Act("remove") /\ ~Missing
  /\ disk' = NoFile
  /\ hist' = [hist EXCEPT !.agentReplies = {}, !.removed = TRUE]
  /\ UNCHANGED <<memory, flags, seq, timers, writer, watch, roundChan>>

(* The daemon dies and a new one loads the file.                           *)
Restart ==
  /\ Act("restart")
  /\ mem' = disk.comments /\ last' = disk.mtime
  /\ round' = IF disk.round > 1 THEN disk.round ELSE 1
  /\ queue' = disk.deletes /\ loaded' = disk.deletes
  /\ tomb' = {} /\ gone' = {} /\ dirty' = NoChanges
  /\ pending' = FALSE /\ unloaded' = FALSE
  /\ seq' = [write |-> 0, resolved |-> 0, gen |-> 1]
  /\ timer' = NoGen /\ fired' = {}
  /\ writer' = Free /\ watch' = Idle /\ roundChan' = FALSE
  /\ hist' = [hist EXCEPT !.unsaved = {}, !.deleted = @ \ DOMAIN disk.comments]
  /\ UNCHANGED disk

Agents ==
  \E c \in CommentId :
    \/ AgentComments(c)
    \/ \E r \in ReplyId, resolve \in BOOLEAN : AgentReplies(c, r, resolve)

Next ==
  \/ Reviewer \/ TimerFires \/ Writer \/ Finish \/ SaveFails
  \/ ClearMemory \/ ClearReviewFolder \/ Watcher \/ SignalRoundComplete
  \/ Agents \/ FolderCleared \/ FileRemoved \/ Restart

Spec == Init /\ [][Next]_vars
-----------------------------------------------------------------------------
(* Fairness: the runtime runs armed timers, whoever holds writeMu moves on,  *)
(* and the watcher's loop keeps polling.  Its select picks at random between *)
(* a tick and a round signal, so a waiting signal is taken sooner or later.  *)

FairSpec ==
  /\ Spec
  /\ WF_vars(TimerFires) /\ WF_vars(Writer) /\ WF_vars(ClearReviewFolder)
  /\ WF_vars(Watcher) /\ SF_vars(RoundReads)
-----------------------------------------------------------------------------
(* Properties.                                                             *)

IsChanges(d, n) == DOMAIN d \subseteq CommentId /\ d \in [DOMAIN d -> 1..n]

MemoryOK ==
  /\ IsCommentSet(mem) /\ round \in Nat
  /\ tomb \subseteq CommentId /\ gone \subseteq ReplyId
  /\ queue \subseteq CommentId /\ loaded \subseteq CommentId
  /\ IsChanges(dirty, seq.resolved)

FlagsOK ==
  /\ pending \in BOOLEAN /\ unloaded \in BOOLEAN /\ roundChan \in BOOLEAN
  /\ last \in Mtime \cup {NoMtime}

TimersOK ==
  /\ seq \in [write : Nat, resolved : Nat, gen : Nat \ {NoGen}]
  /\ timer \in 0..seq.gen /\ fired \subseteq 1..seq.gen

SnapshotOK(snap) ==
  /\ IsCommentSet(snap.mem) /\ snap.round \in Nat
  /\ snap.tomb \subseteq CommentId /\ IsChanges(snap.dirty, seq.resolved)
  /\ snap.queue \subseteq CommentId /\ snap.loaded \subseteq CommentId
  /\ snap.write \in 0..seq.write

WriterOK ==
  /\ DOMAIN writer = {"pc", "by", "snap", "adds"}
  /\ writer.pc \in {"free", "check", "merge", "snapshot", "save", "ack",
                    "ackEmpty", "wipe", "clear"}
  /\ writer.by \in {"none", "timer", "finish", "round", "clear"}
  /\ SnapshotOK(writer.snap) /\ writer.adds \in BOOLEAN

WatchOK ==
  /\ DOMAIN watch = {"pc", "mtime", "comments", "round"}
  /\ watch.pc \in {"idle", "compare", "read", "merge", "wipe", "load", "carry",
                   "restore", "advance", "persist", "saving"}
  /\ watch.mtime \in Mtime \cup {NoMtime}
  /\ IsCommentSet(watch.comments) /\ watch.round \in Nat

DiskOK ==
  /\ DOMAIN disk = {"mtime", "comments", "round", "deletes"}
  /\ disk.mtime \in Mtime \cup {NoMtime} /\ IsCommentSet(disk.comments)
  /\ disk.round \in Nat /\ disk.deletes \subseteq CommentId

HistOK ==
  hist \in [born : SUBSET CommentId, said : SUBSET ReplyId,
            deleted : SUBSET CommentId,
            agentReplies : SUBSET (CommentId \X ReplyId),
            unsaved : SUBSET CommentId,
            raced : BOOLEAN, removed : BOOLEAN, failed : BOOLEAN]

(* The types of the variables, and that no timer, snapshot or resolved     *)
(* mark carries a generation or a number not handed out yet.               *)
TypeOK ==
  /\ MemoryOK /\ FlagsOK /\ TimersOK /\ WriterOK /\ WatchOK /\ DiskOK /\ HistOK
  /\ ops \in Nat

InRound ==
  roundChan \/ watch.pc \in {"load", "carry", "restore", "advance", "persist", "saving"}

(* A comment of the reviewer that no save has put on disk is in memory, and *)
(* the watcher cannot drop it: pendingWrite is set, or a round completion   *)
(* is about to save it, or, should that save fail, the file's round lags    *)
(* memory's.  clearPendingWrite never forgets a change made after the       *)
(* snapshot.                                                                *)
UnsavedIsPending ==
  /\ hist.unsaved \subseteq DOMAIN mem
  /\ hist.unsaved # {} => pending \/ InRound \/ disk.round < round

(* A reload or a wipe overtook the change it should have seen, or somebody  *)
(* removed the file, or a save failed.                                      *)
Disturbed == hist.raced \/ hist.removed \/ hist.failed

(* A pending write has someone to carry it out: the armed timer, a callback *)
(* of the current generation waiting for writeMu, or a save whose snapshot  *)
(* has the last change or is still to be taken.  Exceptions: a failed save  *)
(* is not retried, a wipe after a removal leaves pendingWrite as it was.    *)
PendingIsScheduled ==
  pending /\ ~Disturbed =>
    \/ timer = seq.gen
    \/ seq.gen \in fired
    \/ writer.pc \in {"check", "merge", "snapshot", "wipe"}
    \/ writer.pc \in {"save", "ack", "ackEmpty"} /\ writer.snap.write = seq.write

(* Nothing under way in the daemon, and nothing it knows it has to load.   *)
Settled ==
  /\ writer.pc = "free" /\ watch.pc = "idle" /\ ~roundChan
  /\ ~pending /\ ~unloaded /\ last = disk.mtime

FileOfEarlierRound == ~Missing /\ disk.round < round
Revived == hist.deleted \cap DOMAIN mem # {}

(* When nothing is under way the browser shows what the file holds,        *)
(* whatever order saves, reloads, agents' writes and rounds came in.       *)
(* Exceptions beside the disturbances: a file of an earlier round, which   *)
(* the watcher refuses, and a deleted comment that a round brought back.   *)
SettledMeansEqual ==
  Settled /\ ~Disturbed /\ ~FileOfEarlierRound /\ ~Revived => mem = disk.comments

(* An agent's reply stays in review.json as long as its comment does,      *)
(* unless the reviewer deletes it.                                         *)
RepliesOnDisk ==
  \A p \in hist.agentReplies :
    p[1] \in DOMAIN disk.comments => p[2] \in disk.comments[p[1]].replies

(* No save writes over an agent's reply, unless after such a reload.       *)
AgentReplyKept == hist.raced \/ RepliesOnDisk

(* A comment the reviewer deleted never comes back to memory, unless a     *)
(* reload read the file before the deletion: tombstones stand between it   *)
(* and every merge of the file.                                            *)
DeletedStaysDeleted == hist.raced \/ ~Revived

(* A tombstone is dropped only when the file no longer has the comment, by *)
(* a reload, by a wipe, or with the process: a save acknowledges what its  *)
(* snapshot held and no deletion made since.                               *)
TombstonesOutliveSaves ==
  [][(tomb \ tomb') \cap DOMAIN disk.comments = {}
     \/ WatchMerges \/ WriterWipes \/ WatchWipes \/ Restart]_vars

(* The mark that keeps the reviewer's resolved change from being taken for *)
(* older than the file's is dropped only when the file has the change.     *)
ResolvedMarksOutliveSaves ==
  [][\A c \in (DOMAIN dirty \ DOMAIN dirty') \cap DOMAIN mem \cap DOMAIN disk.comments :
       \/ mem[c].resolved = disk.comments[c].resolved
       \/ hist.raced \/ WriterWipes \/ WatchWipes \/ Restart]_vars

(* A reload does not drop a comment that is not on disk yet: the watcher   *)
(* leaves memory alone while a write is pending.                           *)
ReloadKeepsUnsaved == [][WatchMerges => hist.unsaved \subseteq DOMAIN mem']_vars

(* The file as the other processes see it: only comments that somebody     *)
(* made, and none lost unless the reviewer deleted it or someone removed   *)
(* the file.  No save, of any timer or round, drops another writer's work. *)
Shared == INSTANCE SharedReview WITH
            made <- hist.born, withdrawn <- hist.deleted, file <- DOMAIN disk.comments
ImplementsSharedReview == Shared!Spec

(* A comment the reviewer makes reaches the file or is deleted again, while *)
(* nobody clears the review, completes a round or makes saves fail;         *)
(* unless a reload raced, as above.                                         *)
CommentsGetSaved ==
  \A c \in CommentId :
    c \in hist.unsaved ~>
      (c \in DOMAIN disk.comments \/ c \in hist.deleted \/ hist.raced)

(* A comment that stays in the file is shown, unless after a reload raced. *)
Shown(c) == c \in DOMAIN mem \/ c \notin DOMAIN disk.comments
CommentsGetShown == \A c \in CommentId : ~Shown(c) ~> (Shown(c) \/ hist.raced)
=============================================================================
