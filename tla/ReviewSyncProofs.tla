-------------------------- MODULE ReviewSyncProofs --------------------------
(***************************************************************************)
(* Theorems about ReviewSync, for every value of its constants: its types, *)
(* that it implements SharedReview, and that no change of the reviewer is  *)
(* left behind: what no save has put on disk is in memory with a save to   *)
(* come, for any numbers of comments, rounds, failed saves and writers of  *)
(* the file.  And, while no round is completed, what the merges of the     *)
(* browser's memory with the file keep: what the reviewer deleted stays    *)
(* deleted, an agent's reply and a resolved mark outlive the saves, and    *)
(* memory and file agree once nothing is under way.                        *)
(***************************************************************************)
EXTENDS ReviewSync, TLAPS
-----------------------------------------------------------------------------
(* What the operators of ReviewData return: a set of comments again, and   *)
(* which comments it holds.                                                *)

(* A comment just made, and a set of none.                                 *)
LEMMA NoCommentsLemma ==
  Fresh \in Comment /\ IsCommentSet(NoComments) /\ DOMAIN NoComments = {}
BY DEF Fresh, Comment, NoComments, IsCommentSet

(* Removing comments.                                                      *)
LEMMA WithoutLemma ==
  ASSUME NEW cs, IsCommentSet(cs), NEW ids
  PROVE  IsCommentSet(Without(cs, ids)) /\ DOMAIN Without(cs, ids) = DOMAIN cs \ ids
BY DEF Without, IsCommentSet

(* Adding or replacing one comment.                                        *)
LEMMA WithLemma ==
  ASSUME NEW cs, IsCommentSet(cs), NEW c \in CommentId, NEW new \in Comment
  PROVE  IsCommentSet(With(cs, c, new)) /\ DOMAIN With(cs, c, new) = DOMAIN cs \cup {c}
BY DEF With, IsCommentSet

(* One set over another.                                                   *)
LEMMA OverrideLemma ==
  ASSUME NEW base, IsCommentSet(base), NEW cs, IsCommentSet(cs)
  PROVE  IsCommentSet(Override(base, cs)) /\ DOMAIN Override(base, cs) = DOMAIN base \cup DOMAIN cs
BY DEF Override, IsCommentSet

(* File comments and review-level comments of a set.                       *)
LEMMA LevelLemma ==
  ASSUME NEW cs, IsCommentSet(cs)
  PROVE  /\ IsCommentSet(FileLevel(cs)) /\ DOMAIN FileLevel(cs) = DOMAIN cs \ ReviewLevel
         /\ IsCommentSet(ReviewOnly(cs)) /\ DOMAIN ReviewOnly(cs) = DOMAIN cs \cap ReviewLevel
<1>1. IsCommentSet(FileLevel(cs)) /\ DOMAIN FileLevel(cs) = DOMAIN cs \ ReviewLevel
  BY WithoutLemma DEF FileLevel
<1>2. IsCommentSet(ReviewOnly(cs)) /\ DOMAIN ReviewOnly(cs) = DOMAIN cs \cap ReviewLevel
  BY DEF ReviewOnly, IsCommentSet
<1> QED BY <1>1, <1>2

(* What a save writes: it keeps every comment of the file that has no      *)
(* tombstone, and adds only comments of memory.                            *)
LEMMA BuildLemma ==
  ASSUME NEW ours, IsCommentSet(ours), NEW theirs, IsCommentSet(theirs), NEW dead
  PROVE  /\ IsCommentSet(BuildComments(ours, theirs, dead))
         /\ DOMAIN theirs \ dead \subseteq DOMAIN BuildComments(ours, theirs, dead)
         /\ DOMAIN BuildComments(ours, theirs, dead) \subseteq DOMAIN ours \cup DOMAIN theirs
<1> DEFINE kept == Without(theirs, dead)
           merged == Override(ours, kept)
<1>1. IsCommentSet(kept) /\ DOMAIN kept = DOMAIN theirs \ dead
  BY WithoutLemma
<1>2. IsCommentSet(merged) /\ DOMAIN merged = DOMAIN ours \cup DOMAIN kept
  BY <1>1, OverrideLemma
<1>3. BuildComments(ours, theirs, dead) = Without(merged, dead \ ReviewLevel)
  BY DEF BuildComments, MergeDiskComments, ApplyDeletedCommentIDs
<1>4. /\ IsCommentSet(Without(merged, dead \ ReviewLevel))
      /\ DOMAIN Without(merged, dead \ ReviewLevel) = DOMAIN merged \ (dead \ ReviewLevel)
  BY <1>2, WithoutLemma
<1> QED BY <1>1, <1>2, <1>3, <1>4

(* Adopting replies changes no comment's presence.                         *)
LEMMA AddNewRepliesLemma ==
  ASSUME NEW ours, IsCommentSet(ours), NEW theirs, IsCommentSet(theirs), NEW removed, NEW changed
  PROVE  /\ IsCommentSet(AddNewReplies(ours, theirs, removed, changed))
         /\ DOMAIN AddNewReplies(ours, theirs, removed, changed) = DOMAIN ours
<1> DEFINE New(x) == IF x \in DOMAIN theirs
                     THEN theirs[x].replies \ (ours[x].replies \cup removed) ELSE {}
           adopted == AddNewReplies(ours, theirs, removed, changed)
<1>0. /\ \A c \in DOMAIN ours : ours[c] \in Comment
      /\ \A c \in DOMAIN theirs : theirs[c] \in Comment
  BY DEF IsCommentSet
<1>1. \A c \in DOMAIN ours : /\ New(c) \subseteq ReplyId
                             /\ New(c) # {} => c \in DOMAIN theirs
  BY DEF IsCommentSet, Comment
<1>2. adopted = [c \in DOMAIN ours |->
                   [replies |-> ours[c].replies \cup New(c),
                    resolved |-> IF New(c) # {} /\ c \notin changed
                                 THEN theirs[c].resolved ELSE ours[c].resolved,
                    github |-> ours[c].github]]
  BY DEF AddNewReplies
<1> HIDE DEF New
<1>3. ASSUME NEW c \in DOMAIN ours PROVE adopted[c] \in Comment
  <2>1. /\ ours[c] \in Comment /\ New(c) \subseteq ReplyId
        /\ New(c) # {} => theirs[c] \in Comment
    BY <1>0, <1>1
  <2>2. adopted[c] = [replies |-> ours[c].replies \cup New(c),
                      resolved |-> IF New(c) # {} /\ c \notin changed
                                   THEN theirs[c].resolved ELSE ours[c].resolved,
                      github |-> ours[c].github]
    BY <1>2
  <2> HIDE DEF adopted
  <2> QED BY <2>1, <2>2 DEF Comment
<1> QED BY <1>2, <1>3 DEF IsCommentSet

(* After a reload memory has the comments of the file.                     *)
LEMMA MergeFromDiskLemma ==
  ASSUME NEW ours, IsCommentSet(ours), NEW theirs, IsCommentSet(theirs)
  PROVE  /\ IsCommentSet(MergeFromDisk(ours, theirs))
         /\ DOMAIN MergeFromDisk(ours, theirs) = DOMAIN theirs
BY DEF MergeFromDisk, IsCommentSet, Comment
-----------------------------------------------------------------------------
(* Some modification time is not taken yet.                                *)
LEMMA NewMtimeLemma ==
  ASSUME TypeOK
  PROVE  NewMtime \in Mtime /\ NewMtime # NoMtime /\ NewMtime # disk.mtime
<1>1. {disk.mtime, last, watch.mtime} \subseteq Mtime \cup {NoMtime}
  BY DEF TypeOK, DiskOK, FlagsOK, WatchOK
<1>2. \E m \in Mtime : m \notin {disk.mtime, last, watch.mtime}
  BY <1>1, MtimeAssumption
<1>3. NewMtime \in Mtime /\ NewMtime \notin {disk.mtime, last, watch.mtime}
  BY <1>2 DEF NewMtime
<1> QED BY <1>3, MtimeAssumption

(* Numbered changes stay numbered as the counter grows, as a change is     *)
(* recorded and as changes are dropped.                                    *)
LEMMA ChangesLemma ==
  ASSUME NEW d, NEW n \in Nat, IsChanges(d, n)
  PROVE  /\ \A m \in Nat : n <= m => IsChanges(d, m)
         /\ \A c \in CommentId : IsChanges(With(d, c, n + 1), n + 1)
         /\ \A ids : IsChanges(Without(d, ids), n)
<1>1. \A m \in Nat : n <= m => IsChanges(d, m)
  BY DEF IsChanges
<1>2. \A c \in CommentId : IsChanges(With(d, c, n + 1), n + 1)
  <2> TAKE c \in CommentId
  <2>1. /\ DOMAIN With(d, c, n + 1) = DOMAIN d \cup {c}
        /\ \A i \in DOMAIN d \cup {c} :
             With(d, c, n + 1)[i] = IF i = c THEN n + 1 ELSE d[i]
    BY DEF With
  <2>2. \A i \in DOMAIN d \cup {c} : With(d, c, n + 1)[i] \in 1..n + 1
    BY <2>1 DEF IsChanges
  <2> QED BY <2>1, <2>2 DEF IsChanges, With
<1>3. \A ids : IsChanges(Without(d, ids), n)
  BY DEF IsChanges, Without
<1> QED BY <1>1, <1>2, <1>3

(* Nobody holding writeMu is a well-typed writer.                          *)
LEMMA FreeLemma == TimersOK => SnapshotOK(NoSnapshot) /\ (writer = Free => WriterOK)
<1> SUFFICES ASSUME TimersOK PROVE SnapshotOK(NoSnapshot) /\ (writer = Free => WriterOK)
  OBVIOUS
<1>1. IsChanges(NoChanges, seq.resolved)
  BY DEF IsChanges, NoChanges
<1>2. 0 \in 0..seq.write
  BY DEF TimersOK
<1>3. SnapshotOK(NoSnapshot)
  BY <1>1, <1>2, NoCommentsLemma DEF SnapshotOK, NoSnapshot
<1>4. writer = Free => WriterOK
  BY <1>3 DEF WriterOK, Free
<1> QED BY <1>3, <1>4

(* The initial state is well typed.                                        *)
LEMMA TypeInit == Init => TypeOK
<1> SUFFICES ASSUME Init PROVE TypeOK
  OBVIOUS
<1>1. DiskOK
  <2>1. CASE Preloaded = {}
    BY <2>1, NoCommentsLemma DEF Init, DiskOK, NoFile
  <2>2. CASE Preloaded # {}
    <3>1. (CHOOSE m \in Mtime : TRUE) \in Mtime
      BY MtimeAssumption
    <3>2. IsCommentSet([c \in Preloaded |-> [Fresh EXCEPT !.github = TRUE]])
      BY PreloadedAssumption DEF IsCommentSet, Fresh, Comment
    <3> QED BY <2>2, <3>1, <3>2 DEF Init, DiskOK
  <2> QED BY <2>1, <2>2
<1>2. MemoryOK /\ FlagsOK
  BY <1>1 DEF Init, DiskOK, MemoryOK, FlagsOK, IsChanges, NoChanges
<1>3. TimersOK
  BY DEF Init, TimersOK, NoGen
<1>4. WriterOK
  BY <1>3, FreeLemma DEF Init
<1>5. WatchOK
  BY NoCommentsLemma DEF Init, WatchOK, Idle
<1>6. HistOK
  BY PreloadedAssumption DEF Init, HistOK
<1> QED BY <1>1, <1>2, <1>3, <1>4, <1>5, <1>6 DEF TypeOK, Init

(* Scheduling a write keeps the counters and every number handed out.      *)
LEMMA ScheduleLemma ==
  ASSUME TypeOK, NEW n \in Nat, ScheduleWrite(n), UNCHANGED <<writer, fired>>
  PROVE  /\ TimersOK' /\ WriterOK' /\ pending' \in BOOLEAN
         /\ seq'.resolved = seq.resolved + n
         /\ n = 1 => \A c \in CommentId : IsChanges(With(dirty, c, seq.resolved + 1), seq'.resolved)
         /\ n = 0 => IsChanges(dirty, seq'.resolved)
<1>1. /\ seq.write \in Nat /\ seq.resolved \in Nat /\ seq.gen \in Nat \ {NoGen}
      /\ seq'.write = seq.write + 1 /\ seq'.resolved = seq.resolved + n
      /\ seq'.gen = seq.gen
      /\ seq' \in [write : Nat, resolved : Nat, gen : Nat \ {NoGen}]
  BY DEF TypeOK, TimersOK, ScheduleWrite
<1>2. TimersOK'
  BY <1>1 DEF TypeOK, TimersOK, ScheduleWrite, NoGen
<1>3. IsChanges(dirty, seq.resolved) /\ IsChanges(writer.snap.dirty, seq.resolved)
  BY DEF TypeOK, MemoryOK, WriterOK, SnapshotOK
<1>4. IsChanges(dirty, seq'.resolved) /\ IsChanges(writer.snap.dirty, seq'.resolved)
  BY <1>1, <1>3, ChangesLemma
<1>5. n = 1 => \A c \in CommentId : IsChanges(With(dirty, c, seq.resolved + 1), seq'.resolved)
  BY <1>1, <1>3, ChangesLemma
<1>6. WriterOK'
  BY <1>1, <1>4 DEF TypeOK, WriterOK, SnapshotOK
<1> QED BY <1>1, <1>2, <1>4, <1>5, <1>6 DEF ScheduleWrite

(* The reviewer's handlers keep the types.                                 *)
LEMMA TypeAddComment ==
  ASSUME TypeOK, NEW c \in CommentId, AddComment(c) PROVE TypeOK'
<1>1. TimersOK' /\ WriterOK' /\ pending' \in BOOLEAN /\ IsChanges(dirty, seq'.resolved)
  BY ScheduleLemma DEF AddComment
<1>2. MemoryOK'
  BY <1>1, WithLemma, NoCommentsLemma DEF TypeOK, AddComment, MemoryOK
<1>3. HistOK'
  BY DEF TypeOK, AddComment, HistOK
<1> QED BY <1>1, <1>2, <1>3 DEF TypeOK, AddComment, Act, FlagsOK, WatchOK, DiskOK

(* Deleting a comment keeps the types.                                     *)
LEMMA TypeDeleteComment ==
  ASSUME TypeOK, NEW c \in CommentId, DeleteComment(c) PROVE TypeOK'
<1>1. TimersOK' /\ WriterOK' /\ pending' \in BOOLEAN /\ IsChanges(dirty, seq'.resolved)
  BY ScheduleLemma DEF DeleteComment
<1>2. MemoryOK'
  BY <1>1, WithoutLemma DEF TypeOK, DeleteComment, MemoryOK
<1>3. HistOK'
  BY DEF TypeOK, DeleteComment, HistOK
<1> QED BY <1>1, <1>2, <1>3 DEF TypeOK, DeleteComment, Act, FlagsOK, WatchOK, DiskOK

(* Resolving or reopening a comment keeps the types.                       *)
LEMMA TypeSetCommentResolved ==
  ASSUME TypeOK, NEW c \in CommentId, NEW resolved \in BOOLEAN, SetCommentResolved(c, resolved)
  PROVE  TypeOK'
<1>1. /\ TimersOK' /\ WriterOK' /\ pending' \in BOOLEAN
      /\ IsChanges(With(dirty, c, seq.resolved + 1), seq'.resolved)
  BY ScheduleLemma DEF SetCommentResolved
<1>2. [mem[c] EXCEPT !.resolved = resolved] \in Comment
  BY DEF TypeOK, MemoryOK, SetCommentResolved, IsCommentSet, Comment
<1>3. MemoryOK'
  BY <1>1, <1>2, WithLemma DEF TypeOK, SetCommentResolved, MarkResolvedDirty, MemoryOK
<1> QED BY <1>1, <1>3 DEF TypeOK, SetCommentResolved, Act, FlagsOK, WatchOK, DiskOK, HistOK

(* Replying keeps the types.                                               *)
LEMMA TypeAddReply ==
  ASSUME TypeOK, NEW c \in CommentId, NEW r \in ReplyId, AddReply(c, r) PROVE TypeOK'
<1>1. /\ TimersOK' /\ WriterOK' /\ pending' \in BOOLEAN
      /\ IsChanges(With(dirty, c, seq.resolved + 1), seq'.resolved)
  BY ScheduleLemma DEF AddReply
<1>2. [mem[c] EXCEPT !.replies = @ \cup {r}, !.resolved = FALSE] \in Comment
  BY DEF TypeOK, MemoryOK, AddReply, IsCommentSet, Comment
<1>3. MemoryOK'
  BY <1>1, <1>2, WithLemma DEF TypeOK, AddReply, MarkResolvedDirty, MemoryOK
<1>4. HistOK'
  BY DEF TypeOK, AddReply, HistOK
<1> QED BY <1>1, <1>3, <1>4 DEF TypeOK, AddReply, Act, FlagsOK, WatchOK, DiskOK

(* Deleting a reply keeps the types.                                       *)
LEMMA TypeDeleteReply ==
  ASSUME TypeOK, NEW c \in CommentId, NEW r \in ReplyId, DeleteReply(c, r) PROVE TypeOK'
<1>1. TimersOK' /\ WriterOK' /\ pending' \in BOOLEAN /\ IsChanges(dirty, seq'.resolved)
  BY ScheduleLemma DEF DeleteReply
<1>2. [mem[c] EXCEPT !.replies = @ \ {r}] \in Comment
  BY DEF TypeOK, MemoryOK, DeleteReply, IsCommentSet, Comment
<1>3. MemoryOK'
  BY <1>1, <1>2, WithLemma DEF TypeOK, DeleteReply, MemoryOK
<1>4. HistOK'
  BY DEF TypeOK, DeleteReply, HistOK
<1> QED BY <1>1, <1>3, <1>4 DEF TypeOK, DeleteReply, Act, FlagsOK, WatchOK, DiskOK

(* Giving up writeMu keeps the types, and so does taking it.               *)
LEMMA ReleaseLemma ==
  ASSUME TypeOK, Release, TimersOK'
  PROVE  WriterOK' /\ WatchOK'
<1>1. IsChanges(NoChanges, seq'.resolved) /\ 0 \in 0..seq'.write
  BY DEF IsChanges, NoChanges, TimersOK
<1>2. WriterOK'
  BY <1>1, NoCommentsLemma DEF Release, WriterOK, Free, SnapshotOK, NoSnapshot
<1>3. WatchOK'
  BY NoCommentsLemma DEF TypeOK, Release, WatchOK, Idle
<1> QED BY <1>2, <1>3

(* Taking writeMu, by whoever it is, gives a well-typed writer.            *)
LEMMA TakeLemma ==
  ASSUME TypeOK, TimersOK', NEW pc \in {"check", "clear"},
         NEW by \in {"timer", "finish", "round", "clear"},
         writer' = [Free EXCEPT !.pc = pc, !.by = by]
  PROVE  WriterOK'
<1>1. IsChanges(NoChanges, seq'.resolved) /\ 0 \in 0..seq'.write
  BY DEF IsChanges, NoChanges, TimersOK
<1>2. /\ writer'.snap = NoSnapshot /\ writer'.adds = FALSE
      /\ writer'.pc = pc /\ writer'.by = by
      /\ DOMAIN writer' = {"pc", "by", "snap", "adds"}
  BY DEF Free
<1>3. SnapshotOK(NoSnapshot)'
  BY <1>1, NoCommentsLemma DEF SnapshotOK, NoSnapshot
<1> QED BY <1>2, <1>3 DEF WriterOK, SnapshotOK

(* Stopping the timer takes the next generation.                           *)
LEMMA StopLemma ==
  ASSUME TypeOK, StopTimer, fired' = fired
  PROVE  /\ TimersOK' /\ seq'.write = seq.write /\ seq'.resolved = seq.resolved
         /\ (UNCHANGED dirty => IsChanges(dirty', seq'.resolved))
<1>1. /\ seq.gen \in Nat \ {NoGen} /\ seq'.gen = seq.gen + 1
      /\ seq'.write = seq.write /\ seq'.resolved = seq.resolved
      /\ seq' \in [write : Nat, resolved : Nat, gen : Nat \ {NoGen}]
  BY DEF TypeOK, TimersOK, StopTimer, NoGen
<1>2. TimersOK'
  BY <1>1 DEF TypeOK, TimersOK, StopTimer, NoGen
<1> QED BY <1>1, <1>2 DEF TypeOK, MemoryOK

(* The steps of a save keep the types.                                     *)
LEMMA TypeTimerFires == TypeOK /\ TimerFires => TypeOK'
<1> SUFFICES ASSUME TypeOK, TimerFires PROVE TypeOK'
  OBVIOUS
<1>1. TimersOK'
  BY DEF TypeOK, TimerFires, TimersOK, NoGen
<1> QED
  BY <1>1 DEF TypeOK, TimerFires, memory, flags, MemoryOK, FlagsOK, WriterOK, SnapshotOK,
              WatchOK, DiskOK, HistOK

(* A timer callback, current or overtaken, keeps the types.                *)
LEMMA TypeTimerCallback ==
  ASSUME TypeOK, NEW gen, TimerCallback(gen) PROVE TypeOK'
<1>1. TimersOK'
  BY DEF TypeOK, TimerCallback, TimersOK
<1>2. WriterOK'
  <2>1. CASE gen = seq.gen
    BY <1>1, <2>1, TakeLemma DEF TimerCallback
  <2>2. CASE gen # seq.gen
    BY <2>2 DEF TypeOK, TimerCallback, WriterOK, SnapshotOK
  <2> QED BY <2>1, <2>2
<1> QED
  BY <1>1, <1>2 DEF TypeOK, TimerCallback, memory, flags, MemoryOK, FlagsOK, WatchOK,
                    DiskOK, HistOK

(* The save of /api/finish starts well typed.                              *)
LEMMA TypeFinish == TypeOK /\ Finish => TypeOK'
<1> SUFFICES ASSUME TypeOK, Finish PROVE TypeOK'
  OBVIOUS
<1>1. TimersOK' /\ IsChanges(dirty', seq'.resolved)
  BY StopLemma DEF Finish, SyncWriteFiles, memory
<1>2. WriterOK'
  BY <1>1, TakeLemma DEF Finish, SyncWriteFiles
<1> QED
  BY <1>1, <1>2 DEF TypeOK, Finish, Act, memory, flags, MemoryOK, FlagsOK, WatchOK,
                    DiskOK, HistOK

(* Looking for a removed file keeps the types.                             *)
LEMMA TypeCheckExternalDeletion == TypeOK /\ CheckExternalDeletion => TypeOK'
BY DEF TypeOK, CheckExternalDeletion, WriterTo, memory, flags, timers, MemoryOK, FlagsOK,
       TimersOK, WriterOK, SnapshotOK, WatchOK, DiskOK, HistOK

(* Adopting the replies of the file keeps the types.                       *)
LEMMA TypeMergeReplies == TypeOK /\ MergeReplies => TypeOK'
<1> SUFFICES ASSUME TypeOK, MergeReplies PROVE TypeOK'
  OBVIOUS
<1>1. IsCommentSet(mem')
  BY AddNewRepliesLemma DEF TypeOK, MemoryOK, DiskOK, MergeReplies
<1>2. WriterOK'
  BY DEF TypeOK, MergeReplies, WriterTo, timers, WriterOK, SnapshotOK
<1> QED
  BY <1>1, <1>2 DEF TypeOK, MergeReplies, flags, timers, MemoryOK, FlagsOK, TimersOK,
                    WatchOK, DiskOK, HistOK

(* The snapshot is a well-typed copy of memory.                            *)
LEMMA TypeSnapshotForWrite == TypeOK /\ SnapshotForWrite => TypeOK'
<1> SUFFICES ASSUME TypeOK, SnapshotForWrite PROVE TypeOK'
  OBVIOUS
<1>1. WriterOK'
  <2>1. /\ DOMAIN writer' = DOMAIN writer /\ writer'.pc = "save"
        /\ writer'.by = writer.by /\ writer'.adds = writer.adds
        /\ writer'.snap = [mem |-> mem, round |-> round, tomb |-> tomb, dirty |-> dirty,
                           queue |-> queue, loaded |-> loaded, write |-> seq.write]
    BY DEF TypeOK, WriterOK, SnapshotForWrite
  <2>2. seq.write \in 0..seq.write
    BY DEF TypeOK, TimersOK
  <2> QED
    BY <2>1, <2>2 DEF TypeOK, SnapshotForWrite, WriterOK, SnapshotOK, MemoryOK
<1> QED
  BY <1>1 DEF TypeOK, SnapshotForWrite, memory, flags, timers, MemoryOK, FlagsOK, TimersOK,
              WatchOK, DiskOK, HistOK

(* A save leaves a well-typed file, or none.                               *)
LEMMA TypeSaveReviewFile == TypeOK /\ SaveReviewFile => TypeOK'
<1> SUFFICES ASSUME TypeOK, SaveReviewFile PROVE TypeOK'
  OBVIOUS
<1> DEFINE snap == writer.snap
           built == BuildComments(snap.mem, disk.comments, snap.tomb)
           kept == ReconcileDeletes(snap.queue, disk.deletes, snap.loaded)
<1>1. IsCommentSet(built)
  BY BuildLemma DEF TypeOK, WriterOK, SnapshotOK, DiskOK
<1>2. kept \subseteq CommentId
  BY DEF TypeOK, WriterOK, SnapshotOK, ReconcileDeletes
<1>3. disk' = NoFile \/ disk' = [mtime |-> NewMtime, comments |-> built,
                                 round |-> snap.round, deletes |-> kept]
  BY DEF SaveReviewFile
<1>4. DiskOK'
  <2>1. CASE disk' = NoFile
    BY <2>1, NoCommentsLemma DEF DiskOK, NoFile
  <2>2. CASE disk' # NoFile
    <3>1. snap.round \in Nat
      BY DEF TypeOK, WriterOK, SnapshotOK
    <3> HIDE DEF built, kept, snap
    <3> QED BY <1>1, <1>2, <1>3, <2>2, <3>1, NewMtimeLemma DEF DiskOK
  <2> QED BY <2>1, <2>2
<1>5. WriterOK'
  BY DEF TypeOK, SaveReviewFile, timers, WriterOK, SnapshotOK, DiskAdds
<1>6. HistOK'
  BY DEF TypeOK, SaveReviewFile, HistOK
<1> QED
  BY <1>4, <1>5, <1>6 DEF TypeOK, SaveReviewFile, memory, flags, timers, MemoryOK, FlagsOK,
                          TimersOK, WatchOK

(* A failed save keeps the types.                                          *)
LEMMA TypeSaveFails == TypeOK /\ SaveFails => TypeOK'
<1> SUFFICES ASSUME TypeOK, SaveFails PROVE TypeOK'
  OBVIOUS
<1>1. TimersOK'
  BY DEF TypeOK, SaveFails, timers, TimersOK
<1>2. WriterOK' /\ WatchOK'
  BY <1>1, ReleaseLemma DEF SaveFails
<1>3. HistOK'
  BY DEF TypeOK, SaveFails, HistOK
<1> QED
  BY <1>1, <1>2, <1>3 DEF TypeOK, SaveFails, Act, memory, flags, MemoryOK, FlagsOK, DiskOK

(* An acknowledgement only drops pending changes.                          *)
LEMMA AcknowledgeLemma ==
  ASSUME TypeOK, AcknowledgeSnapshot, UNCHANGED seq
  PROVE  /\ pending' \in BOOLEAN /\ tomb' \subseteq CommentId
         /\ IsChanges(dirty', seq'.resolved)
<1>1. IsChanges(dirty, seq.resolved) /\ seq.resolved \in Nat
  BY DEF TypeOK, MemoryOK, TimersOK
<1>2. \E ids : dirty' = Without(dirty, ids)
  BY DEF AcknowledgeSnapshot
<1>3. IsChanges(dirty', seq'.resolved)
  BY <1>1, <1>2, ChangesLemma
<1> QED BY <1>3 DEF TypeOK, FlagsOK, MemoryOK, AcknowledgeSnapshot

(* Acknowledging a save keeps the types.                                   *)
LEMMA TypeAcknowledgeWrite == TypeOK /\ AcknowledgeWrite => TypeOK'
<1> SUFFICES ASSUME TypeOK, AcknowledgeWrite PROVE TypeOK'
  OBVIOUS
<1>1. TimersOK' /\ UNCHANGED seq
  BY DEF TypeOK, AcknowledgeWrite, timers, TimersOK
<1>2. WriterOK' /\ WatchOK'
  BY <1>1, ReleaseLemma DEF AcknowledgeWrite
<1>3. MemoryOK' /\ FlagsOK'
  <2>1. CASE Missing
    BY <2>1 DEF TypeOK, AcknowledgeWrite, memory, flags, MemoryOK, FlagsOK
  <2>2. CASE ~Missing
    <3>1. AcknowledgeSnapshot
      BY <2>2 DEF AcknowledgeWrite
    <3>2. /\ pending' \in BOOLEAN /\ tomb' \subseteq CommentId
          /\ IsChanges(dirty', seq'.resolved)
      BY <1>1, <3>1, AcknowledgeLemma
    <3>3. queue' \subseteq CommentId /\ loaded' \subseteq CommentId
          /\ last' \in Mtime \cup {NoMtime} /\ unloaded' \in BOOLEAN
      BY <2>2 DEF TypeOK, AcknowledgeWrite, DiskOK, WriterOK
    <3> QED BY <2>2, <3>2, <3>3 DEF TypeOK, AcknowledgeWrite, MemoryOK, FlagsOK
  <2> QED BY <2>1, <2>2
<1> QED
  BY <1>1, <1>2, <1>3 DEF TypeOK, AcknowledgeWrite, timers, DiskOK, HistOK

(* Acknowledging an empty review keeps the types.                          *)
LEMMA TypeMarkEmptyWritten == TypeOK /\ MarkEmptyWritten => TypeOK'
<1> SUFFICES ASSUME TypeOK, MarkEmptyWritten PROVE TypeOK'
  OBVIOUS
<1>1. TimersOK' /\ UNCHANGED seq
  BY DEF TypeOK, MarkEmptyWritten, timers, TimersOK
<1>2. WriterOK' /\ WatchOK'
  BY <1>1, ReleaseLemma DEF MarkEmptyWritten
<1>3. /\ pending' \in BOOLEAN /\ tomb' \subseteq CommentId
      /\ IsChanges(dirty', seq'.resolved)
  BY <1>1, AcknowledgeLemma DEF MarkEmptyWritten
<1>4. MemoryOK' /\ FlagsOK'
  BY <1>3 DEF TypeOK, MarkEmptyWritten, MemoryOK, FlagsOK
<1> QED
  BY <1>1, <1>2, <1>4 DEF TypeOK, MarkEmptyWritten, DiskOK, HistOK

(* Wiping and clearing leave no comments.                                  *)
LEMMA WipeLemma ==
  ASSUME TypeOK, NEW raced \in BOOLEAN, ClearAllCommentData(raced), UNCHANGED roundChan
  PROVE  MemoryOK' /\ FlagsOK' /\ HistOK'
<1>1. IsChanges(NoChanges, seq'.resolved)
  BY DEF IsChanges, NoChanges
<1>2. MemoryOK'
  BY <1>1, NoCommentsLemma DEF TypeOK, ClearAllCommentData, MemoryOK
<1>3. HistOK'
  BY DEF TypeOK, ClearAllCommentData, HistOK
<1> QED BY <1>2, <1>3 DEF TypeOK, ClearAllCommentData, FlagsOK

(* A writer that finds the file gone wipes memory to well-typed values.    *)
LEMMA TypeWriterWipes == TypeOK /\ WriterWipes => TypeOK'
<1> SUFFICES ASSUME TypeOK, WriterWipes PROVE TypeOK'
  OBVIOUS
<1>1. TimersOK'
  BY DEF TypeOK, WriterWipes, timers, TimersOK
<1>2. WriterOK' /\ WatchOK'
  BY <1>1, ReleaseLemma DEF WriterWipes
<1>3. MemoryOK' /\ FlagsOK' /\ HistOK'
  BY WipeLemma DEF WriterWipes
<1> QED BY <1>1, <1>2, <1>3 DEF TypeOK, WriterWipes, DiskOK

(* Clearing memory keeps the types.                                        *)
LEMMA TypeClearMemory == TypeOK /\ ClearMemory => TypeOK'
<1> SUFFICES ASSUME TypeOK, ClearMemory PROVE TypeOK'
  OBVIOUS
<1>1. TimersOK' /\ IsChanges(dirty', seq'.resolved)
  BY StopLemma DEF ClearMemory
<1>2. WriterOK'
  BY <1>1, TakeLemma DEF ClearMemory
<1>3. MemoryOK' /\ FlagsOK'
  BY <1>1, NoCommentsLemma DEF TypeOK, ClearMemory, MemoryOK, FlagsOK
<1>4. HistOK'
  BY DEF TypeOK, ClearMemory, HistOK
<1> QED
  BY <1>1, <1>2, <1>3, <1>4 DEF TypeOK, ClearMemory, Act, WatchOK, DiskOK

(* Removing the folder keeps the types.                                    *)
LEMMA TypeClearReviewFolder == TypeOK /\ ClearReviewFolder => TypeOK'
<1> SUFFICES ASSUME TypeOK, ClearReviewFolder PROVE TypeOK'
  OBVIOUS
<1>1. TimersOK'
  BY DEF TypeOK, ClearReviewFolder, timers, TimersOK
<1>2. WriterOK' /\ WatchOK'
  BY <1>1, ReleaseLemma DEF ClearReviewFolder
<1>3. DiskOK'
  BY NoCommentsLemma DEF ClearReviewFolder, DiskOK, NoFile
<1> QED
  BY <1>1, <1>2, <1>3 DEF TypeOK, ClearReviewFolder, memory, flags, MemoryOK, FlagsOK, HistOK

(* The watcher's steps keep the types.                                     *)
LEMMA TypeWatchStats == TypeOK /\ WatchStats => TypeOK'
BY NoCommentsLemma DEF TypeOK, WatchStats, memory, flags, timers, MemoryOK, FlagsOK, TimersOK,
       WriterOK, SnapshotOK, WatchOK, Idle, DiskOK, HistOK

(* The watcher's comparison keeps the types.                               *)
LEMMA TypeWatchCompares == TypeOK /\ WatchCompares => TypeOK'
BY NoCommentsLemma DEF TypeOK, WatchCompares, memory, flags, timers, MemoryOK, FlagsOK,
       TimersOK, WriterOK, SnapshotOK, WatchOK, Idle, DiskOK, HistOK

(* The watcher reads a well-typed file.                                    *)
LEMMA TypeWatchReads == TypeOK /\ WatchReads => TypeOK'
<1> SUFFICES ASSUME TypeOK, WatchReads PROVE TypeOK'
  OBVIOUS
<1>1. WatchOK'
  BY NoCommentsLemma DEF TypeOK, WatchReads, WatchOK, Idle, DiskOK
<1> QED
  BY <1>1 DEF TypeOK, WatchReads, memory, flags, timers, MemoryOK, FlagsOK, TimersOK,
              WriterOK, SnapshotOK, DiskOK, HistOK

(* A reload leaves memory well typed.                                      *)
LEMMA TypeWatchMerges == TypeOK /\ WatchMerges => TypeOK'
<1> SUFFICES ASSUME TypeOK, WatchMerges PROVE TypeOK'
  OBVIOUS
<1>1. IsCommentSet(mem') /\ tomb' \subseteq CommentId
  BY MergeFromDiskLemma DEF TypeOK, WatchMerges, MemoryOK, WatchOK
<1>2. MemoryOK' /\ FlagsOK'
  BY <1>1 DEF TypeOK, WatchMerges, MemoryOK, FlagsOK, WatchOK
<1>3. HistOK'
  BY DEF TypeOK, WatchMerges, HistOK, FlagsOK, Outdated
<1>4. WatchOK'
  BY NoCommentsLemma DEF WatchMerges, WatchOK, Idle
<1> QED
  BY <1>2, <1>3, <1>4 DEF TypeOK, WatchMerges, timers, TimersOK, WriterOK, SnapshotOK, DiskOK

(* A watcher that finds the file gone wipes memory to well-typed values.   *)
LEMMA TypeWatchWipes == TypeOK /\ WatchWipes => TypeOK'
<1> SUFFICES ASSUME TypeOK, WatchWipes PROVE TypeOK'
  OBVIOUS
<1>1. Outdated \in BOOLEAN
  BY DEF TypeOK, FlagsOK, Outdated
<1>2. MemoryOK' /\ FlagsOK' /\ HistOK'
  BY <1>1, WipeLemma DEF WatchWipes
<1>3. WatchOK'
  BY NoCommentsLemma DEF WatchWipes, WatchOK, Idle
<1> QED
  BY <1>2, <1>3 DEF TypeOK, WatchWipes, timers, TimersOK, WriterOK, SnapshotOK, DiskOK

(* A round signal keeps the types.                                         *)
LEMMA TypeSignalRoundComplete == TypeOK /\ SignalRoundComplete => TypeOK'
<1> SUFFICES ASSUME TypeOK, SignalRoundComplete PROVE TypeOK'
  OBVIOUS
<1>1. /\ TimersOK' /\ IsChanges(dirty', seq'.resolved)
      /\ seq'.write = seq.write /\ seq'.resolved = seq.resolved
  BY StopLemma DEF SignalRoundComplete
<1>2. MemoryOK' /\ FlagsOK'
  BY <1>1, LevelLemma DEF TypeOK, SignalRoundComplete, MemoryOK, FlagsOK
<1>3. HistOK'
  BY DEF TypeOK, SignalRoundComplete, HistOK
<1> QED
  BY <1>1, <1>2, <1>3 DEF TypeOK, SignalRoundComplete, Act, WriterOK, SnapshotOK, WatchOK, DiskOK

(* A round completion reads a well-typed file.                             *)
LEMMA TypeRoundReads == TypeOK /\ RoundReads => TypeOK'
<1> SUFFICES ASSUME TypeOK, RoundReads PROVE TypeOK'
  OBVIOUS
<1>1. WatchOK'
  BY DEF TypeOK, RoundReads, WatchOK, DiskOK
<1>2. MemoryOK' /\ FlagsOK'
  BY DEF TypeOK, RoundReads, memory, flags, MemoryOK, FlagsOK
<1> QED
  BY <1>1, <1>2 DEF TypeOK, RoundReads, timers, TimersOK, WriterOK, SnapshotOK, DiskOK, HistOK

(* Taking over the review's comments keeps the types.                      *)
LEMMA TypeRoundLoads == TypeOK /\ RoundLoads => TypeOK'
<1> SUFFICES ASSUME TypeOK, RoundLoads PROVE TypeOK'
  OBVIOUS
<1>1. IsCommentSet(mem') /\ last' \in Mtime \cup {NoMtime}
  <2>1. IsCommentSet(FileLevel(mem)) /\ IsCommentSet(ReviewOnly(watch.comments))
    BY LevelLemma DEF TypeOK, MemoryOK, WatchOK
  <2>2. IsCommentSet(Override(FileLevel(mem), ReviewOnly(watch.comments)))
    BY <2>1, OverrideLemma
  <2> QED BY <2>2 DEF TypeOK, RoundLoads, MemoryOK, FlagsOK, WatchOK
<1>2. MemoryOK' /\ FlagsOK'
  BY <1>1 DEF TypeOK, RoundLoads, MemoryOK, FlagsOK
<1>3. HistOK'
  BY DEF TypeOK, RoundLoads, HistOK
<1>4. WatchOK'
  BY DEF TypeOK, RoundLoads, WatchTo, WatchOK
<1> QED
  BY <1>2, <1>3, <1>4 DEF TypeOK, RoundLoads, timers, TimersOK, WriterOK, SnapshotOK, DiskOK

(* Carrying comments forward keeps the types.                              *)
LEMMA TypeRoundCarries == TypeOK /\ RoundCarries => TypeOK'
<1> SUFFICES ASSUME TypeOK, RoundCarries PROVE TypeOK'
  OBVIOUS
<1>1. IsCommentSet(mem')
  BY LevelLemma, OverrideLemma DEF TypeOK, RoundCarries, CarryForward, MemoryOK, WatchOK
<1>2. WatchOK'
  BY DEF TypeOK, RoundCarries, WatchTo, WatchOK
<1> QED
  BY <1>1, <1>2 DEF TypeOK, RoundCarries, flags, timers, MemoryOK, FlagsOK, TimersOK,
                    WriterOK, SnapshotOK, DiskOK, HistOK

(* Restoring orphaned comments keeps the types.                            *)
LEMMA TypeRoundRestores == TypeOK /\ RoundRestores => TypeOK'
<1> SUFFICES ASSUME TypeOK, RoundRestores PROVE TypeOK'
  OBVIOUS
<1>1. IsCommentSet(Override(mem, FileLevel(Without(disk.comments, tomb))))
  BY WithoutLemma, LevelLemma, OverrideLemma DEF TypeOK, MemoryOK, DiskOK
<1>2. IsCommentSet(mem')
  BY <1>1 DEF TypeOK, RoundRestores, MemoryOK
<1>3. WatchOK'
  BY DEF TypeOK, RoundRestores, WatchTo, WatchOK
<1> QED
  BY <1>2, <1>3 DEF TypeOK, RoundRestores, flags, timers, MemoryOK, FlagsOK, TimersOK,
                    WriterOK, SnapshotOK, DiskOK, HistOK

(* The next round is a number.                                             *)
LEMMA TypeRoundAdvances == TypeOK /\ RoundAdvances => TypeOK'
BY DEF TypeOK, RoundAdvances, WatchTo, flags, timers, MemoryOK, FlagsOK, TimersOK,
       WriterOK, SnapshotOK, WatchOK, DiskOK, HistOK

(* The save of a round completion starts well typed.                       *)
LEMMA TypePersist == TypeOK /\ PersistAfterRoundComplete => TypeOK'
<1> SUFFICES ASSUME TypeOK, PersistAfterRoundComplete PROVE TypeOK'
  OBVIOUS
<1>1. TimersOK' /\ IsChanges(dirty', seq'.resolved)
  BY StopLemma DEF PersistAfterRoundComplete, SyncWriteFiles, memory
<1>2. WriterOK'
  BY <1>1, TakeLemma DEF PersistAfterRoundComplete, SyncWriteFiles
<1>3. WatchOK'
  BY DEF TypeOK, PersistAfterRoundComplete, WatchTo, WatchOK
<1> QED
  BY <1>1, <1>2, <1>3 DEF TypeOK, PersistAfterRoundComplete, memory, flags, MemoryOK,
                          FlagsOK, DiskOK, HistOK

(* What other processes do keeps the types.                                *)
LEMMA AgentSavesLemma ==
  ASSUME TypeOK, NEW cs, IsCommentSet(cs), AgentSaves(cs)
  PROVE  DiskOK' /\ disk'.comments = cs
BY NewMtimeLemma DEF TypeOK, AgentSaves, DiskOK

(* A comment written by another process keeps the types.                   *)
LEMMA TypeAgentComments ==
  ASSUME TypeOK, NEW c \in CommentId, AgentComments(c) PROVE TypeOK'
<1>1. DiskOK'
  BY AgentSavesLemma, WithLemma, NoCommentsLemma DEF TypeOK, AgentComments, DiskOK
<1>2. HistOK'
  BY DEF TypeOK, AgentComments, HistOK
<1> QED
  BY <1>1, <1>2 DEF TypeOK, AgentComments, Act, memory, flags, timers, MemoryOK, FlagsOK,
                    TimersOK, WriterOK, SnapshotOK, WatchOK

(* A reply written by another process keeps the types.                     *)
LEMMA TypeAgentReplies ==
  ASSUME TypeOK, NEW c \in CommentId, NEW r \in ReplyId, NEW resolve \in BOOLEAN,
         AgentReplies(c, r, resolve)
  PROVE  TypeOK'
<1>1. [disk.comments[c] EXCEPT !.replies = @ \cup {r}, !.resolved = resolve] \in Comment
  BY DEF TypeOK, DiskOK, AgentReplies, IsCommentSet, Comment
<1>2. DiskOK'
  BY <1>1, AgentSavesLemma, WithLemma DEF TypeOK, AgentReplies, DiskOK
<1>3. HistOK'
  <2>1. {<<c, r>>} \subseteq CommentId \X ReplyId
    OBVIOUS
  <2> QED BY <2>1 DEF TypeOK, AgentReplies, HistOK
<1> QED
  BY <1>2, <1>3 DEF TypeOK, AgentReplies, Act, memory, flags, timers, MemoryOK, FlagsOK,
                    TimersOK, WriterOK, SnapshotOK, WatchOK

(* Removing the file from outside keeps the types.                         *)
LEMMA TypeFolderCleared == TypeOK /\ (FolderCleared \/ FileRemoved) => TypeOK'
<1> SUFFICES ASSUME TypeOK, FolderCleared \/ FileRemoved PROVE TypeOK'
  OBVIOUS
<1>1. DiskOK'
  BY NoCommentsLemma DEF FolderCleared, FileRemoved, DiskOK, NoFile
<1>2. HistOK'
  BY DEF TypeOK, FolderCleared, FileRemoved, HistOK
<1> QED
  BY <1>1, <1>2 DEF TypeOK, FolderCleared, FileRemoved, Act, memory, flags, timers,
                    MemoryOK, FlagsOK, TimersOK, WriterOK, SnapshotOK, WatchOK

(* A new daemon starts well typed on the file it finds.                    *)
LEMMA TypeRestart == TypeOK /\ Restart => TypeOK'
<1> SUFFICES ASSUME TypeOK, Restart PROVE TypeOK'
  OBVIOUS
<1>1. TimersOK'
  BY DEF Restart, TimersOK, NoGen
<1>2. IsChanges(NoChanges, seq'.resolved) /\ 0 \in 0..seq'.write
  BY DEF Restart, IsChanges, NoChanges
<1>3. MemoryOK' /\ FlagsOK'
  BY <1>2 DEF TypeOK, Restart, MemoryOK, FlagsOK, DiskOK
<1>4. WriterOK'
  BY <1>2, NoCommentsLemma DEF Restart, WriterOK, Free, SnapshotOK, NoSnapshot
<1>5. WatchOK'
  BY NoCommentsLemma DEF Restart, WatchOK, Idle
<1>6. HistOK'
  BY DEF TypeOK, Restart, HistOK
<1> QED
  BY <1>1, <1>3, <1>4, <1>5, <1>6 DEF TypeOK, Restart, Act, DiskOK

(* Every step keeps the types.                                             *)
LEMMA TypeNext == TypeOK /\ [Next]_vars => TypeOK'
<1> SUFFICES ASSUME TypeOK, [Next]_vars PROVE TypeOK'
  OBVIOUS
<1>1. CASE Reviewer
  BY <1>1, TypeAddComment, TypeDeleteComment, TypeSetCommentResolved, TypeAddReply,
     TypeDeleteReply DEF Reviewer
<1>2. CASE TimerFires \/ Writer \/ Finish \/ SaveFails
  BY <1>2, TypeTimerFires, TypeTimerCallback, TypeFinish, TypeCheckExternalDeletion,
     TypeMergeReplies, TypeSnapshotForWrite, TypeSaveReviewFile, TypeSaveFails,
     TypeAcknowledgeWrite, TypeMarkEmptyWritten, TypeWriterWipes DEF Writer
<1>3. CASE ClearMemory \/ ClearReviewFolder
  BY <1>3, TypeClearMemory, TypeClearReviewFolder
<1>4. CASE Watcher \/ SignalRoundComplete
  BY <1>4, TypeWatchStats, TypeWatchCompares, TypeWatchReads, TypeWatchMerges, TypeWatchWipes,
     TypeSignalRoundComplete, TypeRoundReads, TypeRoundLoads, TypeRoundCarries,
     TypeRoundRestores, TypeRoundAdvances, TypePersist DEF Watcher
<1>5. CASE Agents \/ FolderCleared \/ FileRemoved \/ Restart
  BY <1>5, TypeAgentComments, TypeAgentReplies, TypeFolderCleared, TypeRestart DEF Agents
<1>6. CASE UNCHANGED vars
  BY <1>6 DEF TypeOK, vars, memory, flags, timers, MemoryOK, FlagsOK, TimersOK, WriterOK,
              SnapshotOK, WatchOK, DiskOK, HistOK
<1> QED BY <1>1, <1>2, <1>3, <1>4, <1>5, <1>6 DEF Next

(* The types hold in every state, and with them the numbering of timers,   *)
(* snapshots and resolved marks.                                           *)
THEOREM TypeCorrect == Spec => []TypeOK
<1>1. Init => TypeOK
  BY TypeInit
<1>2. TypeOK /\ [Next]_vars => TypeOK'
  BY TypeNext
<1> QED BY <1>1, <1>2, PTL DEF Spec
-----------------------------------------------------------------------------
(* What a save may write and drop depends on where its comments and        *)
(* tombstones come from: every copy of a comment, in memory, in a snapshot *)
(* or in the watcher's hands, is of one that somebody made, and every      *)
(* tombstone records a deletion by the reviewer.                           *)
Provenance ==
  /\ DOMAIN mem \subseteq hist.born /\ DOMAIN disk.comments \subseteq hist.born
  /\ DOMAIN watch.comments \subseteq hist.born
  /\ DOMAIN writer.snap.mem \subseteq hist.born
  /\ tomb \subseteq hist.deleted /\ writer.snap.tomb \subseteq hist.deleted

(* It holds at the start.                                                  *)
LEMMA ProvenanceInit == Init => Provenance
BY NoCommentsLemma DEF Init, Provenance, NoFile, Idle, Free, NoSnapshot

(* The reviewer's steps keep it.                                           *)
LEMMA ProvenanceReviewer == TypeOK /\ Provenance /\ Reviewer => Provenance'
<1> SUFFICES ASSUME TypeOK, Provenance, Reviewer PROVE Provenance'
  OBVIOUS
<1>1. UNCHANGED <<disk, watch, writer>>
  BY DEF Reviewer, AddComment, DeleteComment, SetCommentResolved, AddReply, DeleteReply
<1>2. ASSUME NEW c \in CommentId, AddComment(c) PROVE Provenance'
  <2>1. DOMAIN mem' = DOMAIN mem \cup {c}
    BY <1>2, WithLemma, NoCommentsLemma DEF TypeOK, MemoryOK, AddComment
  <2>2. hist'.born = hist.born \cup {c} /\ hist'.deleted = hist.deleted /\ tomb' = tomb
    BY <1>2 DEF TypeOK, HistOK, AddComment
  <2> QED BY <1>1, <2>1, <2>2 DEF Provenance
<1>3. ASSUME NEW c \in CommentId, DeleteComment(c) PROVE Provenance'
  <2>1. DOMAIN mem' = DOMAIN mem \ {c}
    BY <1>3, WithoutLemma DEF TypeOK, MemoryOK, DeleteComment
  <2>2. /\ hist'.born = hist.born /\ hist'.deleted = hist.deleted \cup {c}
        /\ tomb' = tomb \cup {c}
    BY <1>3 DEF TypeOK, HistOK, DeleteComment
  <2> QED BY <1>1, <2>1, <2>2 DEF Provenance
<1>4. ASSUME NEW c \in CommentId, NEW resolved \in BOOLEAN, SetCommentResolved(c, resolved)
      PROVE  Provenance'
  BY <1>1, <1>4 DEF SetCommentResolved, With, Provenance
<1>5. ASSUME NEW c \in CommentId, NEW r \in ReplyId, AddReply(c, r) \/ DeleteReply(c, r)
      PROVE  Provenance'
  <2>1. DOMAIN mem' = DOMAIN mem /\ tomb' = tomb
    BY <1>5 DEF AddReply, DeleteReply, With
  <2>2. hist'.born = hist.born /\ hist'.deleted = hist.deleted
    BY <1>5 DEF TypeOK, HistOK, AddReply, DeleteReply
  <2> QED BY <1>1, <2>1, <2>2 DEF Provenance
<1> QED BY <1>2, <1>3, <1>4, <1>5 DEF Reviewer

(* What becomes of the writer's snapshot and of the watcher's copy.        *)
LEMMA ReleaseProvenance ==
  ASSUME Provenance, Release
  PROVE  /\ DOMAIN writer'.snap.mem = {} /\ writer'.snap.tomb = {}
         /\ DOMAIN watch'.comments \subseteq hist.born
BY NoCommentsLemma DEF Provenance, Release, Free, NoSnapshot, Idle

(* The steps of a save and of clearing keep it.                            *)
LEMMA ProvenanceWriter ==
  TypeOK /\ Provenance
    /\ (Writer \/ TimerFires \/ Finish \/ SaveFails \/ ClearMemory \/ ClearReviewFolder)
  => Provenance'
<1> SUFFICES ASSUME TypeOK, Provenance,
                    Writer \/ TimerFires \/ Finish \/ SaveFails \/ ClearMemory \/ ClearReviewFolder
             PROVE  Provenance'
  OBVIOUS
<1>1. ASSUME NEW gen, TimerCallback(gen) PROVE Provenance'
  BY <1>1, NoCommentsLemma DEF TimerCallback, memory, Provenance, Free, NoSnapshot
<1>2. CASE CheckExternalDeletion
  BY <1>2 DEF TypeOK, WriterOK, CheckExternalDeletion, WriterTo, memory, Provenance
<1>3. CASE MergeReplies
  <2>1. DOMAIN mem' = DOMAIN mem
    BY <1>3, AddNewRepliesLemma DEF TypeOK, MemoryOK, DiskOK, MergeReplies
  <2>2. writer'.snap = writer.snap
    BY <1>3 DEF TypeOK, WriterOK, MergeReplies, WriterTo
  <2> QED BY <1>3, <2>1, <2>2 DEF MergeReplies, Provenance
<1>4. CASE SnapshotForWrite
  <2>1. writer'.snap.mem = mem /\ writer'.snap.tomb = tomb
    BY <1>4 DEF TypeOK, WriterOK, SnapshotForWrite
  <2> QED BY <1>4, <2>1 DEF SnapshotForWrite, memory, Provenance
<1>5. CASE SaveReviewFile
  <2> DEFINE built == BuildComments(writer.snap.mem, disk.comments, writer.snap.tomb)
  <2>1. DOMAIN built \subseteq DOMAIN writer.snap.mem \cup DOMAIN disk.comments
    BY BuildLemma DEF TypeOK, WriterOK, SnapshotOK, DiskOK
  <2>2. disk'.comments \in {built, NoComments}
    BY <1>5 DEF SaveReviewFile, NoFile
  <2>3. writer'.snap = writer.snap
    BY <1>5 DEF TypeOK, WriterOK, SaveReviewFile
  <2>4. hist'.born = hist.born /\ hist'.deleted = hist.deleted
    BY <1>5 DEF TypeOK, HistOK, SaveReviewFile
  <2> HIDE DEF built
  <2> QED
    BY <1>5, <2>1, <2>2, <2>3, <2>4, NoCommentsLemma DEF SaveReviewFile, memory, Provenance
<1>6. CASE AcknowledgeWrite \/ MarkEmptyWritten
  <2>1. tomb' \subseteq tomb
    BY <1>6 DEF AcknowledgeWrite, MarkEmptyWritten, AcknowledgeSnapshot, memory
  <2>2. UNCHANGED <<mem, disk, hist>> /\ Release
    BY <1>6 DEF AcknowledgeWrite, MarkEmptyWritten, memory
  <2> QED BY <2>1, <2>2, ReleaseProvenance DEF Provenance
<1>7. CASE WriterWipes
  <2>1. DOMAIN mem' = {} /\ tomb' = {}
    BY <1>7, NoCommentsLemma DEF WriterWipes, ClearAllCommentData
  <2>2. hist'.born = hist.born /\ hist'.deleted = hist.deleted
    BY <1>7 DEF TypeOK, HistOK, WriterWipes, ClearAllCommentData
  <2> QED BY <1>7, <2>1, <2>2, ReleaseProvenance DEF WriterWipes, Provenance
<1>8. CASE TimerFires
  BY <1>8 DEF TimerFires, memory, Provenance
<1>9. CASE Finish
  BY <1>9, NoCommentsLemma DEF Finish, SyncWriteFiles, memory, Provenance, Free, NoSnapshot
<1>10. CASE SaveFails
  BY <1>10, ReleaseProvenance DEF SaveFails, memory, Provenance
<1>11. CASE ClearMemory
  <2>1. hist'.born = hist.born /\ hist'.deleted = hist.deleted
    BY <1>11 DEF TypeOK, HistOK, ClearMemory
  <2>2. writer'.snap = NoSnapshot
    BY <1>11 DEF ClearMemory, Free
  <2> QED BY <1>11, <2>1, <2>2, NoCommentsLemma DEF ClearMemory, Provenance, NoSnapshot
<1>12. CASE ClearReviewFolder
  BY <1>12, ReleaseProvenance, NoCommentsLemma DEF ClearReviewFolder, NoFile, memory, Provenance
<1> QED
  BY <1>1, <1>2, <1>3, <1>4, <1>5, <1>6, <1>7, <1>8, <1>9, <1>10, <1>11, <1>12 DEF Writer

(* The watcher's steps keep it.                                            *)
LEMMA ProvenanceWatcher ==
  TypeOK /\ Provenance /\ (Watcher \/ SignalRoundComplete) => Provenance'
<1> SUFFICES ASSUME TypeOK, Provenance, Watcher \/ SignalRoundComplete PROVE Provenance'
  OBVIOUS
<1>1. CASE WatchStats \/ WatchCompares \/ WatchReads \/ RoundReads
  <2>1. UNCHANGED <<memory, writer, disk, hist>>
    BY <1>1 DEF WatchStats, WatchCompares, WatchReads, RoundReads
  <2>2. \/ watch'.comments = NoComments \/ watch'.comments = watch.comments
        \/ watch'.comments = disk.comments
    <3>1. CASE WatchStats
      BY <3>1 DEF WatchStats, Idle
    <3>2. CASE WatchCompares
      BY <3>2 DEF TypeOK, WatchOK, WatchCompares, Idle
    <3>3. CASE WatchReads
      BY <3>3 DEF TypeOK, WatchOK, WatchReads, Idle
    <3>4. CASE RoundReads
      BY <3>4 DEF RoundReads
    <3> QED BY <1>1, <3>1, <3>2, <3>3, <3>4
  <2> QED BY <2>1, <2>2, NoCommentsLemma DEF memory, Provenance
<1>2. CASE WatchMerges \/ WatchWipes
  <2>1. DOMAIN mem' \subseteq DOMAIN mem \cup DOMAIN watch.comments /\ tomb' \subseteq tomb
    BY <1>2, MergeFromDiskLemma, NoCommentsLemma
       DEF TypeOK, MemoryOK, WatchOK, WatchMerges, WatchWipes, ClearAllCommentData
  <2>2. hist'.born = hist.born /\ hist'.deleted = hist.deleted
    BY <1>2 DEF TypeOK, HistOK, WatchMerges, WatchWipes, ClearAllCommentData
  <2>3. UNCHANGED <<writer, disk>> /\ watch' = Idle
    BY <1>2 DEF WatchMerges, WatchWipes
  <2> QED BY <2>1, <2>2, <2>3, NoCommentsLemma DEF Idle, Provenance
<1>3. CASE RoundLoads \/ RoundCarries \/ RoundRestores
  <2>1. DOMAIN mem' \subseteq DOMAIN mem \cup DOMAIN watch.comments \cup DOMAIN disk.comments
    <3>1. IsCommentSet(mem) /\ IsCommentSet(watch.comments) /\ IsCommentSet(disk.comments)
      BY DEF TypeOK, MemoryOK, WatchOK, DiskOK
    <3>2. CASE RoundLoads
      <4>1. /\ IsCommentSet(FileLevel(mem)) /\ DOMAIN FileLevel(mem) \subseteq DOMAIN mem
            /\ IsCommentSet(ReviewOnly(watch.comments))
            /\ DOMAIN ReviewOnly(watch.comments) \subseteq DOMAIN watch.comments
        BY <3>1, LevelLemma
      <4>2. DOMAIN Override(FileLevel(mem), ReviewOnly(watch.comments))
              = DOMAIN FileLevel(mem) \cup DOMAIN ReviewOnly(watch.comments)
        BY <4>1, OverrideLemma
      <4> QED BY <3>2, <4>1, <4>2 DEF RoundLoads
    <3>3. CASE RoundCarries
      <4>1. /\ IsCommentSet(FileLevel(watch.comments))
            /\ DOMAIN FileLevel(watch.comments) \subseteq DOMAIN watch.comments
        BY <3>1, LevelLemma
      <4>2. DOMAIN Override(FileLevel(watch.comments), mem)
              = DOMAIN FileLevel(watch.comments) \cup DOMAIN mem
        BY <3>1, <4>1, OverrideLemma
      <4> QED BY <3>3, <4>1, <4>2 DEF RoundCarries, CarryForward
    <3>4. CASE RoundRestores
      <4>1. /\ IsCommentSet(FileLevel(Without(disk.comments, tomb)))
            /\ DOMAIN FileLevel(Without(disk.comments, tomb)) \subseteq DOMAIN disk.comments
        <5>1. /\ IsCommentSet(Without(disk.comments, tomb))
              /\ DOMAIN Without(disk.comments, tomb) \subseteq DOMAIN disk.comments
          BY <3>1 DEF Without, IsCommentSet
        <5> QED BY <5>1, LevelLemma
      <4>2. DOMAIN Override(mem, FileLevel(Without(disk.comments, tomb)))
              = DOMAIN mem \cup DOMAIN FileLevel(Without(disk.comments, tomb))
        BY <3>1, <4>1, OverrideLemma
      <4> QED BY <3>4, <4>1, <4>2 DEF RoundRestores
    <3> QED BY <1>3, <3>2, <3>3, <3>4
  <2>2. hist'.born = hist.born /\ hist'.deleted = hist.deleted
    BY <1>3 DEF TypeOK, HistOK, RoundLoads, RoundCarries, RoundRestores
  <2>3. UNCHANGED <<writer, disk, tomb>> /\ watch'.comments = watch.comments
    BY <1>3 DEF TypeOK, WatchOK, RoundLoads, RoundCarries, RoundRestores, WatchTo
  <2> QED BY <2>1, <2>2, <2>3 DEF Provenance
<1>4. CASE RoundAdvances
  BY <1>4 DEF TypeOK, WatchOK, RoundAdvances, WatchTo, Provenance
<1>5. CASE PersistAfterRoundComplete
  BY <1>5, NoCommentsLemma DEF TypeOK, WatchOK, PersistAfterRoundComplete, SyncWriteFiles,
                               WatchTo, memory, Free, NoSnapshot, Provenance
<1>6. CASE SignalRoundComplete
  <2>1. hist'.born = hist.born /\ hist'.deleted = hist.deleted
    BY <1>6 DEF TypeOK, HistOK, SignalRoundComplete
  <2>2. DOMAIN mem' \subseteq DOMAIN mem
    BY <1>6, LevelLemma DEF TypeOK, MemoryOK, SignalRoundComplete
  <2> QED BY <1>6, <2>1, <2>2 DEF SignalRoundComplete, Provenance
<1> QED BY <1>1, <1>2, <1>3, <1>4, <1>5, <1>6 DEF Watcher

(* Other processes and a restart keep it.                                  *)
LEMMA ProvenanceOthers ==
  TypeOK /\ Provenance /\ (Agents \/ FolderCleared \/ FileRemoved \/ Restart) => Provenance'
<1> SUFFICES ASSUME TypeOK, Provenance, Agents \/ FolderCleared \/ FileRemoved \/ Restart
             PROVE  Provenance'
  OBVIOUS
<1>1. ASSUME NEW c \in CommentId, AgentComments(c) PROVE Provenance'
  <2>1. DOMAIN disk'.comments = DOMAIN disk.comments \cup {c}
    <3>1. /\ IsCommentSet(With(disk.comments, c, Fresh))
          /\ DOMAIN With(disk.comments, c, Fresh) = DOMAIN disk.comments \cup {c}
      BY WithLemma, NoCommentsLemma DEF TypeOK, DiskOK
    <3>2. disk'.comments = With(disk.comments, c, Fresh)
      BY <1>1, <3>1, AgentSavesLemma DEF AgentComments
    <3> QED BY <3>1, <3>2
  <2>2. hist'.born = hist.born \cup {c} /\ hist'.deleted = hist.deleted
    BY <1>1 DEF TypeOK, HistOK, AgentComments
  <2> QED BY <1>1, <2>1, <2>2 DEF AgentComments, memory, Provenance
<1>2. ASSUME NEW c \in CommentId, NEW r \in ReplyId, NEW resolve \in BOOLEAN,
             AgentReplies(c, r, resolve)
      PROVE  Provenance'
  <2>1. disk'.comments = With(disk.comments, c,
          [disk.comments[c] EXCEPT !.replies = @ \cup {r}, !.resolved = resolve])
    BY <1>2 DEF TypeOK, DiskOK, AgentReplies, AgentSaves
  <2>2. DOMAIN disk'.comments = DOMAIN disk.comments
    BY <1>2, <2>1 DEF AgentReplies, With
  <2>3. hist'.born = hist.born /\ hist'.deleted = hist.deleted
    BY <1>2 DEF TypeOK, HistOK, AgentReplies
  <2> QED BY <1>2, <2>2, <2>3 DEF AgentReplies, memory, Provenance
<1>3. CASE FolderCleared \/ FileRemoved
  <2>1. hist'.born = hist.born /\ hist'.deleted = hist.deleted
    BY <1>3 DEF TypeOK, HistOK, FolderCleared, FileRemoved
  <2>2. disk' = NoFile /\ UNCHANGED <<memory, writer, watch>>
    BY <1>3 DEF FolderCleared, FileRemoved
  <2> QED BY <2>1, <2>2, NoCommentsLemma DEF NoFile, memory, Provenance
<1>4. CASE Restart
  <2>1. hist'.born = hist.born
    BY <1>4 DEF TypeOK, HistOK, Restart
  <2> QED BY <1>4, <2>1, NoCommentsLemma DEF Restart, Free, NoSnapshot, Idle, Provenance
<1> QED BY <1>1, <1>2, <1>3, <1>4 DEF Agents

(* Every step keeps Provenance, so it is inductive together with TypeOK.   *)
LEMMA ProvenanceNext == TypeOK /\ Provenance /\ [Next]_vars => Provenance'
<1> SUFFICES ASSUME TypeOK, Provenance, [Next]_vars PROVE Provenance'
  OBVIOUS
<1>1. CASE UNCHANGED vars
  BY <1>1 DEF vars, memory, Provenance
<1> QED
  BY <1>1, ProvenanceReviewer, ProvenanceWriter, ProvenanceWatcher, ProvenanceOthers DEF Next

(* A step that leaves the file, the births and the deletions alone is a    *)
(* stutter of the abstract specification.                                  *)
LEMMA Stutter ==
  ASSUME disk'.comments = disk.comments, hist'.born = hist.born, hist'.deleted = hist.deleted
  PROVE  UNCHANGED Shared!vars
BY DEF Shared!vars

(* The steps of the daemon that change nothing the abstract specification  *)
(* sees.                                                                   *)
LEMMA QuietSteps ==
  TypeOK /\ (\/ TimerFires \/ Finish \/ SaveFails \/ ClearMemory
             \/ Watcher \/ SignalRoundComplete
             \/ \E gen \in fired : TimerCallback(gen)
             \/ CheckExternalDeletion \/ MergeReplies \/ SnapshotForWrite
             \/ AcknowledgeWrite \/ MarkEmptyWritten \/ WriterWipes)
  => UNCHANGED Shared!vars
<1> SUFFICES
      ASSUME TypeOK,
             \/ TimerFires \/ Finish \/ SaveFails \/ ClearMemory
             \/ Watcher \/ SignalRoundComplete
             \/ \E gen \in fired : TimerCallback(gen)
             \/ CheckExternalDeletion \/ MergeReplies \/ SnapshotForWrite
             \/ AcknowledgeWrite \/ MarkEmptyWritten \/ WriterWipes
      PROVE  disk' = disk /\ hist'.born = hist.born /\ hist'.deleted = hist.deleted
  BY Stutter
<1>1. disk' = disk
  BY DEF TimerFires, Finish, SaveFails, ClearMemory, Watcher, SignalRoundComplete,
         TimerCallback, CheckExternalDeletion, MergeReplies, SnapshotForWrite,
         AcknowledgeWrite, MarkEmptyWritten, WriterWipes, WatchStats, WatchCompares,
         WatchReads, WatchMerges, WatchWipes, RoundReads, RoundLoads, RoundCarries,
         RoundRestores, RoundAdvances, PersistAfterRoundComplete
<1>2. \/ hist' = hist
      \/ WatchMerges \/ WatchWipes \/ WriterWipes \/ ClearMemory
      \/ SignalRoundComplete \/ RoundLoads \/ SaveFails
  BY DEF TimerFires, Finish, ClearMemory, Watcher, SignalRoundComplete,
         TimerCallback, CheckExternalDeletion, MergeReplies, SnapshotForWrite,
         AcknowledgeWrite, MarkEmptyWritten, WatchStats, WatchCompares,
         WatchReads, RoundReads, RoundCarries,
         RoundRestores, RoundAdvances, PersistAfterRoundComplete
<1>3. hist'.born = hist.born /\ hist'.deleted = hist.deleted
  BY <1>2 DEF TypeOK, HistOK, WatchMerges, WatchWipes, WriterWipes, ClearAllCommentData,
              ClearMemory, SignalRoundComplete, RoundLoads, SaveFails
<1> QED BY <1>1, <1>3

(* A save is the abstract save: the snapshot's tombstones are deletions of *)
(* the reviewer, so nothing else leaves the file, and what it writes was   *)
(* made by somebody.                                                       *)
LEMMA SaveRefines ==
  TypeOK /\ Provenance /\ SaveReviewFile => \E new \in SUBSET hist.born : Shared!Save(new)
<1> SUFFICES ASSUME TypeOK, Provenance, SaveReviewFile
             PROVE  \E new \in SUBSET hist.born : Shared!Save(new)
  OBVIOUS
<1> DEFINE built == BuildComments(writer.snap.mem, disk.comments, writer.snap.tomb)
<1>1. /\ DOMAIN disk.comments \ writer.snap.tomb \subseteq DOMAIN built
      /\ DOMAIN built \subseteq DOMAIN writer.snap.mem \cup DOMAIN disk.comments
  BY BuildLemma DEF TypeOK, WriterOK, SnapshotOK, DiskOK
<1>2. DOMAIN disk'.comments = DOMAIN built
  BY NoCommentsLemma DEF SaveReviewFile, NoFile
<1>3. hist'.born = hist.born /\ hist'.deleted = hist.deleted
  BY DEF TypeOK, HistOK, SaveReviewFile
<1> HIDE DEF built
<1>4. DOMAIN built \subseteq hist.born
  BY <1>1 DEF Provenance
<1>5. DOMAIN disk.comments \ hist.deleted \subseteq DOMAIN built
  BY <1>1 DEF Provenance
<1>6. Shared!Save(DOMAIN built)
  BY <1>2, <1>3, <1>4, <1>5 DEF Shared!Save
<1> QED BY <1>4, <1>6

(* Every step is a step of the abstract specification or a stutter.        *)
LEMMA StepRefines ==
  TypeOK /\ Provenance /\ [Next]_vars => [Shared!Next]_(Shared!vars)
<1> SUFFICES ASSUME TypeOK, Provenance, [Next]_vars PROVE Shared!Next \/ UNCHANGED Shared!vars
  OBVIOUS
<1>1. ASSUME NEW c \in CommentId, AddComment(c) PROVE Shared!Make(c)
  BY <1>1 DEF TypeOK, HistOK, AddComment, Shared!Make
<1>2. ASSUME NEW c \in CommentId, DeleteComment(c) PROVE Shared!Withdraw(c)
  BY <1>2 DEF TypeOK, HistOK, Provenance, DeleteComment, Shared!Withdraw
<1>3. ASSUME NEW c \in CommentId, NEW resolved \in BOOLEAN, SetCommentResolved(c, resolved)
      PROVE  UNCHANGED Shared!vars
  BY <1>3, Stutter DEF SetCommentResolved
<1>4. ASSUME NEW c \in CommentId, NEW r \in ReplyId, AddReply(c, r) \/ DeleteReply(c, r)
      PROVE  UNCHANGED Shared!vars
  BY <1>4, Stutter DEF TypeOK, HistOK, AddReply, DeleteReply
<1>5. CASE ClearReviewFolder \/ FolderCleared \/ FileRemoved
  <2>1. disk' = NoFile
    BY <1>5 DEF ClearReviewFolder, FolderCleared, FileRemoved
  <2>2. DOMAIN disk'.comments = {}
    BY <2>1, NoCommentsLemma DEF NoFile
  <2>3. hist'.born = hist.born /\ hist'.deleted = hist.deleted
    BY <1>5 DEF TypeOK, HistOK, ClearReviewFolder, FolderCleared, FileRemoved
  <2> QED BY <2>2, <2>3 DEF Shared!Remove, Shared!Next
<1>6. ASSUME NEW c \in CommentId, AgentComments(c) PROVE Shared!Make(c)
  <2>1. /\ IsCommentSet(With(disk.comments, c, Fresh))
        /\ DOMAIN With(disk.comments, c, Fresh) = DOMAIN disk.comments \cup {c}
    BY WithLemma, NoCommentsLemma DEF TypeOK, DiskOK
  <2>2. disk'.comments = With(disk.comments, c, Fresh)
    BY <1>6, <2>1, AgentSavesLemma DEF AgentComments
  <2>3. hist'.born = hist.born \cup {c} /\ hist'.deleted = hist.deleted /\ c \notin hist.born
    BY <1>6 DEF TypeOK, HistOK, AgentComments
  <2> QED BY <2>1, <2>2, <2>3 DEF Shared!Make
<1>7. ASSUME NEW c \in CommentId, NEW r \in ReplyId, NEW resolve \in BOOLEAN,
             AgentReplies(c, r, resolve)
      PROVE  UNCHANGED Shared!vars
  <2>1. disk'.comments = With(disk.comments, c,
          [disk.comments[c] EXCEPT !.replies = @ \cup {r}, !.resolved = resolve])
    BY <1>7 DEF TypeOK, DiskOK, AgentReplies, AgentSaves
  <2>2. DOMAIN disk'.comments = DOMAIN disk.comments
    BY <1>7, <2>1 DEF AgentReplies, With
  <2>3. hist'.born = hist.born /\ hist'.deleted = hist.deleted
    BY <1>7 DEF TypeOK, HistOK, AgentReplies
  <2> QED BY <2>2, <2>3 DEF Shared!vars
<1>8. CASE Restart
  <2>1. /\ hist'.born = hist.born /\ hist'.deleted = hist.deleted \ DOMAIN disk.comments
        /\ disk' = disk
    BY <1>8 DEF TypeOK, HistOK, Restart
  <2> QED BY <2>1 DEF Shared!Crash, Shared!Next
<1>9. CASE Reviewer
  BY <1>1, <1>2, <1>3, <1>4, <1>9 DEF Reviewer, Shared!Next
<1>10. CASE Agents
  BY <1>6, <1>7, <1>10 DEF Agents, Shared!Next
<1>11. CASE SaveReviewFile
  BY <1>11, SaveRefines DEF Shared!Next
<1>12. CASE UNCHANGED vars
  BY <1>12, Stutter DEF vars
<1> QED
  BY <1>5, <1>8, <1>9, <1>10, <1>11, <1>12, QuietSteps DEF Next, Writer

(* ReviewSync implements SharedReview: whatever the order of saves, reloads *)
(* and rounds, and whoever writes the file besides, it holds only comments  *)
(* somebody made and loses one only to the reviewer's deletion or to the    *)
(* removal of the file.                                                     *)
THEOREM SharedReviewImplemented == Spec => ImplementsSharedReview
<1>1. Init => Shared!Init
  <2> SUFFICES ASSUME Init PROVE Shared!Init
    OBVIOUS
  <2>1. DOMAIN disk.comments = Preloaded
    BY NoCommentsLemma DEF Init, NoFile
  <2> QED BY <2>1, PreloadedAssumption DEF Init, Shared!Init
<1>2. Init => TypeOK /\ Provenance
  BY TypeInit, ProvenanceInit
<1>3. TypeOK /\ Provenance /\ [Next]_vars => TypeOK' /\ Provenance'
  BY TypeNext, ProvenanceNext
<1>4. TypeOK /\ Provenance /\ [Next]_vars => [Shared!Next]_(Shared!vars)
  BY StepRefines
<1> QED BY <1>1, <1>2, <1>3, <1>4, PTL DEF Spec, ImplementsSharedReview, Shared!Spec
-----------------------------------------------------------------------------
(* Comments that no save has put on disk: in memory, not deleted, and in   *)
(* no copy of the file.                                                    *)
UnsavedOK ==
  /\ hist.unsaved \subseteq DOMAIN mem
  /\ hist.unsaved \cap hist.deleted = {} /\ hist.deleted \subseteq hist.born
  /\ hist.unsaved \cap DOMAIN disk.comments = {}
  /\ hist.unsaved \cap DOMAIN watch.comments = {}

(* A save that finds nothing more to do has them all.                      *)
NothingSince == ~pending \/ seq.write = writer.snap.write
SaveHasAll ==
  /\ At("save") /\ NothingSince => hist.unsaved \subseteq DOMAIN writer.snap.mem
  /\ (At("ack") \/ At("ackEmpty")) /\ NothingSince => hist.unsaved = {}

(* From a signal to the loading of the round, only comments of the review  *)
(* as a whole wait without a pending write; from the signal's arrival on,  *)
(* the file's round lags memory's, or will with the next.                  *)
BeforeAdvance == {"carry", "restore", "advance"}
FileLags ==
  IF WatchAt("load") THEN watch.mtime = NoMtime => disk.round <= round
  ELSE IF watch.pc \in BeforeAdvance THEN disk.round <= round
  ELSE round >= 2 /\ disk.round < round
RoundsOK ==
  /\ round >= 1 /\ (Missing => disk.round = 0)
  /\ writer.by = "round" => WatchAt("saving")
  /\ (roundChan \/ WatchAt("load")) /\ ~pending => hist.unsaved \subseteq ReviewLevel
  /\ ~roundChan /\ ~pending => hist.unsaved = {} \/ FileLags

(* What was just written is there, unless it was removed.                  *)
WrittenIsThere == At("ack") => ~Missing \/ hist.removed

(* The invariant, beside the types and the provenance of every comment.    *)
SavesOK == UnsavedOK /\ SaveHasAll /\ RoundsOK /\ WrittenIsThere /\ PendingIsScheduled
-----------------------------------------------------------------------------
LEMMA SavesInit == Init => SavesOK
<1> SUFFICES ASSUME Init PROVE SavesOK
  OBVIOUS
<1>1. /\ hist.unsaved = {} /\ hist.deleted = {} /\ writer = Free /\ watch = Idle
      /\ round = 1 /\ pending = FALSE /\ roundChan = FALSE
  BY DEF Init
<1>2. Missing => disk.round = 0
  BY MtimeAssumption DEF Init, Missing, NoFile
<1>3. UnsavedOK
  BY <1>1 DEF UnsavedOK
<1>4. SaveHasAll /\ WrittenIsThere /\ PendingIsScheduled
  BY <1>1 DEF SaveHasAll, WrittenIsThere, PendingIsScheduled, At, Free
<1>5. RoundsOK
  BY <1>1, <1>2 DEF RoundsOK, Free
<1> QED BY <1>3, <1>4, <1>5 DEF SavesOK

(* A handler schedules a save: nothing that is under way has its change.   *)
LEMMA HandlerSchedules ==
  ASSUME TypeOK, SavesOK, NEW n \in {0, 1}, ScheduleWrite(n),
         UNCHANGED <<round, fired, writer, watch, roundChan, disk>>,
         hist'.removed = hist.removed
  PROVE  SaveHasAll' /\ RoundsOK' /\ WrittenIsThere' /\ PendingIsScheduled'
<1>1. pending' = TRUE /\ seq'.write = seq.write + 1 /\ seq'.gen = seq.gen /\ timer' = seq.gen
  BY DEF ScheduleWrite
<1>2. ~NothingSince'
  <2>1. writer.snap.write \in 0..seq.write /\ seq.write \in Nat
    BY DEF TypeOK, WriterOK, SnapshotOK, TimersOK
  <2> QED BY <1>1, <2>1 DEF NothingSince
<1>3. SaveHasAll'
  BY <1>2 DEF SaveHasAll
<1>4. RoundsOK'
  BY <1>1 DEF SavesOK, RoundsOK, Missing, WatchAt
<1>5. WrittenIsThere'
  BY DEF SavesOK, WrittenIsThere, At, Missing
<1>6. PendingIsScheduled'
  BY <1>1 DEF PendingIsScheduled
<1> QED BY <1>3, <1>4, <1>5, <1>6

LEMMA SavesReviewer == TypeOK /\ Provenance /\ SavesOK /\ Reviewer => SavesOK'
<1> SUFFICES ASSUME TypeOK, Provenance, SavesOK, Reviewer PROVE SavesOK'
  OBVIOUS
<1>1. UnsavedOK /\ DOMAIN mem \subseteq hist.born
  BY DEF SavesOK, Provenance
<1>2. ASSUME NEW c \in CommentId, AddComment(c) PROVE SavesOK'
  <2>1. DOMAIN mem' = DOMAIN mem \cup {c}
    BY <1>2, WithLemma, NoCommentsLemma DEF TypeOK, MemoryOK, AddComment
  <2>2. /\ hist'.unsaved = hist.unsaved \cup {c} /\ hist'.born = hist.born \cup {c}
        /\ hist'.deleted = hist.deleted /\ hist'.removed = hist.removed /\ c \notin hist.born
    BY <1>2 DEF TypeOK, HistOK, AddComment
  <2>3. UnsavedOK'
    BY <1>1, <1>2, <2>1, <2>2 DEF UnsavedOK, Provenance, AddComment
  <2> QED BY <1>2, <2>2, <2>3, HandlerSchedules DEF SavesOK, AddComment
<1>3. ASSUME NEW c \in CommentId, DeleteComment(c) PROVE SavesOK'
  <2>1. DOMAIN mem' = DOMAIN mem \ {c} /\ c \in DOMAIN mem
    BY <1>3, WithoutLemma DEF TypeOK, MemoryOK, DeleteComment
  <2>2. /\ hist'.unsaved = hist.unsaved \ {c} /\ hist'.born = hist.born
        /\ hist'.deleted = hist.deleted \cup {c} /\ hist'.removed = hist.removed
    BY <1>3 DEF TypeOK, HistOK, DeleteComment
  <2>3. UnsavedOK'
    BY <1>1, <1>3, <2>1, <2>2 DEF UnsavedOK, DeleteComment
  <2> QED BY <1>3, <2>2, <2>3, HandlerSchedules DEF SavesOK, DeleteComment
<1>4. ASSUME NEW c \in CommentId, NEW resolved \in BOOLEAN, SetCommentResolved(c, resolved)
      PROVE  SavesOK'
  <2>1. DOMAIN mem' = DOMAIN mem
    BY <1>4 DEF SetCommentResolved, With
  <2>2. UnsavedOK'
    BY <1>1, <1>4, <2>1 DEF UnsavedOK, SetCommentResolved
  <2> QED BY <1>4, <2>2, HandlerSchedules DEF SavesOK, SetCommentResolved
<1>5. ASSUME NEW c \in CommentId, NEW r \in ReplyId, AddReply(c, r) \/ DeleteReply(c, r) PROVE SavesOK'
  <2>1. DOMAIN mem' = DOMAIN mem
    BY <1>5 DEF AddReply, DeleteReply, With
  <2>2. UNCHANGED <<hist.unsaved, hist.born, hist.deleted, hist.removed>>
    BY <1>5 DEF AddReply, DeleteReply, TypeOK, HistOK
  <2>3. UNCHANGED <<round, fired, writer, watch, roundChan, disk>> /\ (ScheduleWrite(0) \/ ScheduleWrite(1))
    BY <1>5 DEF AddReply, DeleteReply
  <2>4. UnsavedOK'
    BY <1>1, <2>1, <2>2, <2>3 DEF UnsavedOK
  <2> QED BY <2>2, <2>3, <2>4, HandlerSchedules DEF SavesOK
<1> QED BY <1>2, <1>3, <1>4, <1>5 DEF Reviewer
-----------------------------------------------------------------------------
(* The writer.                                                             *)

(* Whoever gives writeMu back; the watcher's own save ends its round.      *)
LEMMA ReleaseKeepsRounds ==
  ASSUME TypeOK, RoundsOK, Release, UNCHANGED <<round, roundChan, disk>>,
         \/ pending' = pending /\ hist'.unsaved = hist.unsaved
         \/ pending' \in BOOLEAN /\ (pending' \/ hist'.unsaved = {})
  PROVE  RoundsOK'
<1>1. writer'.by # "round" /\ (Missing' <=> Missing)
  BY DEF Release, Free, Missing
<1>2. CASE writer.by = "round"
  <2>1. watch.pc = "saving" /\ watch'.pc = "idle"
    BY <1>2 DEF RoundsOK, WatchAt, Release, Idle
  <2>2. FileLags' <=> FileLags
    BY <2>1 DEF FileLags, BeforeAdvance, WatchAt
  <2> QED BY <1>1, <2>1, <2>2 DEF RoundsOK, WatchAt
<1>3. CASE writer.by # "round"
  <2>1. watch' = watch
    BY <1>3 DEF Release
  <2>2. FileLags' <=> FileLags
    BY <2>1 DEF FileLags, WatchAt
  <2> QED BY <1>1, <2>1, <2>2 DEF RoundsOK, WatchAt
<1> QED BY <1>2, <1>3

LEMMA ReleaseFrees ==
  ASSUME Release
  PROVE  /\ SaveHasAll' /\ WrittenIsThere'
         /\ watch'.comments = watch.comments \/ watch'.comments = NoComments
BY DEF Release, Free, SaveHasAll, WrittenIsThere, At, Idle

(* Taking writeMu, and its steps before the snapshot.                      *)
LEMMA SavesEarly ==
  ASSUME TypeOK, SavesOK,
         \/ TimerFires \/ (\E gen \in fired : TimerCallback(gen)) \/ Finish
         \/ CheckExternalDeletion \/ MergeReplies
  PROVE  SavesOK'
<1>1. UNCHANGED <<round, roundChan, disk, watch, pending, hist>> /\ DOMAIN mem' = DOMAIN mem
  <2>1. CASE MergeReplies
    BY <2>1, AddNewRepliesLemma DEF MergeReplies, TypeOK, MemoryOK, DiskOK, flags
  <2> QED BY <2>1 DEF TimerFires, TimerCallback, Finish, CheckExternalDeletion, memory, flags
<1>2. UnsavedOK'
  BY <1>1 DEF SavesOK, UnsavedOK
<1>3. /\ writer'.by = "round" => writer.by = "round"
      /\ writer' = writer \/ writer'.pc \in {"check", "wipe", "merge", "snapshot"}
  BY DEF TimerFires, TimerCallback, Finish, SyncWriteFiles, CheckExternalDeletion, MergeReplies,
         WriterTo, Free, TypeOK, WriterOK
<1>4. RoundsOK'
  BY <1>1, <1>3 DEF SavesOK, RoundsOK, FileLags, WatchAt, Missing
<1>5. WrittenIsThere'
  BY <1>1, <1>3 DEF SavesOK, WrittenIsThere, At, Missing
<1>6. SaveHasAll'
  <2>1. CASE writer' = writer
    <3>1. At("free") \/ seq' = seq
      BY DEF TimerFires, TimerCallback, Finish, SyncWriteFiles, CheckExternalDeletion, MergeReplies
    <3> QED BY <1>1, <2>1, <3>1 DEF SavesOK, SaveHasAll, NothingSince, At
  <2>2. CASE writer'.pc \in {"check", "wipe", "merge", "snapshot"}
    BY <2>2 DEF SaveHasAll, At
  <2> QED BY <1>3, <2>1, <2>2
<1>7. PendingIsScheduled'
  <2>1. CASE TimerFires
    BY <1>1, <2>1 DEF TimerFires, SavesOK, PendingIsScheduled, Disturbed
  <2>2. ASSUME NEW gen \in fired, TimerCallback(gen) PROVE PendingIsScheduled'
    <3>1. CASE gen = seq.gen
      BY <2>2, <3>1 DEF TimerCallback, PendingIsScheduled, Free
    <3>2. CASE gen # seq.gen
      BY <1>1, <2>2, <3>2 DEF TimerCallback, SavesOK, PendingIsScheduled, Disturbed
    <3> QED BY <3>1, <3>2
  <2>3. CASE Finish
    BY <2>3 DEF Finish, SyncWriteFiles, PendingIsScheduled, Free
  <2>4. CASE CheckExternalDeletion \/ MergeReplies
    <3>1. writer'.pc \in {"wipe", "merge", "snapshot"}
      BY <2>4 DEF CheckExternalDeletion, MergeReplies, WriterTo, TypeOK, WriterOK
    <3> QED BY <3>1 DEF PendingIsScheduled
  <2> QED BY <2>1, <2>2, <2>3, <2>4
<1> QED BY <1>2, <1>4, <1>5, <1>6, <1>7 DEF SavesOK

LEMMA SavesSnapshot == TypeOK /\ SavesOK /\ SnapshotForWrite => SavesOK'
<1> SUFFICES ASSUME TypeOK, SavesOK, SnapshotForWrite PROVE SavesOK'
  OBVIOUS
<1>1. UNCHANGED <<round, roundChan, disk, watch, pending, hist, mem, seq>>
  BY DEF SnapshotForWrite, memory, flags
<1>2. /\ writer'.pc = "save" /\ writer'.by = writer.by
      /\ writer'.snap.mem = mem /\ writer'.snap.write = seq.write
  BY DEF SnapshotForWrite, TypeOK, WriterOK
<1>3. UnsavedOK' /\ RoundsOK'
  BY <1>1, <1>2 DEF SavesOK, UnsavedOK, RoundsOK, FileLags, WatchAt, Missing
<1>4. SaveHasAll' /\ WrittenIsThere' /\ PendingIsScheduled'
  BY <1>1, <1>2 DEF SavesOK, UnsavedOK, SaveHasAll, WrittenIsThere, PendingIsScheduled, At
<1> QED BY <1>3, <1>4 DEF SavesOK

(* What is built holds everything in the snapshot that was not deleted.    *)
LEMMA BuildKeeps ==
  ASSUME NEW cs, IsCommentSet(cs), NEW onDisk, IsCommentSet(onDisk), NEW ids
  PROVE  DOMAIN cs \ ids \subseteq DOMAIN BuildComments(cs, onDisk, ids)
<1>1. /\ IsCommentSet(Without(onDisk, ids))
      /\ DOMAIN Override(cs, Without(onDisk, ids)) = DOMAIN cs \cup DOMAIN Without(onDisk, ids)
  BY WithoutLemma, OverrideLemma
<1> QED BY <1>1 DEF BuildComments, MergeDiskComments, ApplyDeletedCommentIDs, Without

LEMMA SavesSave == TypeOK /\ Provenance /\ SavesOK /\ SaveReviewFile => SavesOK'
<1> SUFFICES ASSUME TypeOK, Provenance, SavesOK, SaveReviewFile PROVE SavesOK'
  OBVIOUS
<1> DEFINE snap == writer.snap
<1> DEFINE built == BuildComments(snap.mem, disk.comments, snap.tomb)
<1>1. UNCHANGED <<round, roundChan, watch, mem, pending, seq, timer, fired>>
  BY DEF SaveReviewFile, memory, flags, timers
<1>2. /\ writer.pc = "save" /\ writer'.pc \in {"ack", "ackEmpty"}
      /\ writer'.by = writer.by /\ writer'.snap = writer.snap
  BY DEF SaveReviewFile, At, TypeOK, WriterOK
<1>3. /\ hist'.unsaved = hist.unsaved \ DOMAIN built
      /\ UNCHANGED <<hist.born, hist.deleted, hist.removed, hist.raced, hist.failed>>
  BY DEF SaveReviewFile, TypeOK, HistOK
<1>4. DOMAIN disk'.comments \subseteq DOMAIN built /\ (Missing' => disk'.round = 0)
  <2>1. CASE DOMAIN built = {}
    BY <2>1, NoCommentsLemma DEF SaveReviewFile, NoFile
  <2>2. CASE DOMAIN built # {}
    <3>1. disk'.comments = built /\ disk'.mtime = NewMtime
      BY <2>2 DEF SaveReviewFile
    <3>2. NewMtime # NoMtime
      BY NewMtimeLemma, MtimeAssumption DEF TypeOK, DiskOK, FlagsOK, WatchOK
    <3> QED BY <3>1, <3>2 DEF Missing
  <2> QED BY <2>1, <2>2
<1>5. NothingSince => hist'.unsaved = {}
  <2>1. DOMAIN snap.mem \ snap.tomb \subseteq DOMAIN built
    BY BuildKeeps DEF TypeOK, WriterOK, SnapshotOK, DiskOK
  <2>2. NothingSince => hist.unsaved \subseteq DOMAIN snap.mem
    BY <1>2 DEF SavesOK, SaveHasAll, At
  <2>3. hist.unsaved \cap snap.tomb = {}
    BY DEF SavesOK, UnsavedOK, Provenance
  <2> QED BY <1>3, <2>1, <2>2, <2>3
<1> HIDE DEF built, snap
<1>6. UnsavedOK'
  BY <1>1, <1>3, <1>4 DEF SavesOK, UnsavedOK
<1>7. SaveHasAll'
  BY <1>1, <1>2, <1>5 DEF SaveHasAll, NothingSince, At
<1>8. RoundsOK'
  BY <1>1, <1>2, <1>3, <1>4, <1>5 DEF SavesOK, RoundsOK, WatchAt, NothingSince
<1>9. WrittenIsThere'
  <2>1. writer'.pc = "ack" => DOMAIN BuildComments(writer.snap.mem, disk.comments, writer.snap.tomb) # {}
    BY DEF SaveReviewFile, TypeOK, WriterOK
  <2>2. writer'.pc = "ack" => disk'.mtime = NewMtime
    BY <2>1 DEF SaveReviewFile
  <2>3. NewMtime # NoMtime
    BY NewMtimeLemma, MtimeAssumption DEF TypeOK, DiskOK, FlagsOK, WatchOK
  <2> QED BY <2>2, <2>3 DEF WrittenIsThere, Missing, At
<1>10. PendingIsScheduled'
  BY <1>1, <1>2, <1>3 DEF SavesOK, PendingIsScheduled, Disturbed
<1> QED BY <1>6, <1>7, <1>8, <1>9, <1>10 DEF SavesOK

(* Releasing leaves PendingIsScheduled to the timers, or the save did all. *)
LEMMA ReleaseKeepsPending ==
  ASSUME SavesOK, Release, UNCHANGED <<seq, timers>>,
         \/ pending' => pending /\ ~(writer.pc \in {"check", "merge", "snapshot", "wipe"})
                        /\ (writer.pc \in {"save", "ack", "ackEmpty"} => seq.write # writer.snap.write)
         \/ Disturbed',
         Disturbed => Disturbed'
  PROVE  PendingIsScheduled'
BY DEF SavesOK, PendingIsScheduled, timers

LEMMA SavesFail == TypeOK /\ SavesOK /\ SaveFails => SavesOK'
<1> SUFFICES ASSUME TypeOK, SavesOK, SaveFails PROVE SavesOK'
  OBVIOUS
<1>1. /\ Release /\ UNCHANGED <<round, roundChan, disk, mem, pending, seq, timers>>
      /\ hist' = [hist EXCEPT !.failed = TRUE]
  BY DEF SaveFails, memory, flags
<1>2. hist'.failed /\ UNCHANGED <<hist.unsaved, hist.born, hist.deleted>>
  BY <1>1 DEF TypeOK, HistOK
<1>3. RoundsOK'
  BY <1>1, <1>2, ReleaseKeepsRounds DEF SavesOK
<1>4. UnsavedOK'
  BY <1>1, <1>2, ReleaseFrees, NoCommentsLemma DEF SavesOK, UnsavedOK
<1>5. PendingIsScheduled'
  BY <1>2 DEF PendingIsScheduled, Disturbed
<1> QED BY <1>1, <1>3, <1>4, <1>5, ReleaseFrees DEF SavesOK

(* An acknowledgement forgets the pending write only when nothing is left. *)
LEMMA SavesAcknowledge ==
  TypeOK /\ SavesOK /\ (AcknowledgeWrite \/ MarkEmptyWritten) => SavesOK'
<1> SUFFICES ASSUME TypeOK, SavesOK, AcknowledgeWrite \/ MarkEmptyWritten PROVE SavesOK'
  OBVIOUS
<1>1. /\ Release /\ UNCHANGED <<round, roundChan, disk, mem, seq, timers, hist>>
      /\ writer.pc \in {"ack", "ackEmpty"}
  BY DEF AcknowledgeWrite, MarkEmptyWritten, memory, flags, At
<1>2. \/ pending' = (pending /\ seq.write # writer.snap.write)
      \/ pending' = pending /\ At("ack") /\ Missing
  BY DEF AcknowledgeWrite, MarkEmptyWritten, AcknowledgeSnapshot, flags
<1>3. ~NothingSince \/ hist.unsaved = {}
  BY <1>1 DEF SavesOK, SaveHasAll, At
<1>4. RoundsOK'
  <2>1. CASE pending' = (pending /\ seq.write # writer.snap.write)
    <3>1. pending' \in BOOLEAN /\ (pending' \/ hist'.unsaved = {})
      BY <1>1, <1>3, <2>1 DEF NothingSince
    <3> QED BY <1>1, <3>1, ReleaseKeepsRounds DEF SavesOK
  <2>2. CASE pending' = pending
    BY <1>1, <2>2, ReleaseKeepsRounds DEF SavesOK
  <2> QED BY <1>2, <2>1, <2>2
<1>5. UnsavedOK'
  BY <1>1, ReleaseFrees, NoCommentsLemma DEF SavesOK, UnsavedOK
<1>6. PendingIsScheduled'
  <2>1. Disturbed' <=> Disturbed
    BY <1>1 DEF Disturbed
  <2>2. CASE pending' = (pending /\ seq.write # writer.snap.write)
    BY <1>1, <2>1, <2>2, ReleaseKeepsPending
  <2>3. CASE At("ack") /\ Missing
    BY <1>1, <2>1, <2>3 DEF SavesOK, WrittenIsThere, Disturbed, PendingIsScheduled
  <2> QED BY <1>2, <2>2, <2>3
<1> QED BY <1>1, <1>4, <1>5, <1>6, ReleaseFrees DEF SavesOK

LEMMA SavesWipe == TypeOK /\ SavesOK /\ WriterWipes => SavesOK'
<1> SUFFICES ASSUME TypeOK, SavesOK, WriterWipes PROVE SavesOK'
  OBVIOUS
<1>1. /\ Release /\ UNCHANGED <<roundChan, disk, pending, seq, timers>> /\ round' = 1
      /\ hist' = [hist EXCEPT !.unsaved = {}, !.agentReplies = {}, !.raced = @ \/ ~hist.removed]
  BY DEF WriterWipes, ClearAllCommentData
<1>2. /\ hist'.unsaved = {} /\ (hist'.raced \/ hist'.removed)
      /\ UNCHANGED <<hist.born, hist.deleted>>
  BY <1>1 DEF TypeOK, HistOK
<1>3. RoundsOK'
  <2>1. writer'.by # "round" /\ (Missing' <=> Missing)
    BY <1>1 DEF Release, Free, Missing
  <2> QED BY <1>1, <1>2, <2>1 DEF SavesOK, RoundsOK
<1>4. UnsavedOK'
  BY <1>2 DEF SavesOK, UnsavedOK
<1>5. PendingIsScheduled'
  BY <1>2 DEF PendingIsScheduled, Disturbed
<1> QED BY <1>1, <1>3, <1>4, <1>5, ReleaseFrees DEF SavesOK

LEMMA SavesClear == TypeOK /\ SavesOK /\ (ClearMemory \/ ClearReviewFolder) => SavesOK'
<1> SUFFICES ASSUME TypeOK, SavesOK, ClearMemory \/ ClearReviewFolder PROVE SavesOK'
  OBVIOUS
<1>1. CASE ClearMemory
  <2>1. /\ round' = 1 /\ pending' = FALSE /\ UNCHANGED <<watch, roundChan, disk>>
        /\ writer'.pc = "clear" /\ writer'.by = "clear"
    BY <1>1 DEF ClearMemory, Free
  <2>2. hist'.unsaved = {} /\ UNCHANGED <<hist.born, hist.deleted>>
    BY <1>1 DEF ClearMemory, TypeOK, HistOK
  <2>3. UnsavedOK' /\ RoundsOK'
    BY <2>1, <2>2 DEF SavesOK, UnsavedOK, RoundsOK, Missing
  <2> QED BY <2>1, <2>3 DEF SavesOK, SaveHasAll, WrittenIsThere, PendingIsScheduled, At
<1>2. CASE ClearReviewFolder
  <2>1. /\ Release /\ disk' = NoFile /\ writer.pc = "clear"
        /\ UNCHANGED <<mem, round, pending, roundChan, seq, timers, hist>>
    BY <1>2 DEF ClearReviewFolder, memory, flags, At
  <2>2. UnsavedOK'
    BY <2>1, ReleaseFrees, NoCommentsLemma DEF SavesOK, UnsavedOK, NoFile
  <2>3. writer'.by # "round" /\ disk'.round = 0
    BY <2>1 DEF Release, Free, NoFile
  <2>4. RoundsOK'
    <3>1. writer.by # "round" => watch' = watch
      BY <2>1 DEF Release
    <3>2. writer.by = "round" => watch.pc = "saving" /\ watch'.pc = "idle"
      BY <2>1 DEF SavesOK, RoundsOK, WatchAt, Release, Idle
    <3>3. round \in Nat /\ disk.round \in Nat
      BY DEF TypeOK, MemoryOK, DiskOK
    <3>4. FileLags => FileLags'
      BY <2>1, <2>3, <3>1, <3>2, <3>3 DEF FileLags, BeforeAdvance, WatchAt, SavesOK, RoundsOK
    <3> QED BY <2>1, <2>3, <3>1, <3>2, <3>4 DEF SavesOK, RoundsOK, WatchAt
  <2>5. PendingIsScheduled'
    BY <2>1, ReleaseKeepsPending DEF Disturbed
  <2> QED BY <2>1, <2>2, <2>4, <2>5, ReleaseFrees DEF SavesOK
<1> QED BY <1>1, <1>2
-----------------------------------------------------------------------------
(* The watcher.  None of its steps but the last one of a round and the     *)
(* signal touch what the saves read.                                       *)

LEMMA SavesUntouched ==
  ASSUME TypeOK, SavesOK, UNCHANGED <<seq, timers, pending, writer>>,
         disk' = disk, hist'.unsaved \subseteq hist.unsaved,
         hist.removed => hist'.removed, Disturbed => Disturbed'
  PROVE  SaveHasAll' /\ WrittenIsThere' /\ PendingIsScheduled'
<1>1. SaveHasAll'
  BY DEF SavesOK, SaveHasAll, NothingSince, At
<1>2. WrittenIsThere'
  BY DEF SavesOK, WrittenIsThere, At, Missing
<1>3. PendingIsScheduled'
  BY DEF SavesOK, PendingIsScheduled, timers
<1> QED BY <1>1, <1>2, <1>3

LEMMA SavesWatch ==
  TypeOK /\ SavesOK /\ (WatchStats \/ WatchCompares \/ WatchReads) => SavesOK'
<1> SUFFICES ASSUME TypeOK, SavesOK, WatchStats \/ WatchCompares \/ WatchReads PROVE SavesOK'
  OBVIOUS
<1>1. UNCHANGED <<mem, round, pending, seq, timers, writer, roundChan, disk, hist>>
  BY DEF WatchStats, WatchCompares, WatchReads, memory, flags
<1>2. /\ watch.pc \in {"idle", "compare", "read"}
      /\ watch'.pc \in {"idle", "compare", "read", "wipe", "merge"}
      /\ watch'.comments \in {watch.comments, NoComments, disk.comments}
  <2>1. CASE WatchStats
    <3>1. watch' = [Idle EXCEPT !.pc = "compare", !.mtime = disk.mtime] /\ watch.pc = "idle"
      BY <2>1 DEF WatchStats, WatchAt
    <3> QED BY <3>1 DEF Idle
  <2>2. CASE WatchCompares
    <3>1. /\ watch' \in {Idle, [watch EXCEPT !.pc = "wipe"], [watch EXCEPT !.pc = "read"]}
          /\ watch.pc = "compare"
      BY <2>2 DEF WatchCompares, WatchAt
    <3>2. CASE watch' = Idle
      BY <3>1, <3>2 DEF Idle
    <3>3. CASE watch' = [watch EXCEPT !.pc = "wipe"]
      BY <3>1, <3>3 DEF TypeOK, WatchOK
    <3>4. CASE watch' = [watch EXCEPT !.pc = "read"]
      BY <3>1, <3>4 DEF TypeOK, WatchOK
    <3> QED BY <3>1, <3>2, <3>3, <3>4
  <2>3. CASE WatchReads
    <3>1. watch.pc = "read"
      BY <2>3 DEF WatchReads, WatchAt
    <3>2. CASE watch' = Idle
      BY <3>1, <3>2 DEF Idle
    <3>3. CASE watch' = [watch EXCEPT !.pc = "merge", !.comments = disk.comments,
                                      !.round = disk.round]
      BY <3>1, <3>3 DEF TypeOK, WatchOK
    <3> QED BY <2>3, <3>2, <3>3 DEF WatchReads
  <2> QED BY <2>1, <2>2, <2>3
<1>3. UnsavedOK'
  BY <1>1, <1>2, NoCommentsLemma DEF SavesOK, UnsavedOK
<1>4. RoundsOK'
  BY <1>1, <1>2 DEF SavesOK, RoundsOK, FileLags, BeforeAdvance, WatchAt, Missing
<1> QED BY <1>1, <1>3, <1>4, SavesUntouched DEF SavesOK, Disturbed

LEMMA SavesReload == TypeOK /\ SavesOK /\ (WatchMerges \/ WatchWipes) => SavesOK'
<1> SUFFICES ASSUME TypeOK, SavesOK, WatchMerges \/ WatchWipes PROVE SavesOK'
  OBVIOUS
<1>1. /\ UNCHANGED <<pending, seq, timers, writer, roundChan, disk>>
      /\ watch' = Idle /\ watch.pc \in {"merge", "wipe"}
      /\ round' = round \/ (round' = 1 /\ WatchWipes)
  BY DEF WatchMerges, WatchWipes, ClearAllCommentData, WatchAt
<1>2. /\ hist'.unsaved \subseteq hist.unsaved /\ hist'.unsaved \subseteq DOMAIN mem'
      /\ WatchWipes => hist'.unsaved = {}
      /\ UNCHANGED <<hist.born, hist.deleted, hist.removed, hist.failed>>
      /\ hist.raced => hist'.raced
  <2>1. CASE WatchMerges
    <3>1. hist' = [hist EXCEPT !.unsaved = @ \cap DOMAIN mem', !.raced = @ \/ Outdated]
      BY <2>1 DEF WatchMerges
    <3>2. ~WatchWipes
      BY <2>1 DEF WatchMerges, WatchWipes, WatchAt
    <3> QED BY <3>1, <3>2 DEF TypeOK, HistOK
  <2>2. CASE WatchWipes
    <3>1. hist' = [hist EXCEPT !.unsaved = {}, !.agentReplies = {}, !.raced = @ \/ Outdated]
      BY <2>2 DEF WatchWipes, ClearAllCommentData
    <3> QED BY <3>1 DEF TypeOK, HistOK
  <2> QED BY <2>1, <2>2
<1>3. UnsavedOK'
  BY <1>1, <1>2, NoCommentsLemma DEF SavesOK, UnsavedOK, Idle
<1>4. RoundsOK'
  <2>1. watch'.pc = "idle" /\ watch.pc \notin BeforeAdvance \cup {"load", "saving"}
    BY <1>1 DEF Idle, BeforeAdvance
  <2>2. CASE WatchWipes
    <3>1. hist'.unsaved = {}
      BY <1>2, <2>2
    <3>2. round' >= 1
      BY <1>1 DEF SavesOK, RoundsOK
    <3> QED BY <1>1, <2>1, <3>1, <3>2 DEF SavesOK, RoundsOK, Missing, WatchAt
  <2>3. CASE ~WatchWipes
    BY <1>1, <1>2, <2>1, <2>3 DEF SavesOK, RoundsOK, FileLags, BeforeAdvance, WatchAt, Missing
  <2> QED BY <2>2, <2>3
<1> QED BY <1>1, <1>2, <1>3, <1>4, SavesUntouched DEF SavesOK, Disturbed

LEMMA SavesSignal == TypeOK /\ SavesOK /\ SignalRoundComplete => SavesOK'
<1> SUFFICES ASSUME TypeOK, SavesOK, SignalRoundComplete PROVE SavesOK'
  OBVIOUS
<1>1. /\ pending' = FALSE /\ roundChan' = TRUE /\ mem' = ReviewOnly(mem)
      /\ UNCHANGED <<round, writer, watch, disk>> /\ writer.pc = "free"
  BY DEF SignalRoundComplete, At
<1>2. hist'.unsaved = hist.unsaved \cap ReviewLevel /\ UNCHANGED <<hist.born, hist.deleted>>
  BY DEF SignalRoundComplete, TypeOK, HistOK
<1>3. DOMAIN mem' = DOMAIN mem \cap ReviewLevel
  BY <1>1, LevelLemma DEF TypeOK, MemoryOK
<1>4. UnsavedOK'
  BY <1>1, <1>2, <1>3 DEF SavesOK, UnsavedOK
<1>5. RoundsOK'
  BY <1>1, <1>2 DEF SavesOK, RoundsOK, Missing, WatchAt
<1> QED BY <1>1, <1>4, <1>5 DEF SavesOK, SaveHasAll, WrittenIsThere, PendingIsScheduled, At

LEMMA SavesRound ==
  TypeOK /\ SavesOK /\ (RoundReads \/ RoundLoads \/ RoundCarries \/ RoundRestores \/ RoundAdvances)
  => SavesOK'
<1> SUFFICES ASSUME TypeOK, SavesOK,
                    RoundReads \/ RoundLoads \/ RoundCarries \/ RoundRestores \/ RoundAdvances
             PROVE  SavesOK'
  OBVIOUS
<1>1. UNCHANGED <<pending, seq, timers, writer, disk>>
  BY DEF RoundReads, RoundLoads, RoundCarries, RoundRestores, RoundAdvances, flags
<1>2. CASE RoundReads
  <2>1. /\ UNCHANGED <<mem, round, hist>> /\ roundChan /\ roundChan' = FALSE
        /\ watch' = [pc |-> "load", mtime |-> disk.mtime, comments |-> disk.comments,
                     round |-> disk.round]
        /\ watch.pc = "idle"
    BY <1>2 DEF RoundReads, memory, WatchAt
  <2>2. UnsavedOK'
    BY <1>1, <2>1 DEF SavesOK, UnsavedOK
  <2>3. watch'.mtime = NoMtime => disk'.round <= round'
    <3>1. round \in Nat /\ (Missing => disk.round = 0)
      BY DEF SavesOK, RoundsOK, TypeOK, MemoryOK
    <3>2. watch'.mtime = disk.mtime
      BY <2>1
    <3> QED BY <1>1, <2>1, <3>1, <3>2 DEF Missing
  <2>4. RoundsOK'
    BY <1>1, <2>1, <2>3 DEF SavesOK, RoundsOK, FileLags, WatchAt, Missing
  <2> QED BY <1>1, <2>1, <2>2, <2>4, SavesUntouched DEF SavesOK, Disturbed
<1>3. CASE RoundLoads
  <2>1. /\ UNCHANGED <<round, roundChan>> /\ watch.pc = "load"
        /\ watch' = [watch EXCEPT !.pc = "carry"]
        /\ hist' = [hist EXCEPT !.unsaved = @ \cap DOMAIN mem']
        /\ \/ watch.mtime = NoMtime
           \/ mem' = Override(FileLevel(mem), ReviewOnly(watch.comments))
    BY <1>3 DEF RoundLoads, WatchTo, WatchAt
  <2>2. /\ hist'.unsaved = hist.unsaved \cap DOMAIN mem'
        /\ UNCHANGED <<hist.born, hist.deleted, hist.removed, hist.raced, hist.failed>>
    BY <2>1 DEF TypeOK, HistOK
  <2>3. watch'.pc = "carry" /\ watch'.comments = watch.comments
    BY <2>1 DEF TypeOK, WatchOK
  <2>4. UnsavedOK'
    BY <1>1, <2>2, <2>3 DEF SavesOK, UnsavedOK
  <2>5. watch.mtime # NoMtime /\ ~pending => hist'.unsaved = {}
    <3>1. watch.mtime # NoMtime =>
            DOMAIN mem' \subseteq (DOMAIN mem \ ReviewLevel) \cup DOMAIN watch.comments
      <4>1. IsCommentSet(mem) /\ IsCommentSet(watch.comments)
        BY DEF TypeOK, MemoryOK, WatchOK
      <4>2. /\ IsCommentSet(FileLevel(mem)) /\ DOMAIN FileLevel(mem) = DOMAIN mem \ ReviewLevel
            /\ IsCommentSet(ReviewOnly(watch.comments))
            /\ DOMAIN ReviewOnly(watch.comments) \subseteq DOMAIN watch.comments
        BY <4>1, LevelLemma
      <4>3. DOMAIN Override(FileLevel(mem), ReviewOnly(watch.comments))
              = DOMAIN FileLevel(mem) \cup DOMAIN ReviewOnly(watch.comments)
        BY <4>2, OverrideLemma
      <4> QED BY <2>1, <4>2, <4>3
    <3>2. ~pending => hist.unsaved \subseteq ReviewLevel
      BY <2>1 DEF SavesOK, RoundsOK, WatchAt
    <3>3. hist.unsaved \cap DOMAIN watch.comments = {}
      BY DEF SavesOK, UnsavedOK
    <3> QED BY <2>2, <3>1, <3>2, <3>3
  <2>6. RoundsOK'
    <3>1. FileLags /\ watch.mtime = NoMtime => FileLags'
      BY <1>1, <2>1, <2>3 DEF FileLags, BeforeAdvance, WatchAt
    <3>2. /\ writer.by # "round"
          /\ (roundChan \/ TRUE) /\ ~pending => hist.unsaved \subseteq ReviewLevel
      BY <2>1 DEF SavesOK, RoundsOK, WatchAt
    <3>3. ~roundChan' /\ ~pending' => hist'.unsaved = {} \/ FileLags'
      BY <1>1, <2>1, <2>2, <2>5, <3>1 DEF SavesOK, RoundsOK
    <3>4. round' >= 1 /\ (Missing' => disk'.round = 0)
      BY <1>1, <2>1 DEF SavesOK, RoundsOK, Missing
    <3> QED BY <1>1, <2>1, <2>2, <2>3, <3>2, <3>3, <3>4 DEF RoundsOK, WatchAt
  <2> QED BY <1>1, <2>2, <2>4, <2>6, SavesUntouched DEF SavesOK, Disturbed
<1>4. CASE RoundCarries \/ RoundRestores
  <2>1. /\ UNCHANGED <<round, roundChan, hist>> /\ watch.pc \in {"carry", "restore"}
        /\ watch' = [watch EXCEPT !.pc = IF watch.pc = "carry" THEN "restore" ELSE "advance"]
    BY <1>4 DEF RoundCarries, RoundRestores, WatchTo, WatchAt
  <2>2. watch'.pc \in {"restore", "advance"} /\ watch'.comments = watch.comments
    BY <2>1 DEF TypeOK, WatchOK
  <2>3. DOMAIN mem \subseteq DOMAIN mem'
    <3>1. CASE RoundCarries
      <4>1. IsCommentSet(FileLevel(watch.comments)) /\ IsCommentSet(mem)
        BY LevelLemma DEF TypeOK, MemoryOK, WatchOK
      <4>2. mem' = Override(FileLevel(watch.comments), mem)
        BY <3>1 DEF RoundCarries, CarryForward
      <4> QED BY <4>1, <4>2, OverrideLemma
    <3>2. CASE RoundRestores
      <4>1. IsCommentSet(Without(disk.comments, tomb)) /\ IsCommentSet(mem)
        BY WithoutLemma DEF TypeOK, DiskOK, MemoryOK
      <4>2. IsCommentSet(FileLevel(Without(disk.comments, tomb)))
        BY <4>1, LevelLemma
      <4>3. DOMAIN mem \subseteq DOMAIN Override(mem, FileLevel(Without(disk.comments, tomb)))
        BY <4>1, <4>2, OverrideLemma
      <4> QED BY <3>2, <4>3 DEF RoundRestores
    <3> QED BY <1>4, <3>1, <3>2
  <2>4. UnsavedOK'
    BY <1>1, <2>1, <2>2, <2>3 DEF SavesOK, UnsavedOK
  <2>5. RoundsOK'
    BY <1>1, <2>1, <2>2 DEF SavesOK, RoundsOK, FileLags, BeforeAdvance, WatchAt, Missing
  <2> QED BY <1>1, <2>1, <2>4, <2>5, SavesUntouched DEF SavesOK, Disturbed
<1>5. CASE RoundAdvances
  <2>1. /\ UNCHANGED <<mem, roundChan, hist>> /\ round' = round + 1 /\ watch.pc = "advance"
        /\ watch' = [watch EXCEPT !.pc = "persist"]
    BY <1>5 DEF RoundAdvances, WatchTo, WatchAt
  <2>2. watch'.pc = "persist" /\ watch'.comments = watch.comments
    BY <2>1 DEF TypeOK, WatchOK
  <2>3. UnsavedOK'
    BY <1>1, <2>1, <2>2 DEF SavesOK, UnsavedOK
  <2>4. round \in Nat /\ disk.round \in Nat
    BY DEF TypeOK, MemoryOK, DiskOK
  <2>5. FileLags => FileLags'
    BY <1>1, <2>1, <2>2, <2>4 DEF FileLags, BeforeAdvance, WatchAt, SavesOK, RoundsOK
  <2>6. RoundsOK'
    BY <1>1, <2>1, <2>2, <2>4, <2>5 DEF SavesOK, RoundsOK, WatchAt, Missing
  <2> QED BY <1>1, <2>1, <2>3, <2>6, SavesUntouched DEF SavesOK, Disturbed
<1> QED BY <1>2, <1>3, <1>4, <1>5

LEMMA SavesPersist == TypeOK /\ SavesOK /\ PersistAfterRoundComplete => SavesOK'
<1> SUFFICES ASSUME TypeOK, SavesOK, PersistAfterRoundComplete PROVE SavesOK'
  OBVIOUS
<1>1. /\ UNCHANGED <<mem, round, pending, roundChan, disk, hist>> /\ watch.pc = "persist"
      /\ writer'.pc = "check" /\ watch' = [watch EXCEPT !.pc = "saving"]
  BY DEF PersistAfterRoundComplete, SyncWriteFiles, WatchAt, WatchTo, memory, flags, Free
<1>2. watch'.pc = "saving" /\ watch'.comments = watch.comments
  BY <1>1 DEF TypeOK, WatchOK
<1>3. UnsavedOK'
  BY <1>1, <1>2 DEF SavesOK, UnsavedOK
<1>4. RoundsOK'
  BY <1>1, <1>2 DEF SavesOK, RoundsOK, FileLags, BeforeAdvance, WatchAt, Missing
<1> QED BY <1>1, <1>3, <1>4 DEF SavesOK, SaveHasAll, WrittenIsThere, PendingIsScheduled, At
-----------------------------------------------------------------------------
(* Other processes.                                                        *)

LEMMA SavesAgents == TypeOK /\ Provenance /\ SavesOK /\ Agents => SavesOK'
<1> SUFFICES ASSUME TypeOK, Provenance, SavesOK, Agents PROVE SavesOK'
  OBVIOUS
<1>1. /\ UNCHANGED <<mem, round, pending, seq, timers, writer, watch, roundChan>>
      /\ writer.pc \notin {"merge", "snapshot", "save", "ack", "ackEmpty"}
  BY DEF Agents, AgentComments, AgentReplies, memory, flags, FlockHeld
<1>2. disk'.mtime # NoMtime /\ disk'.round = IF Missing THEN 1 ELSE disk.round
  <2>1. PICK cs : AgentSaves(cs)
    BY DEF Agents, AgentComments, AgentReplies
  <2>2. NewMtime # NoMtime
    BY NewMtimeLemma, MtimeAssumption DEF TypeOK, DiskOK, FlagsOK, WatchOK
  <2> QED BY <2>1, <2>2 DEF AgentSaves, TypeOK, DiskOK
<1>3. /\ UNCHANGED <<hist.unsaved, hist.deleted, hist.removed, hist.raced, hist.failed>>
      /\ hist.born \subseteq hist'.born
      /\ DOMAIN disk'.comments \cap hist.unsaved = {}
  <2>1. ASSUME NEW c \in CommentId, AgentComments(c)
        PROVE  /\ UNCHANGED <<hist.unsaved, hist.deleted, hist.removed, hist.raced, hist.failed>>
               /\ hist.born \subseteq hist'.born
               /\ DOMAIN disk'.comments \cap hist.unsaved = {}
    <3>1. hist' = [hist EXCEPT !.born = @ \cup {c}] /\ c \notin hist.born
      BY <2>1 DEF AgentComments
    <3>2. DOMAIN disk'.comments = DOMAIN disk.comments \cup {c}
      BY <2>1, WithLemma, NoCommentsLemma DEF AgentComments, AgentSaves, TypeOK, DiskOK
    <3>3. c \notin hist.unsaved
      BY <3>1 DEF SavesOK, UnsavedOK, Provenance
    <3> QED BY <3>1, <3>2, <3>3 DEF TypeOK, HistOK, SavesOK, UnsavedOK
  <2>2. ASSUME NEW c \in CommentId, NEW r \in ReplyId, NEW resolve \in BOOLEAN, AgentReplies(c, r, resolve)
        PROVE  /\ UNCHANGED <<hist.unsaved, hist.deleted, hist.removed, hist.raced, hist.failed>>
               /\ hist.born \subseteq hist'.born
               /\ DOMAIN disk'.comments \cap hist.unsaved = {}
    <3>1. hist' = [hist EXCEPT !.said = @ \cup {r}, !.agentReplies = @ \cup {<<c, r>>}]
      BY <2>2 DEF AgentReplies
    <3>2. DOMAIN disk'.comments = DOMAIN disk.comments
      BY <2>2 DEF AgentReplies, AgentSaves, With, TypeOK, DiskOK
    <3> QED BY <3>1, <3>2 DEF TypeOK, HistOK, SavesOK, UnsavedOK
  <2> QED BY <2>1, <2>2 DEF Agents
<1>4. UnsavedOK'
  BY <1>1, <1>3 DEF SavesOK, UnsavedOK
<1>5. RoundsOK'
  <2>1. round \in Nat /\ disk.round \in Nat /\ round >= 1 /\ (Missing => disk.round = 0)
    BY DEF TypeOK, MemoryOK, DiskOK, SavesOK, RoundsOK
  <2>2. FileLags => FileLags'
    BY <1>1, <1>2, <2>1 DEF FileLags, WatchAt
  <2>3. ~Missing'
    BY <1>2 DEF Missing
  <2> QED BY <1>1, <1>3, <2>1, <2>2, <2>3 DEF SavesOK, RoundsOK, WatchAt
<1>6. SaveHasAll' /\ WrittenIsThere'
  BY <1>1 DEF SaveHasAll, WrittenIsThere, At
<1>7. PendingIsScheduled'
  BY <1>1, <1>3 DEF SavesOK, PendingIsScheduled, Disturbed, timers
<1> QED BY <1>4, <1>5, <1>6, <1>7 DEF SavesOK

LEMMA SavesRemoval == TypeOK /\ SavesOK /\ (FolderCleared \/ FileRemoved) => SavesOK'
<1> SUFFICES ASSUME TypeOK, SavesOK, FolderCleared \/ FileRemoved PROVE SavesOK'
  OBVIOUS
<1>1. /\ UNCHANGED <<mem, round, pending, seq, timers, writer, watch, roundChan>>
      /\ disk' = NoFile
  BY DEF FolderCleared, FileRemoved, memory, flags
<1>2. hist'.removed /\ UNCHANGED <<hist.unsaved, hist.born, hist.deleted>>
  BY DEF FolderCleared, FileRemoved, TypeOK, HistOK
<1>3. DOMAIN disk'.comments = {} /\ disk'.round = 0
  BY <1>1, NoCommentsLemma DEF NoFile
<1>4. UnsavedOK'
  BY <1>1, <1>2, <1>3 DEF SavesOK, UnsavedOK
<1>5. RoundsOK'
  <2>1. round \in Nat /\ disk.round \in Nat /\ round >= 1
    BY DEF TypeOK, MemoryOK, DiskOK, SavesOK, RoundsOK
  <2>2. FileLags => FileLags'
    BY <1>1, <1>3, <2>1 DEF FileLags, WatchAt
  <2> QED BY <1>1, <1>2, <1>3, <2>1, <2>2 DEF SavesOK, RoundsOK, WatchAt
<1>6. SaveHasAll'
  BY <1>1, <1>2 DEF SavesOK, SaveHasAll, NothingSince, At
<1>7. WrittenIsThere' /\ PendingIsScheduled'
  BY <1>2 DEF WrittenIsThere, PendingIsScheduled, Disturbed
<1> QED BY <1>4, <1>5, <1>6, <1>7 DEF SavesOK

LEMMA SavesRestart == TypeOK /\ SavesOK /\ Restart => SavesOK'
<1> SUFFICES ASSUME TypeOK, SavesOK, Restart PROVE SavesOK'
  OBVIOUS
<1>1. /\ writer' = Free /\ watch' = Idle /\ roundChan' = FALSE /\ pending' = FALSE
      /\ disk' = disk /\ round' = IF disk.round > 1 THEN disk.round ELSE 1
  BY DEF Restart
<1>2. hist'.unsaved = {} /\ hist'.born = hist.born /\ hist'.deleted \subseteq hist.deleted
  BY DEF Restart, TypeOK, HistOK
<1>3. UnsavedOK'
  BY <1>1, <1>2 DEF SavesOK, UnsavedOK
<1>4. round' >= 1
  BY <1>1 DEF TypeOK, DiskOK
<1>5. RoundsOK'
  BY <1>1, <1>2, <1>4 DEF SavesOK, RoundsOK, Free, Missing
<1>6. SaveHasAll' /\ WrittenIsThere' /\ PendingIsScheduled'
  BY <1>1 DEF SaveHasAll, WrittenIsThere, PendingIsScheduled, At, Free
<1> QED BY <1>3, <1>5, <1>6 DEF SavesOK
-----------------------------------------------------------------------------
LEMMA SavesNext == TypeOK /\ Provenance /\ SavesOK /\ [Next]_vars => SavesOK'
<1> SUFFICES ASSUME TypeOK, Provenance, SavesOK, [Next]_vars PROVE SavesOK'
  OBVIOUS
<1>1. CASE UNCHANGED vars
  BY <1>1 DEF vars, memory, flags, timers, SavesOK, UnsavedOK, SaveHasAll, NothingSince, At, RoundsOK,
              FileLags, WatchAt, Missing, WrittenIsThere, PendingIsScheduled, Disturbed
<1>2. CASE Writer \/ TimerFires \/ Finish \/ SaveFails \/ ClearMemory \/ ClearReviewFolder
  BY <1>2, SavesEarly, SavesSnapshot, SavesSave, SavesFail, SavesAcknowledge, SavesWipe, SavesClear
  DEF Writer
<1>3. CASE Watcher \/ SignalRoundComplete
  BY <1>3, SavesWatch, SavesReload, SavesSignal, SavesRound, SavesPersist DEF Watcher
<1>4. CASE Reviewer \/ Agents \/ FolderCleared \/ FileRemoved \/ Restart
  BY <1>4, SavesReviewer, SavesAgents, SavesRemoval, SavesRestart
<1> QED BY <1>1, <1>2, <1>3, <1>4 DEF Next

LEMMA SavesInvariant == Spec => [](TypeOK /\ Provenance /\ SavesOK)
<1>1. Init => TypeOK /\ Provenance /\ SavesOK
  BY TypeInit, ProvenanceInit, SavesInit
<1>2. TypeOK /\ Provenance /\ SavesOK /\ [Next]_vars => (TypeOK /\ Provenance /\ SavesOK)'
  BY TypeNext, ProvenanceNext, SavesNext
<1> QED BY <1>1, <1>2, PTL DEF Spec

(* A comment no save has put on disk is in memory and its save is still to *)
(* come, or the file's round shows that it is behind: for any numbers of   *)
(* comments, agents' writes, rounds, failures and restarts.                *)
THEOREM UnsavedStaysPending == Spec => []UnsavedIsPending
<1>1. TypeOK /\ Provenance /\ SavesOK => UnsavedIsPending
  BY DEF SavesOK, UnsavedOK, RoundsOK, FileLags, BeforeAdvance, WatchAt, UnsavedIsPending, InRound
<1> QED BY <1>1, SavesInvariant, PTL

(* A pending write has someone to carry it out, until a save fails, the    *)
(* file is removed or a reload races.                                      *)
THEOREM PendingStaysScheduled == Spec => []PendingIsScheduled
<1>1. TypeOK /\ Provenance /\ SavesOK => PendingIsScheduled
  BY DEF SavesOK
<1> QED BY <1>1, SavesInvariant, PTL
-----------------------------------------------------------------------------
(* The merges, while no round is completed: a round may bring a deleted    *)
(* comment of the review as a whole back.                                  *)

NoRounds == "signal" \notin Enabled
NoRemovals == Enabled \cap {"clear", "cleanup", "remove"} = {}

(* The watcher completes no round.                                         *)
NoRound ==
  /\ roundChan = FALSE /\ writer.by # "round"
  /\ watch.pc \in {"idle", "compare", "read", "merge", "wipe"}

(* A comment with a tombstone is not in memory; a save that has it in its  *)
(* snapshot writes a file without that comment.                            *)
TombsOK ==
  /\ NoRound
  /\ tomb \cap DOMAIN mem = {} /\ hist.deleted \subseteq hist.born
  /\ At("save") => writer.snap.tomb \cap DOMAIN writer.snap.mem = {}
  /\ At("ack") \/ At("ackEmpty") => writer.snap.tomb \cap DOMAIN disk.comments = {}

(* A deletion is pending as long as it has a tombstone: the save that ends *)
(* the pending write has them all.                                         *)
PendingTombs ==
  /\ ~hist.removed
  /\ tomb # {} => pending
  /\ writer.pc \in {"save", "ack", "ackEmpty"} /\ seq.write = writer.snap.write
       => tomb \subseteq writer.snap.tomb

(* Wherever a deleted comment still is, its tombstone keeps it from memory; *)
(* a file whose time has not moved since the watcher looked is what it read. *)
DeletedMarked ==
  /\ hist.deleted \cap DOMAIN mem = {}
  /\ hist.deleted \cap DOMAIN disk.comments \subseteq tomb
  /\ At("save") => hist.deleted \cap DOMAIN writer.snap.mem \subseteq tomb \ writer.snap.tomb
  /\ WatchAt("merge") /\ watch.mtime = disk.mtime => watch.comments = disk.comments

DeletesOK ==
  /\ PendingTombs
  /\ watch.pc \in {"read", "merge"} => watch.mtime # NoMtime
  /\ hist.raced \/ DeletedMarked
-----------------------------------------------------------------------------

LEMMA NewTimes ==
  ASSUME TypeOK PROVE NewMtime # NoMtime /\ NewMtime # watch.mtime /\ NewMtime # last
<1>1. {disk.mtime, last, watch.mtime} \subseteq Mtime \cup {NoMtime}
  BY DEF TypeOK, DiskOK, FlagsOK, WatchOK
<1>2. \E m \in Mtime : m \notin {disk.mtime, last, watch.mtime}
  BY <1>1, MtimeAssumption
<1>3. NewMtime \in Mtime /\ NewMtime \notin {disk.mtime, last, watch.mtime}
  BY <1>2 DEF NewMtime
<1> QED BY <1>3, MtimeAssumption

(* A file that is built holds comments of the snapshot and, of the older   *)
(* file, what the snapshot has no tombstone for.                           *)
LEMMA BuildLeavesOut ==
  ASSUME NEW cs, IsCommentSet(cs), NEW onDisk, IsCommentSet(onDisk), NEW ids
  PROVE  DOMAIN BuildComments(cs, onDisk, ids) \subseteq DOMAIN cs \cup (DOMAIN onDisk \ ids)
<1>1. /\ IsCommentSet(Without(onDisk, ids)) /\ DOMAIN Without(onDisk, ids) = DOMAIN onDisk \ ids
      /\ DOMAIN Override(cs, Without(onDisk, ids)) = DOMAIN cs \cup DOMAIN Without(onDisk, ids)
  BY WithoutLemma, OverrideLemma
<1> QED BY <1>1 DEF BuildComments, MergeDiskComments, ApplyDeletedCommentIDs, Without

(* What the steps do to what the invariants read.  The reviewer's:         *)
Handled ==
  /\ UNCHANGED <<writer, watch, roundChan, disk>>
  /\ pending' = TRUE /\ seq'.write = seq.write + 1
  /\ UNCHANGED <<hist.raced, hist.removed>> /\ hist.born \subseteq hist'.born
  /\ \/ UNCHANGED tomb /\ hist'.deleted = hist.deleted
        /\ DOMAIN mem' \subseteq DOMAIN mem \cup (CommentId \ hist.born)
     \/ \E c \in CommentId :
          /\ tomb' = tomb \cup {c} /\ DOMAIN mem' = DOMAIN mem \ {c} /\ c \in DOMAIN mem
          /\ hist'.deleted = hist.deleted \cup {c}

LEMMA ReviewerHandles == TypeOK /\ Reviewer => Handled
<1> SUFFICES ASSUME TypeOK, Reviewer PROVE Handled
  OBVIOUS
<1>1. ASSUME NEW c \in CommentId, AddComment(c) PROVE Handled
  <2>1. DOMAIN mem' = DOMAIN mem \cup {c} /\ c \notin hist.born
    BY <1>1, WithLemma, NoCommentsLemma DEF TypeOK, MemoryOK, AddComment
  <2> QED BY <1>1, <2>1 DEF TypeOK, HistOK, AddComment, ScheduleWrite, Handled
<1>2. ASSUME NEW c \in CommentId, DeleteComment(c) PROVE Handled
  <2>1. DOMAIN mem' = DOMAIN mem \ {c} /\ c \in DOMAIN mem
    BY <1>2, WithoutLemma DEF TypeOK, MemoryOK, DeleteComment
  <2>2. /\ hist'.deleted = hist.deleted \cup {c} /\ tomb' = tomb \cup {c}
        /\ UNCHANGED <<hist.born, hist.raced, hist.removed>>
    BY <1>2 DEF TypeOK, HistOK, DeleteComment
  <2> QED BY <1>2, <2>1, <2>2 DEF DeleteComment, ScheduleWrite, Handled
<1>3. ASSUME NEW c \in CommentId, NEW resolved \in BOOLEAN, SetCommentResolved(c, resolved)
      PROVE  Handled
  <2>1. DOMAIN mem' = DOMAIN mem
    BY <1>3 DEF SetCommentResolved, With
  <2> QED BY <1>3, <2>1 DEF SetCommentResolved, ScheduleWrite, Handled
<1>4. ASSUME NEW c \in CommentId, NEW r \in ReplyId, AddReply(c, r) \/ DeleteReply(c, r)
      PROVE  Handled
  <2>1. DOMAIN mem' = DOMAIN mem
    BY <1>4 DEF AddReply, DeleteReply, With
  <2>2. UNCHANGED <<hist.born, hist.deleted, hist.raced, hist.removed>>
    BY <1>4 DEF AddReply, DeleteReply, TypeOK, HistOK
  <2>3. UNCHANGED <<writer, watch, roundChan, disk, tomb>> /\ pending' = TRUE /\ seq'.write = seq.write + 1
    BY <1>4 DEF AddReply, DeleteReply, ScheduleWrite
  <2> QED BY <2>1, <2>2, <2>3 DEF Handled
<1> QED BY <1>1, <1>2, <1>3, <1>4 DEF Reviewer

(* writeMu is taken or given back, or a save goes on, with no change of    *)
(* tombstones or of the comments there are.                                *)
Moved ==
  /\ UNCHANGED <<tomb, roundChan, pending>> /\ DOMAIN mem' = DOMAIN mem
  /\ seq'.write = seq.write
  /\ UNCHANGED <<hist.born, hist.deleted, hist.raced, hist.removed>>
  /\ watch' = watch \/ (watch' = Idle /\ writer.by = "round")
  /\ disk' = disk \/ (disk' = NoFile /\ "clear" \in Enabled)
  /\ writer'.pc \notin {"save", "ack", "ackEmpty"} \/ writer' = writer
  /\ writer'.by \in {writer.by, "none", "timer", "finish"}

LEMMA WriterMoves ==
  TypeOK /\ (TimerFires \/ (\E gen \in fired : TimerCallback(gen)) \/ Finish
             \/ CheckExternalDeletion \/ MergeReplies \/ SaveFails)
  => Moved
<1> SUFFICES ASSUME TypeOK,
                    TimerFires \/ (\E gen \in fired : TimerCallback(gen)) \/ Finish
                    \/ CheckExternalDeletion \/ MergeReplies \/ SaveFails
             PROVE  Moved
  OBVIOUS
<1>1. CASE TimerFires
  BY <1>1 DEF TimerFires, memory, flags, Moved
<1>2. CASE \E gen \in fired : TimerCallback(gen)
  BY <1>2 DEF TimerCallback, memory, flags, Moved, Free
<1>3. CASE Finish
  BY <1>3 DEF Finish, SyncWriteFiles, StopTimer, TypeOK, TimersOK, memory, flags, Moved, Free
<1>4. CASE CheckExternalDeletion
  BY <1>4 DEF CheckExternalDeletion, WriterTo, TypeOK, WriterOK, memory, flags, Moved
<1>5. CASE MergeReplies
  <2>1. DOMAIN mem' = DOMAIN mem
    BY <1>5, AddNewRepliesLemma DEF MergeReplies, TypeOK, MemoryOK, DiskOK
  <2> QED BY <1>5, <2>1 DEF MergeReplies, WriterTo, TypeOK, WriterOK, flags, Moved
<1>6. CASE SaveFails
  <2>1. UNCHANGED <<hist.born, hist.deleted, hist.raced, hist.removed>>
    BY <1>6 DEF SaveFails, TypeOK, HistOK
  <2> QED BY <1>6, <2>1 DEF SaveFails, Release, Free, memory, flags, Moved
<1> QED BY <1>1, <1>2, <1>3, <1>4, <1>5, <1>6
-----------------------------------------------------------------------------
(* Each step keeps the invariants; what is proved of a step under NoRounds *)
(* is this.                                                                *)
Kept == TombsOK' /\ (NoRemovals /\ DeletesOK => DeletesOK')

LEMMA KeptHandled == TypeOK /\ Provenance /\ TombsOK /\ Handled => Kept
<1> SUFFICES ASSUME TypeOK, Provenance, TombsOK, Handled PROVE Kept
  OBVIOUS
<1>1. /\ UNCHANGED <<writer, watch, roundChan, disk>>
      /\ pending' = TRUE /\ seq'.write = seq.write + 1
      /\ UNCHANGED <<hist.raced, hist.removed>> /\ hist.born \subseteq hist'.born
  BY DEF Handled
<1>2. seq.write \in Nat /\ writer.snap.write \in 0..seq.write
  BY DEF TypeOK, TimersOK, WriterOK, SnapshotOK
<1>3. /\ tomb \subseteq hist.deleted /\ hist.deleted \subseteq hist.born
      /\ tomb \cap DOMAIN mem = {} /\ DOMAIN mem \subseteq hist.born
  BY DEF TombsOK, Provenance
<1>4. tomb' \cap DOMAIN mem' = {} /\ hist'.deleted \subseteq hist'.born
  BY <1>1, <1>3 DEF Handled
<1>5. TombsOK'
  BY <1>1, <1>4 DEF TombsOK, NoRound, At
<1>6. ASSUME DeletesOK PROVE DeletesOK'
  <2>1. PendingTombs'
    BY <1>1, <1>2, <1>6 DEF DeletesOK, PendingTombs
  <2>2. ASSUME DeletedMarked PROVE DeletedMarked'
    <3>1. hist'.deleted \cap DOMAIN mem' = {}
      BY <1>1, <1>3, <2>2 DEF DeletedMarked, Handled
    <3>2. hist'.deleted \cap DOMAIN disk'.comments \subseteq tomb'
      BY <1>1, <2>2 DEF DeletedMarked, Handled
    <3>3. /\ hist'.deleted \ hist.deleted \subseteq tomb' /\ tomb \subseteq tomb'
          /\ hist'.deleted \ hist.deleted \subseteq DOMAIN mem
      BY DEF Handled
    <3>4. At("save") =>
            hist'.deleted \cap DOMAIN writer.snap.mem \subseteq tomb' \ writer.snap.tomb
      BY <3>3, <2>2 DEF DeletedMarked, TombsOK
    <3> QED BY <1>1, <2>2, <3>1, <3>2, <3>4 DEF DeletedMarked, At, WatchAt
  <2> QED BY <1>1, <1>6, <2>1, <2>2 DEF DeletesOK
<1> QED BY <1>5, <1>6 DEF Kept

LEMMA KeptMoved == TombsOK /\ Moved => Kept
<1> SUFFICES ASSUME TombsOK, Moved PROVE Kept
  OBVIOUS
<1>1. watch' = watch
  BY DEF Moved, TombsOK, NoRound
<1>2. DOMAIN disk'.comments \subseteq DOMAIN disk.comments
  BY NoCommentsLemma DEF Moved, NoFile
<1>3. TombsOK'
  BY <1>1, <1>2 DEF Moved, TombsOK, NoRound, At
<1>4. ASSUME NoRemovals, DeletesOK PROVE DeletesOK'
  <2>1. disk' = disk
    BY <1>4 DEF Moved, NoRemovals
  <2>2. PendingTombs'
    BY <1>4 DEF Moved, DeletesOK, PendingTombs
  <2>3. DeletedMarked => DeletedMarked'
    BY <1>1, <2>1 DEF Moved, DeletedMarked, At, WatchAt
  <2> QED BY <1>1, <1>4, <2>2, <2>3 DEF DeletesOK, Moved
<1> QED BY <1>3, <1>4 DEF Kept

LEMMA KeptSnapshot == TypeOK /\ TombsOK /\ SnapshotForWrite => Kept
<1> SUFFICES ASSUME TypeOK, TombsOK, SnapshotForWrite PROVE Kept
  OBVIOUS
<1>1. UNCHANGED <<mem, tomb, pending, seq, watch, roundChan, disk, hist>>
  BY DEF SnapshotForWrite, memory, flags
<1>2. /\ writer'.pc = "save" /\ writer'.by = writer.by /\ writer'.snap.mem = mem
      /\ writer'.snap.tomb = tomb
  BY DEF SnapshotForWrite, TypeOK, WriterOK
<1>3. TombsOK'
  BY <1>1, <1>2 DEF TombsOK, NoRound, At
<1>4. DeletesOK => DeletesOK'
  BY <1>1, <1>2 DEF DeletesOK, PendingTombs, DeletedMarked, At, WatchAt
<1> QED BY <1>3, <1>4 DEF Kept

LEMMA KeptSave == TypeOK /\ TombsOK /\ SaveReviewFile => Kept
<1> SUFFICES ASSUME TypeOK, TombsOK, SaveReviewFile PROVE Kept
  OBVIOUS
<1> DEFINE snap == writer.snap
<1> DEFINE built == BuildComments(snap.mem, disk.comments, snap.tomb)
<1>1. UNCHANGED <<mem, tomb, pending, seq, watch, roundChan>>
  BY DEF SaveReviewFile, memory, flags
<1>2. /\ writer.pc = "save" /\ writer'.pc \in {"ack", "ackEmpty"}
      /\ writer'.by = writer.by /\ writer'.snap = writer.snap
  BY DEF SaveReviewFile, At, TypeOK, WriterOK
<1>3. UNCHANGED <<hist.born, hist.deleted, hist.removed, hist.raced>>
  BY DEF SaveReviewFile, TypeOK, HistOK
<1>4. DOMAIN disk'.comments \subseteq DOMAIN built
      /\ (disk'.mtime = NewMtime \/ disk'.mtime = NoMtime)
  BY NoCommentsLemma DEF SaveReviewFile, NoFile
<1>5. DOMAIN built \subseteq DOMAIN snap.mem \cup (DOMAIN disk.comments \ snap.tomb)
  BY BuildLeavesOut DEF TypeOK, WriterOK, SnapshotOK, DiskOK
<1> HIDE DEF built
<1>6. writer'.snap.tomb \cap DOMAIN disk'.comments = {}
  BY <1>2, <1>4, <1>5 DEF TombsOK, At
<1>7. TombsOK'
  BY <1>1, <1>2, <1>3, <1>6 DEF TombsOK, NoRound, At
<1>8. ASSUME DeletesOK PROVE DeletesOK'
  <2>1. PendingTombs'
    BY <1>1, <1>2, <1>3, <1>8 DEF DeletesOK, PendingTombs
  <2>2. ASSUME DeletedMarked PROVE DeletedMarked'
    <3>1. hist'.deleted \cap DOMAIN disk'.comments \subseteq tomb'
      BY <1>1, <1>2, <1>3, <1>4, <1>5, <2>2 DEF DeletedMarked, At
    <3>2. ~(WatchAt("merge") /\ watch.mtime = disk'.mtime)
      BY <1>4, <1>8, NewTimes DEF DeletesOK, WatchAt
    <3> QED BY <1>1, <1>2, <1>3, <2>2, <3>1, <3>2 DEF DeletedMarked, At, WatchAt
  <2> QED BY <1>1, <1>3, <1>8, <2>1, <2>2 DEF DeletesOK
<1> QED BY <1>7, <1>8 DEF Kept

(* What an acknowledgement forgets, the file does not have.                *)
LEMMA AcknowledgedTombs ==
  TombsOK /\ (AcknowledgeWrite \/ MarkEmptyWritten) => (tomb \ tomb') \cap DOMAIN disk.comments = {}
BY DEF TombsOK, AcknowledgeWrite, MarkEmptyWritten, AcknowledgeSnapshot, memory

LEMMA KeptAcknowledge == TombsOK /\ (AcknowledgeWrite \/ MarkEmptyWritten) => Kept
<1> SUFFICES ASSUME TombsOK, AcknowledgeWrite \/ MarkEmptyWritten PROVE Kept
  OBVIOUS
<1>1. /\ UNCHANGED <<mem, seq, roundChan, disk, hist>> /\ Release
      /\ writer.pc \in {"ack", "ackEmpty"}
  BY DEF AcknowledgeWrite, MarkEmptyWritten, memory, At
<1>2. \/ UNCHANGED <<tomb, pending>>
      \/ /\ pending' = (pending /\ seq.write # writer.snap.write)
         /\ tomb' = tomb \ writer.snap.tomb
  BY DEF AcknowledgeWrite, MarkEmptyWritten, AcknowledgeSnapshot, memory, flags
<1>3. writer'.pc = "free" /\ writer'.by = "none" /\ watch' = watch
  BY <1>1 DEF Release, Free, TombsOK, NoRound
<1>4. TombsOK'
  BY <1>1, <1>2, <1>3 DEF TombsOK, NoRound, At
<1>5. ASSUME DeletesOK PROVE DeletesOK'
  <2>1. PendingTombs'
    BY <1>1, <1>2, <1>3, <1>5 DEF DeletesOK, PendingTombs
  <2>2. ASSUME DeletedMarked PROVE DeletedMarked'
    <3>1. hist'.deleted \cap DOMAIN disk'.comments \subseteq tomb'
      BY <1>1, <2>2, AcknowledgedTombs DEF DeletedMarked
    <3> QED BY <1>1, <1>3, <2>2, <3>1 DEF DeletedMarked, At, WatchAt
  <2> QED BY <1>1, <1>3, <1>5, <2>1, <2>2 DEF DeletesOK
<1> QED BY <1>4, <1>5 DEF Kept

(* A wipe by whoever saves is a race here, where nobody removes the file;  *)
(* the watcher's is not only when nothing was pending.                     *)
LEMMA KeptWipes == TypeOK /\ TombsOK /\ (WriterWipes \/ WatchWipes) => Kept
<1> SUFFICES ASSUME TypeOK, TombsOK, WriterWipes \/ WatchWipes PROVE Kept
  OBVIOUS
<1>1. /\ mem' = NoComments /\ tomb' = {} /\ UNCHANGED <<seq, roundChan, disk, pending>>
  BY DEF WriterWipes, WatchWipes, ClearAllCommentData
<1>2. /\ UNCHANGED <<hist.born, hist.deleted, hist.removed>>
      /\ hist.raced => hist'.raced
      /\ \/ hist'.raced \/ hist.removed
         \/ ~pending
  <2>1. CASE WriterWipes
    <3>1. hist' = [hist EXCEPT !.unsaved = {}, !.agentReplies = {}, !.raced = @ \/ ~hist.removed]
      BY <2>1 DEF WriterWipes, ClearAllCommentData
    <3> QED BY <3>1 DEF TypeOK, HistOK
  <2>2. CASE WatchWipes
    <3>1. hist' = [hist EXCEPT !.unsaved = {}, !.agentReplies = {}, !.raced = @ \/ Outdated]
      BY <2>2 DEF WatchWipes, ClearAllCommentData
    <3> QED BY <3>1 DEF TypeOK, HistOK, Outdated
  <2> QED BY <2>1, <2>2
<1>3. /\ watch' = watch \/ watch'.pc = "idle"
      /\ writer' = writer \/ (writer'.pc = "free" /\ writer'.by = "none")
  BY DEF WriterWipes, WatchWipes, Release, Free, Idle
<1>4. TombsOK'
  BY <1>1, <1>2, <1>3, NoCommentsLemma DEF TombsOK, NoRound, At
<1>5. ASSUME DeletesOK PROVE DeletesOK'
  <2>1. PendingTombs'
    BY <1>1, <1>2, <1>3, <1>5 DEF DeletesOK, PendingTombs
  <2>2. ASSUME DeletedMarked, ~hist'.raced PROVE DeletedMarked'
    <3>1. tomb = {}
      BY <1>2, <1>5, <2>2 DEF DeletesOK, PendingTombs
    <3> QED BY <1>1, <1>2, <1>3, <2>2, <3>1, NoCommentsLemma DEF DeletedMarked, At, WatchAt
  <2> QED BY <1>2, <1>3, <1>5, <2>1, <2>2 DEF DeletesOK
<1> QED BY <1>4, <1>5 DEF Kept

LEMMA KeptClears == TypeOK /\ TombsOK /\ (ClearMemory \/ ClearReviewFolder) => Kept
<1> SUFFICES ASSUME TypeOK, TombsOK, ClearMemory \/ ClearReviewFolder PROVE Kept
  OBVIOUS
<1>1. CASE ClearMemory
  <2>1. /\ mem' = NoComments /\ UNCHANGED <<tomb, watch, roundChan, disk>>
        /\ writer'.pc = "clear" /\ writer'.by = "clear"
    BY <1>1 DEF ClearMemory, Free
  <2>2. UNCHANGED <<hist.born, hist.deleted>>
    BY <1>1 DEF ClearMemory, TypeOK, HistOK
  <2>3. TombsOK'
    BY <2>1, <2>2, NoCommentsLemma DEF TombsOK, NoRound, At
  <2>4. ~NoRemovals
    BY <1>1 DEF ClearMemory, Act, NoRemovals
  <2> QED BY <2>3, <2>4 DEF Kept
<1>2. CASE ClearReviewFolder
  <2>1. /\ UNCHANGED <<mem, tomb, roundChan, pending, seq, hist>> /\ disk' = NoFile
        /\ Release
    BY <1>2 DEF ClearReviewFolder, memory, flags
  <2>2. writer'.pc = "free" /\ writer'.by = "none" /\ watch' = watch
    BY <2>1 DEF Release, Free, TombsOK, NoRound
  <2>3. TombsOK'
    BY <2>1, <2>2 DEF TombsOK, NoRound, At
  <2>4. ASSUME DeletesOK PROVE DeletesOK'
    <3>1. DOMAIN disk'.comments = {} /\ disk'.mtime = NoMtime
      BY <2>1, NoCommentsLemma DEF NoFile
    <3> QED BY <2>1, <2>2, <2>4, <3>1
            DEF DeletesOK, PendingTombs, DeletedMarked, At, WatchAt
  <2> QED BY <2>3, <2>4 DEF Kept
<1> QED BY <1>1, <1>2

LEMMA KeptWatch == TypeOK /\ TombsOK /\ (WatchStats \/ WatchCompares \/ WatchReads) => Kept
<1> SUFFICES ASSUME TypeOK, TombsOK, WatchStats \/ WatchCompares \/ WatchReads PROVE Kept
  OBVIOUS
<1>1. UNCHANGED <<mem, tomb, pending, seq, writer, roundChan, disk, hist>>
  BY DEF WatchStats, WatchCompares, WatchReads, memory, flags
<1>2. /\ watch'.pc \in {"idle", "compare", "read", "merge", "wipe"}
      /\ watch'.pc = "read" => watch'.mtime # NoMtime
      /\ watch'.pc = "merge" =>
           watch'.comments = disk.comments /\ (watch.pc = "read" /\ watch'.mtime = watch.mtime)
  <2>1. CASE WatchStats
    BY <2>1 DEF WatchStats, Idle
  <2>2. CASE WatchCompares
    <3>1. \/ watch' = Idle \/ watch' = [watch EXCEPT !.pc = "wipe"]
          \/ watch' = [watch EXCEPT !.pc = "read"] /\ watch.mtime # NoMtime
      BY <2>2 DEF WatchCompares
    <3>2. CASE watch' = Idle
      BY <3>2 DEF Idle
    <3>3. CASE watch' = [watch EXCEPT !.pc = "wipe"]
      BY <3>3 DEF TypeOK, WatchOK
    <3>4. CASE watch' = [watch EXCEPT !.pc = "read"] /\ watch.mtime # NoMtime
      BY <3>4 DEF TypeOK, WatchOK
    <3> QED BY <3>1, <3>2, <3>3, <3>4
  <2>3. CASE WatchReads
    <3>1. CASE watch' = Idle
      BY <3>1 DEF Idle
    <3>2. CASE watch' = [watch EXCEPT !.pc = "merge", !.comments = disk.comments,
                                      !.round = disk.round]
      BY <2>3, <3>2 DEF TypeOK, WatchOK, WatchReads, WatchAt
    <3> QED BY <2>3, <3>1, <3>2 DEF WatchReads
  <2> QED BY <2>1, <2>2, <2>3
<1>3. TombsOK'
  BY <1>1, <1>2 DEF TombsOK, NoRound, At
<1>4. ASSUME DeletesOK PROVE DeletesOK'
  BY <1>1, <1>2, <1>4 DEF DeletesOK, PendingTombs, DeletedMarked, At, WatchAt
<1> QED BY <1>3, <1>4 DEF Kept

(* A reload that is no race has just what the file holds, and there is     *)
(* nothing with a tombstone then.                                          *)
LEMMA KeptMerge == TypeOK /\ TombsOK /\ WatchMerges => Kept
<1> SUFFICES ASSUME TypeOK, TombsOK, WatchMerges PROVE Kept
  OBVIOUS
<1>1. /\ UNCHANGED <<pending, seq, writer, roundChan, disk>> /\ watch'.pc = "idle"
      /\ watch.pc = "merge"
      /\ \/ UNCHANGED <<mem, tomb>>
         \/ mem' = MergeFromDisk(mem, watch.comments) /\ tomb' = {}
  BY DEF WatchMerges, Idle, WatchAt
<1>2. /\ UNCHANGED <<hist.born, hist.deleted, hist.removed>>
      /\ hist.raced => hist'.raced
      /\ hist'.raced \/ ~Outdated
  <2>1. hist' = [hist EXCEPT !.unsaved = @ \cap DOMAIN mem', !.raced = @ \/ Outdated]
    BY DEF WatchMerges
  <2> QED BY <2>1 DEF TypeOK, HistOK
<1>3. UNCHANGED <<mem, tomb>> \/ (DOMAIN mem' = DOMAIN watch.comments /\ tomb' = {})
  BY <1>1, MergeFromDiskLemma DEF TypeOK, MemoryOK, WatchOK
<1>4. TombsOK'
  BY <1>1, <1>2, <1>3 DEF TombsOK, NoRound, At
<1>5. ASSUME DeletesOK PROVE DeletesOK'
  <2>1. PendingTombs'
    BY <1>1, <1>2, <1>5 DEF DeletesOK, PendingTombs
  <2>2. ASSUME DeletedMarked, ~hist'.raced PROVE DeletedMarked'
    <3>1. tomb = {} /\ writer.pc = "free" /\ watch.comments = disk.comments
      BY <1>1, <1>2, <1>5, <2>2 DEF Outdated, DeletesOK, PendingTombs, DeletedMarked, WatchAt
    <3>2. hist.deleted \cap DOMAIN disk.comments = {}
      BY <2>2, <3>1 DEF DeletedMarked
    <3> QED BY <1>1, <1>2, <1>3, <2>2, <3>1, <3>2 DEF DeletedMarked, At, WatchAt
  <2> QED BY <1>1, <1>2, <1>5, <2>1, <2>2 DEF DeletesOK
<1> QED BY <1>4, <1>5 DEF Kept
-----------------------------------------------------------------------------
LEMMA KeptAgents == TypeOK /\ Provenance /\ TombsOK /\ Agents => Kept
<1> SUFFICES ASSUME TypeOK, Provenance, TombsOK, Agents PROVE Kept
  OBVIOUS
<1>1. /\ UNCHANGED <<mem, tomb, pending, seq, writer, watch, roundChan>>
      /\ writer.pc \notin {"save", "ack", "ackEmpty"}
  BY DEF Agents, AgentComments, AgentReplies, memory, flags, FlockHeld
<1>2. disk'.mtime = NewMtime
  BY DEF Agents, AgentComments, AgentReplies, AgentSaves, TypeOK, DiskOK
<1>3. /\ UNCHANGED <<hist.deleted, hist.removed, hist.raced>> /\ hist.born \subseteq hist'.born
      /\ DOMAIN disk'.comments \subseteq DOMAIN disk.comments \cup (CommentId \ hist.born)
  <2>1. ASSUME NEW c \in CommentId, AgentComments(c)
        PROVE  /\ UNCHANGED <<hist.deleted, hist.removed, hist.raced>>
               /\ hist.born \subseteq hist'.born
               /\ DOMAIN disk'.comments \subseteq DOMAIN disk.comments \cup (CommentId \ hist.born)
    <3>1. hist' = [hist EXCEPT !.born = @ \cup {c}] /\ c \notin hist.born
      BY <2>1 DEF AgentComments
    <3>2. DOMAIN disk'.comments = DOMAIN disk.comments \cup {c}
      BY <2>1, WithLemma, NoCommentsLemma DEF AgentComments, AgentSaves, TypeOK, DiskOK
    <3> QED BY <3>1, <3>2 DEF TypeOK, HistOK
  <2>2. ASSUME NEW c \in CommentId, NEW r \in ReplyId, NEW resolve \in BOOLEAN,
               AgentReplies(c, r, resolve)
        PROVE  /\ UNCHANGED <<hist.deleted, hist.removed, hist.raced>>
               /\ hist.born \subseteq hist'.born
               /\ DOMAIN disk'.comments \subseteq DOMAIN disk.comments \cup (CommentId \ hist.born)
    <3>1. hist' = [hist EXCEPT !.said = @ \cup {r}, !.agentReplies = @ \cup {<<c, r>>}]
      BY <2>2 DEF AgentReplies
    <3>2. DOMAIN disk'.comments = DOMAIN disk.comments
      BY <2>2 DEF AgentReplies, AgentSaves, With, TypeOK, DiskOK
    <3> QED BY <3>1, <3>2 DEF TypeOK, HistOK
  <2> QED BY <2>1, <2>2 DEF Agents
<1>4. TombsOK'
  BY <1>1, <1>3 DEF TombsOK, NoRound, At
<1>5. ASSUME DeletesOK PROVE DeletesOK'
  <2>1. hist.deleted \cap DOMAIN disk'.comments \subseteq hist.deleted \cap DOMAIN disk.comments
    BY <1>3 DEF TombsOK
  <2>2. disk'.mtime # watch.mtime
    BY <1>2, NewTimes
  <2>3. DeletedMarked => DeletedMarked'
    BY <1>1, <1>3, <2>1, <2>2 DEF DeletedMarked, At, WatchAt
  <2> QED BY <1>1, <1>3, <1>5, <2>3 DEF DeletesOK, PendingTombs
<1> QED BY <1>4, <1>5 DEF Kept

LEMMA KeptRemoved == TypeOK /\ TombsOK /\ (FolderCleared \/ FileRemoved) => Kept
<1> SUFFICES ASSUME TypeOK, TombsOK, FolderCleared \/ FileRemoved PROVE Kept
  OBVIOUS
<1>1. /\ UNCHANGED <<mem, tomb, writer, watch, roundChan>> /\ disk' = NoFile
  BY DEF FolderCleared, FileRemoved, memory
<1>2. UNCHANGED <<hist.born, hist.deleted>>
  BY DEF FolderCleared, FileRemoved, TypeOK, HistOK
<1>3. TombsOK'
  BY <1>1, <1>2, NoCommentsLemma DEF TombsOK, NoRound, At, NoFile
<1>4. ~NoRemovals
  BY DEF FolderCleared, FileRemoved, Act, NoRemovals
<1> QED BY <1>3, <1>4 DEF Kept

LEMMA KeptRestart == TypeOK /\ TombsOK /\ Restart => Kept
<1> SUFFICES ASSUME TypeOK, TombsOK, Restart PROVE Kept
  OBVIOUS
<1>1. /\ writer' = Free /\ watch' = Idle /\ roundChan' = FALSE /\ tomb' = {}
      /\ mem' = disk.comments /\ disk' = disk
  BY DEF Restart
<1>2. /\ hist'.deleted = hist.deleted \ DOMAIN disk.comments
      /\ UNCHANGED <<hist.born, hist.removed, hist.raced>>
  BY DEF Restart, TypeOK, HistOK
<1>3. TombsOK'
  BY <1>1, <1>2 DEF TombsOK, NoRound, At, Free, Idle
<1>4. DeletesOK => DeletesOK'
  BY <1>1, <1>2 DEF DeletesOK, PendingTombs, DeletedMarked, At, WatchAt, Free, Idle
<1> QED BY <1>3, <1>4 DEF Kept

(* Nothing starts a round.                                                 *)
LEMMA RoundsNever ==
  NoRounds /\ NoRound =>
    ~(SignalRoundComplete \/ RoundReads \/ RoundLoads \/ RoundCarries \/ RoundRestores
      \/ RoundAdvances \/ PersistAfterRoundComplete)
BY DEF NoRounds, NoRound, SignalRoundComplete, Act, RoundReads, RoundLoads, RoundCarries,
       RoundRestores, RoundAdvances, PersistAfterRoundComplete, WatchAt
-----------------------------------------------------------------------------
LEMMA DeletesInit == Init => TombsOK /\ DeletesOK
<1> SUFFICES ASSUME Init PROVE TombsOK /\ DeletesOK
  OBVIOUS
<1>1. /\ hist.deleted = {} /\ hist.removed = FALSE /\ writer.pc = "free" /\ writer.by = "none"
      /\ watch.pc = "idle" /\ tomb = {} /\ roundChan = FALSE
  BY DEF Init, Free, Idle
<1> QED BY <1>1 DEF TombsOK, NoRound, DeletesOK, PendingTombs, DeletedMarked, At, WatchAt

LEMMA DeletesNext ==
  NoRounds /\ TypeOK /\ Provenance /\ TombsOK /\ [Next]_vars => Kept
<1> SUFFICES ASSUME NoRounds, TypeOK, Provenance, TombsOK, [Next]_vars PROVE Kept
  OBVIOUS
<1>1. CASE UNCHANGED vars
  BY <1>1 DEF vars, memory, flags, timers, Kept, TombsOK, NoRound, At, DeletesOK, PendingTombs,
              DeletedMarked, WatchAt
<1>2. CASE Reviewer
  BY <1>2, ReviewerHandles, KeptHandled
<1>3. CASE Writer \/ TimerFires \/ Finish \/ SaveFails
  BY <1>3, WriterMoves, KeptMoved, KeptSnapshot, KeptSave, KeptAcknowledge, KeptWipes DEF Writer
<1>4. CASE ClearMemory \/ ClearReviewFolder
  BY <1>4, KeptClears
<1>5. CASE Watcher \/ SignalRoundComplete
  BY <1>5, RoundsNever, KeptWatch, KeptMerge, KeptWipes DEF Watcher, TombsOK
<1>6. CASE Agents \/ FolderCleared \/ FileRemoved \/ Restart
  BY <1>6, KeptAgents, KeptRemoved, KeptRestart
<1> QED BY <1>1, <1>2, <1>3, <1>4, <1>5, <1>6 DEF Next

(* While no round is completed a save drops only tombstones of comments    *)
(* that the file no longer has, whoever removes it.                        *)
THEOREM TombstonesStay == ASSUME NoRounds PROVE Spec => TombstonesOutliveSaves
<1> DEFINE Step == (tomb \ tomb') \cap DOMAIN disk.comments = {}
                   \/ WatchMerges \/ WriterWipes \/ WatchWipes \/ Restart
<1>1. Init => TypeOK /\ Provenance /\ TombsOK
  BY TypeInit, ProvenanceInit, DeletesInit
<1>2. TypeOK /\ Provenance /\ TombsOK /\ [Next]_vars => (TypeOK /\ Provenance /\ TombsOK)'
  BY TypeNext, ProvenanceNext, DeletesNext DEF Kept
<1>3. TypeOK /\ TombsOK /\ [Next]_vars => [Step]_vars
  <2> SUFFICES ASSUME TypeOK, TombsOK, Next PROVE Step
    OBVIOUS
  <2>1. CASE Reviewer
    BY <2>1, ReviewerHandles DEF Handled
  <2>2. CASE TimerFires \/ (\E gen \in fired : TimerCallback(gen)) \/ Finish
             \/ CheckExternalDeletion \/ MergeReplies \/ SaveFails
    BY <2>2, WriterMoves DEF Moved
  <2>3. CASE AcknowledgeWrite \/ MarkEmptyWritten
    BY <2>3, AcknowledgedTombs
  <2>4. CASE SnapshotForWrite \/ SaveReviewFile \/ ClearMemory \/ ClearReviewFolder
    BY <2>4 DEF SnapshotForWrite, SaveReviewFile, ClearMemory, ClearReviewFolder, memory
  <2>5. CASE Agents \/ FolderCleared \/ FileRemoved
    BY <2>5 DEF Agents, AgentComments, AgentReplies, FolderCleared, FileRemoved, memory
  <2>6. CASE WatchStats \/ WatchCompares \/ WatchReads
    BY <2>6 DEF WatchStats, WatchCompares, WatchReads, memory
  <2>7. ~(SignalRoundComplete \/ RoundReads \/ RoundLoads \/ RoundCarries \/ RoundRestores
          \/ RoundAdvances \/ PersistAfterRoundComplete)
    BY RoundsNever DEF TombsOK
  <2> QED BY <2>1, <2>2, <2>3, <2>4, <2>5, <2>6, <2>7 DEF Next, Writer, Watcher
<1> QED BY <1>1, <1>2, <1>3, PTL DEF Spec, TombstonesOutliveSaves

(* While no round is completed and nobody removes or clears the review, a  *)
(* comment the reviewer deleted stays out of memory, or a reload raced.    *)
THEOREM DeletedStay == ASSUME NoRounds, NoRemovals PROVE Spec => []DeletedStaysDeleted
<1> DEFINE Inv == TypeOK /\ Provenance /\ TombsOK /\ DeletesOK
<1>1. Init => Inv
  BY TypeInit, ProvenanceInit, DeletesInit
<1>2. Inv /\ [Next]_vars => Inv'
  BY TypeNext, ProvenanceNext, DeletesNext DEF Kept
<1>3. Inv => DeletedStaysDeleted
  BY DEF DeletesOK, DeletedMarked, DeletedStaysDeleted, Revived
<1> QED BY <1>1, <1>2, <1>3, PTL DEF Spec
-----------------------------------------------------------------------------
(* Replies.  Every reply there is, with the comment it belongs to.         *)
Pairs(cs) == {p \in CommentId \X ReplyId : p[1] \in DOMAIN cs /\ p[2] \in cs[p[1]].replies}
AllPairs ==
  Pairs(mem) \cup Pairs(disk.comments) \cup Pairs(watch.comments) \cup Pairs(writer.snap.mem)
    \cup hist.agentReplies

(* A reply belongs to one comment, and no agent's reply that counts was    *)
(* deleted.                                                                *)
OwnersOK ==
  /\ \A p, q \in AllPairs : p[2] = q[2] => p = q
  /\ \A p \in AllPairs : p[2] \in hist.said
  /\ gone \subseteq hist.said
  /\ \A p \in hist.agentReplies : p[2] \notin gone

(* Nothing is of another round; a file that is missing has no comments.    *)
FirstRound ==
  /\ round = 1 /\ disk.round <= 1 /\ (Missing => DOMAIN disk.comments = {})
  /\ At("save") => writer.snap.round = 1

Adopted(cs) ==
  \A p \in hist.agentReplies : p[1] \in DOMAIN cs => p[2] \in cs[p[1]].replies

(* The file has the agents' replies of its comments; memory has them when  *)
(* it knows the file, and a save from its merge on.                        *)
RepliesMerged ==
  /\ ~At("clear")
  /\ Adopted(disk.comments)
  /\ \A p \in hist.agentReplies : p[1] \in DOMAIN disk.comments \cup hist.deleted
  /\ (~Missing /\ last = disk.mtime) \/ writer.pc \in {"snapshot", "save", "ack", "ackEmpty"}
       => Adopted(mem)
  /\ At("save") => Adopted(writer.snap.mem)

RepliesOK == hist.raced \/ RepliesMerged

LEMMA PairsOfData ==
  ASSUME NEW cs, IsCommentSet(cs), NEW onDisk, IsCommentSet(onDisk)
  PROVE  /\ \A ids : Pairs(Without(cs, ids)) \subseteq Pairs(cs)
         /\ Pairs(NoComments) = {}
         /\ \A ids, dirties : Pairs(AddNewReplies(cs, onDisk, ids, dirties))
                                \subseteq Pairs(cs) \cup Pairs(onDisk)
         /\ Pairs(MergeFromDisk(cs, onDisk)) \subseteq Pairs(cs) \cup Pairs(onDisk)
         /\ \A ids : Pairs(BuildComments(cs, onDisk, ids)) \subseteq Pairs(cs) \cup Pairs(onDisk)
<1>1. \A ids : Pairs(Without(cs, ids)) \subseteq Pairs(cs)
  BY DEF Pairs, Without
<1>2. Pairs(NoComments) = {}
  BY NoCommentsLemma DEF Pairs
<1>3. ASSUME NEW ids, NEW dirties, NEW p \in Pairs(AddNewReplies(cs, onDisk, ids, dirties))
      PROVE  p \in Pairs(cs) \cup Pairs(onDisk)
  <2>1. /\ p \in CommentId \X ReplyId /\ p[1] \in DOMAIN cs
        /\ p[2] \in AddNewReplies(cs, onDisk, ids, dirties)[p[1]].replies
    BY DEF Pairs, AddNewReplies
  <2>2. AddNewReplies(cs, onDisk, ids, dirties)[p[1]].replies
          = cs[p[1]].replies \cup
            (IF p[1] \in DOMAIN onDisk THEN onDisk[p[1]].replies \ (cs[p[1]].replies \cup ids) ELSE {})
    BY <2>1 DEF AddNewReplies
  <2> QED BY <2>1, <2>2 DEF Pairs
<1>4. Pairs(MergeFromDisk(cs, onDisk)) \subseteq Pairs(cs) \cup Pairs(onDisk)
  BY DEF Pairs, MergeFromDisk
<1>5. ASSUME NEW ids, NEW p \in Pairs(BuildComments(cs, onDisk, ids))
      PROVE  p \in Pairs(cs) \cup Pairs(onDisk)
  <2> DEFINE kept == Without(onDisk, ids)
             merged == Override(cs, kept)
  <2>1. Pairs(merged) \subseteq Pairs(cs) \cup Pairs(kept)
    BY DEF Pairs, Override
  <2>2. Pairs(kept) \subseteq Pairs(onDisk)
    BY DEF Pairs, Without
  <2>3. BuildComments(cs, onDisk, ids) = Without(merged, ids \ ReviewLevel)
    BY DEF BuildComments, MergeDiskComments, ApplyDeletedCommentIDs
  <2> HIDE DEF merged
  <2>4. Pairs(Without(merged, ids \ ReviewLevel)) \subseteq Pairs(merged)
    BY DEF Pairs, Without
  <2> QED BY <2>1, <2>2, <2>3, <2>4
<1> QED BY <1>1, <1>2, <1>3, <1>4, <1>5

(* A step that makes no reply and takes none from the agents.              *)
LEMMA OwnersKept ==
  ASSUME OwnersOK, AllPairs' \subseteq AllPairs, hist'.said = hist.said,
         hist'.agentReplies \subseteq hist.agentReplies, gone' \subseteq gone
  PROVE  OwnersOK'
BY DEF OwnersOK

(* One that makes a reply.                                                 *)
LEMMA OwnersSaid ==
  ASSUME OwnersOK, NEW c \in CommentId, NEW r \in ReplyId, r \notin hist.said,
         AllPairs' \subseteq AllPairs \cup {<<c, r>>}, hist'.said = hist.said \cup {r},
         hist'.agentReplies \subseteq hist.agentReplies \cup {<<c, r>>}, gone' = gone
  PROVE  OwnersOK'
<1>1. <<c, r>>[1] = c /\ <<c, r>>[2] = r
  OBVIOUS
<1>2. \A p \in AllPairs' : p \in AllPairs \/ p = <<c, r>>
  OBVIOUS
<1>3. \A p, q \in AllPairs' : p[2] = q[2] => p = q
  BY <1>1, <1>2 DEF OwnersOK
<1>4. \A p \in AllPairs' : p[2] \in hist'.said
  BY <1>1, <1>2 DEF OwnersOK
<1>5. gone' \subseteq hist'.said
  BY DEF OwnersOK
<1>6. \A p \in hist'.agentReplies : p[2] \notin gone'
  BY <1>1 DEF OwnersOK
<1> QED BY <1>3, <1>4, <1>5, <1>6 DEF OwnersOK

LEMMA OwnersReviewer == TypeOK /\ OwnersOK /\ Reviewer => OwnersOK'
<1> SUFFICES ASSUME TypeOK, OwnersOK, Reviewer PROVE OwnersOK'
  OBVIOUS
<1>1. UNCHANGED <<writer, watch, disk>>
  BY DEF Reviewer, AddComment, DeleteComment, SetCommentResolved, AddReply, DeleteReply
<1>2. Pairs(mem) \subseteq AllPairs /\ IsCommentSet(mem)
  BY DEF AllPairs, TypeOK, MemoryOK
<1>3. ASSUME NEW c \in CommentId, AddComment(c) PROVE OwnersOK'
  <2>1. Pairs(mem') \subseteq Pairs(mem)
    BY <1>3 DEF AddComment, With, Pairs, Fresh
  <2>2. UNCHANGED <<hist.said, hist.agentReplies, gone>>
    BY <1>3 DEF AddComment, TypeOK, HistOK
  <2>3. AllPairs' \subseteq AllPairs
    BY <1>1, <2>1, <2>2 DEF AllPairs
  <2> QED BY <2>2, <2>3, OwnersKept
<1>4. ASSUME NEW c \in CommentId, DeleteComment(c) PROVE OwnersOK'
  <2>1. Pairs(mem') \subseteq Pairs(mem)
    BY <1>4 DEF DeleteComment, Without, Pairs
  <2>2. UNCHANGED <<hist.said, gone>> /\ hist'.agentReplies \subseteq hist.agentReplies
    BY <1>4 DEF DeleteComment, TypeOK, HistOK
  <2>3. AllPairs' \subseteq AllPairs
    BY <1>1, <2>1, <2>2 DEF AllPairs
  <2> QED BY <2>2, <2>3, OwnersKept
<1>5. ASSUME NEW c \in CommentId, NEW resolved \in BOOLEAN, SetCommentResolved(c, resolved)
      PROVE  OwnersOK'
  <2>1. Pairs(mem') \subseteq Pairs(mem)
    BY <1>2, <1>5 DEF SetCommentResolved, With, Pairs, IsCommentSet, Comment
  <2>2. UNCHANGED <<hist, gone>>
    BY <1>5 DEF SetCommentResolved
  <2>3. AllPairs' \subseteq AllPairs
    BY <1>1, <2>1, <2>2 DEF AllPairs
  <2> QED BY <2>2, <2>3, OwnersKept
<1>6. ASSUME NEW c \in CommentId, NEW r \in ReplyId, AddReply(c, r) PROVE OwnersOK'
  <2>1. Pairs(mem') \subseteq Pairs(mem) \cup {<<c, r>>}
    BY <1>2, <1>6 DEF AddReply, With, Pairs, IsCommentSet, Comment
  <2>2. /\ UNCHANGED <<hist.agentReplies, gone>> /\ hist'.said = hist.said \cup {r}
        /\ r \notin hist.said
    BY <1>6 DEF AddReply, TypeOK, HistOK
  <2>3. AllPairs' \subseteq AllPairs \cup {<<c, r>>}
    BY <1>1, <2>1, <2>2 DEF AllPairs
  <2> QED BY <2>2, <2>3, OwnersSaid
<1>7. ASSUME NEW c \in CommentId, NEW r \in ReplyId, DeleteReply(c, r) PROVE OwnersOK'
  <2>1. Pairs(mem') \subseteq Pairs(mem)
    BY <1>2, <1>7 DEF DeleteReply, With, Pairs, IsCommentSet, Comment
  <2>2. /\ hist'.said = hist.said /\ gone' = gone \cup {r}
        /\ hist'.agentReplies = hist.agentReplies \ {<<c, r>>}
    BY <1>7 DEF DeleteReply, TypeOK, HistOK
  <2>3. AllPairs' \subseteq AllPairs
    BY <1>1, <2>1, <2>2 DEF AllPairs
  <2>4. <<c, r>> \in AllPairs /\ <<c, r>>[2] = r
    BY <1>2, <1>7 DEF DeleteReply, Pairs
  <2>5. hist.agentReplies \subseteq AllPairs
    BY DEF AllPairs
  <2>6. \A p \in hist'.agentReplies : p[2] # r
    BY <2>2, <2>4, <2>5 DEF OwnersOK
  <2> QED BY <2>2, <2>3, <2>4, <2>6 DEF OwnersOK
<1> QED BY <1>3, <1>4, <1>5, <1>6, <1>7 DEF Reviewer

LEMMA OwnersAgents == TypeOK /\ OwnersOK /\ Agents => OwnersOK'
<1> SUFFICES ASSUME TypeOK, OwnersOK, Agents PROVE OwnersOK'
  OBVIOUS
<1>1. UNCHANGED <<mem, writer, watch, gone>> /\ IsCommentSet(disk.comments)
  BY DEF Agents, AgentComments, AgentReplies, memory, TypeOK, DiskOK
<1>2. ASSUME NEW c \in CommentId, AgentComments(c) PROVE OwnersOK'
  <2>1. disk'.comments = With(disk.comments, c, Fresh)
    BY <1>2 DEF AgentComments, AgentSaves, TypeOK, DiskOK
  <2>2. Pairs(disk'.comments) \subseteq Pairs(disk.comments)
    BY <2>1 DEF With, Pairs, Fresh
  <2>3. UNCHANGED <<hist.said, hist.agentReplies>>
    BY <1>2 DEF AgentComments, TypeOK, HistOK
  <2>4. AllPairs' \subseteq AllPairs
    BY <1>1, <2>2, <2>3 DEF AllPairs
  <2> QED BY <1>1, <2>3, <2>4, OwnersKept
<1>3. ASSUME NEW c \in CommentId, NEW r \in ReplyId, NEW resolve \in BOOLEAN,
             AgentReplies(c, r, resolve)
      PROVE  OwnersOK'
  <2>1. disk'.comments = With(disk.comments, c,
          [disk.comments[c] EXCEPT !.replies = @ \cup {r}, !.resolved = resolve])
    BY <1>3 DEF AgentReplies, AgentSaves, TypeOK, DiskOK
  <2>2. Pairs(disk'.comments) \subseteq Pairs(disk.comments) \cup {<<c, r>>}
    BY <1>1, <1>3, <2>1 DEF AgentReplies, With, Pairs, IsCommentSet, Comment
  <2>3. /\ hist'.said = hist.said \cup {r} /\ r \notin hist.said
        /\ hist'.agentReplies = hist.agentReplies \cup {<<c, r>>}
    BY <1>3 DEF AgentReplies, TypeOK, HistOK
  <2>4. AllPairs' \subseteq AllPairs \cup {<<c, r>>}
    BY <1>1, <2>2, <2>3 DEF AllPairs
  <2> QED BY <1>1, <2>3, <2>4, OwnersSaid
<1> QED BY <1>2, <1>3 DEF Agents

(* Every other step only copies or drops replies.                          *)
Copies ==
  /\ hist'.said = hist.said /\ hist'.agentReplies \subseteq hist.agentReplies
  /\ gone' \subseteq gone
  /\ Pairs(mem') \subseteq AllPairs /\ Pairs(disk'.comments) \subseteq AllPairs
  /\ Pairs(watch'.comments) \subseteq AllPairs /\ Pairs(writer'.snap.mem) \subseteq AllPairs

LEMMA CopiesKeepOwners == OwnersOK /\ Copies => OwnersOK'
<1> SUFFICES ASSUME OwnersOK, Copies PROVE OwnersOK'
  OBVIOUS
<1>1. AllPairs' \subseteq AllPairs
  <2>1. hist'.agentReplies \subseteq AllPairs
    BY DEF AllPairs, Copies
  <2> QED BY <2>1 DEF AllPairs, Copies
<1> QED BY <1>1, OwnersKept DEF Copies

LEMMA OwnersWriter ==
  TypeOK /\ OwnersOK /\ (Writer \/ TimerFires \/ Finish \/ SaveFails \/ ClearMemory \/ ClearReviewFolder)
  => OwnersOK'
<1> SUFFICES ASSUME TypeOK, OwnersOK,
                    Writer \/ TimerFires \/ Finish \/ SaveFails \/ ClearMemory \/ ClearReviewFolder
             PROVE  OwnersOK'
  OBVIOUS
<1>1. /\ Pairs(mem) \subseteq AllPairs /\ Pairs(disk.comments) \subseteq AllPairs
      /\ Pairs(watch.comments) \subseteq AllPairs /\ Pairs(writer.snap.mem) \subseteq AllPairs
      /\ Pairs(NoComments) = {}
  BY PairsOfData, NoCommentsLemma DEF AllPairs
<1>2. /\ IsCommentSet(mem) /\ IsCommentSet(disk.comments) /\ IsCommentSet(writer.snap.mem)
  BY DEF TypeOK, MemoryOK, DiskOK, WriterOK, SnapshotOK
<1>3. Free.snap.mem = NoComments /\ Idle.comments = NoComments /\ NoFile.comments = NoComments
  BY DEF Free, NoSnapshot, Idle, NoFile
<1>4. CASE TimerFires \/ (\E gen \in fired : TimerCallback(gen)) \/ Finish \/ CheckExternalDeletion
  <2>1. UNCHANGED <<mem, gone, disk, watch, hist>>
    BY <1>4 DEF TimerFires, TimerCallback, Finish, CheckExternalDeletion, memory
  <2>2. writer'.snap.mem \in {writer.snap.mem, NoComments}
    <3>1. CASE TimerFires
      BY <3>1 DEF TimerFires
    <3>2. CASE \E gen \in fired : TimerCallback(gen)
      BY <3>2 DEF TimerCallback, Free, NoSnapshot
    <3>3. CASE Finish
      BY <3>3 DEF Finish, SyncWriteFiles, Free, NoSnapshot
    <3>4. CASE CheckExternalDeletion
      BY <3>4 DEF CheckExternalDeletion, WriterTo, TypeOK, WriterOK
    <3> QED BY <1>4, <3>1, <3>2, <3>3, <3>4
  <2> QED BY <1>1, <2>1, <2>2, CopiesKeepOwners DEF Copies
<1>5. CASE MergeReplies
  <2>1. UNCHANGED <<gone, disk, watch, hist>> /\ writer'.snap = writer.snap
    BY <1>5 DEF MergeReplies, WriterTo, TypeOK, WriterOK
  <2>2. mem' = mem \/ mem' = AddNewReplies(mem, disk.comments, gone, DOMAIN dirty)
    BY <1>5 DEF MergeReplies
  <2>3. Pairs(mem') \subseteq AllPairs
    BY <1>1, <1>2, <2>2, PairsOfData
  <2> QED BY <1>1, <2>1, <2>3, CopiesKeepOwners DEF Copies
<1>6. CASE SnapshotForWrite
  <2>1. UNCHANGED <<mem, gone, disk, watch, hist>> /\ writer'.snap.mem = mem
    BY <1>6 DEF SnapshotForWrite, memory, TypeOK, WriterOK
  <2> QED BY <1>1, <2>1, CopiesKeepOwners DEF Copies
<1>7. CASE SaveReviewFile
  <2>1. UNCHANGED <<mem, gone, watch>> /\ writer'.snap = writer.snap
    BY <1>7 DEF SaveReviewFile, memory, TypeOK, WriterOK
  <2>2. UNCHANGED <<hist.said, hist.agentReplies>>
    BY <1>7 DEF SaveReviewFile, TypeOK, HistOK
  <2>3. disk' = NoFile \/ disk'.comments = BuildComments(writer.snap.mem, disk.comments, writer.snap.tomb)
    BY <1>7 DEF SaveReviewFile
  <2>4. Pairs(BuildComments(writer.snap.mem, disk.comments, writer.snap.tomb)) \subseteq AllPairs
    BY <1>1, <1>2, PairsOfData
  <2>5. Pairs(disk'.comments) \subseteq AllPairs
    BY <1>1, <1>3, <2>3, <2>4
  <2> QED BY <1>1, <2>1, <2>2, <2>5, CopiesKeepOwners DEF Copies
<1>8. CASE AcknowledgeWrite \/ MarkEmptyWritten \/ SaveFails \/ WriterWipes \/ ClearReviewFolder
  <2>1. Release /\ gone' = gone /\ mem' \in {mem, NoComments} /\ disk' \in {disk, NoFile}
    BY <1>8 DEF AcknowledgeWrite, MarkEmptyWritten, SaveFails, WriterWipes, ClearAllCommentData,
                ClearReviewFolder, memory
  <2>2. hist'.said = hist.said /\ hist'.agentReplies \subseteq hist.agentReplies
    BY <1>8 DEF AcknowledgeWrite, MarkEmptyWritten, SaveFails, WriterWipes, ClearAllCommentData,
                ClearReviewFolder, TypeOK, HistOK
  <2>3. writer' = Free /\ watch' \in {watch, Idle}
    BY <2>1 DEF Release
  <2> QED BY <1>1, <1>3, <2>1, <2>2, <2>3, CopiesKeepOwners DEF Copies
<1>9. CASE ClearMemory
  <2>1. UNCHANGED <<gone, watch, disk>> /\ mem' = NoComments /\ writer'.snap.mem = NoComments
    BY <1>9 DEF ClearMemory, Free, NoSnapshot
  <2>2. hist'.said = hist.said /\ hist'.agentReplies \subseteq hist.agentReplies
    BY <1>9 DEF ClearMemory, TypeOK, HistOK
  <2> QED BY <1>1, <2>1, <2>2, CopiesKeepOwners DEF Copies
<1> QED BY <1>4, <1>5, <1>6, <1>7, <1>8, <1>9 DEF Writer

LEMMA OwnersWatch ==
  TypeOK /\ OwnersOK /\ (WatchStats \/ WatchCompares \/ WatchReads \/ WatchMerges \/ WatchWipes)
  => OwnersOK'
<1> SUFFICES ASSUME TypeOK, OwnersOK,
                    WatchStats \/ WatchCompares \/ WatchReads \/ WatchMerges \/ WatchWipes
             PROVE  OwnersOK'
  OBVIOUS
<1>1. /\ Pairs(mem) \subseteq AllPairs /\ Pairs(disk.comments) \subseteq AllPairs
      /\ Pairs(watch.comments) \subseteq AllPairs /\ Pairs(writer.snap.mem) \subseteq AllPairs
      /\ Pairs(NoComments) = {} /\ Idle.comments = NoComments
  BY PairsOfData, NoCommentsLemma DEF AllPairs, Idle
<1>2. IsCommentSet(mem) /\ IsCommentSet(watch.comments)
  BY DEF TypeOK, MemoryOK, WatchOK
<1>3. CASE WatchStats \/ WatchCompares \/ WatchReads
  <2>1. UNCHANGED <<mem, gone, disk, writer, hist>>
    BY <1>3 DEF WatchStats, WatchCompares, WatchReads, memory
  <2>2. \/ watch' = Idle \/ watch'.comments = NoComments
        \/ watch' = [watch EXCEPT !.pc = "wipe"] \/ watch' = [watch EXCEPT !.pc = "read"]
        \/ watch' = [watch EXCEPT !.pc = "merge", !.comments = disk.comments, !.round = disk.round]
    BY <1>3 DEF WatchStats, WatchCompares, WatchReads, Idle
  <2>3. watch'.comments \in {watch.comments, disk.comments, NoComments}
    <3>1. CASE watch' = [watch EXCEPT !.pc = "merge", !.comments = disk.comments, !.round = disk.round]
      BY <3>1 DEF TypeOK, WatchOK
    <3>2. CASE watch' = [watch EXCEPT !.pc = "wipe"] \/ watch' = [watch EXCEPT !.pc = "read"]
      BY <3>2 DEF TypeOK, WatchOK
    <3> QED BY <1>1, <2>2, <3>1, <3>2
  <2> QED BY <1>1, <2>1, <2>3, CopiesKeepOwners DEF Copies
<1>4. CASE WatchMerges \/ WatchWipes
  <2>1. /\ UNCHANGED <<gone, disk, writer>> /\ watch' = Idle
        /\ mem' \in {mem, NoComments, MergeFromDisk(mem, watch.comments)}
    BY <1>4 DEF WatchMerges, WatchWipes, ClearAllCommentData
  <2>2. hist'.said = hist.said /\ hist'.agentReplies \subseteq hist.agentReplies
    BY <1>4 DEF WatchMerges, WatchWipes, ClearAllCommentData, TypeOK, HistOK
  <2>3. Pairs(mem') \subseteq AllPairs
    BY <1>1, <1>2, <2>1, PairsOfData
  <2> QED BY <1>1, <2>1, <2>2, <2>3, CopiesKeepOwners DEF Copies
<1> QED BY <1>3, <1>4

LEMMA OwnersEnvironment ==
  TypeOK /\ OwnersOK /\ (FolderCleared \/ FileRemoved \/ Restart) => OwnersOK'
<1> SUFFICES ASSUME TypeOK, OwnersOK, FolderCleared \/ FileRemoved \/ Restart PROVE OwnersOK'
  OBVIOUS
<1>1. /\ Pairs(mem) \subseteq AllPairs /\ Pairs(disk.comments) \subseteq AllPairs
      /\ Pairs(watch.comments) \subseteq AllPairs /\ Pairs(writer.snap.mem) \subseteq AllPairs
      /\ Pairs(NoComments) = {}
  BY PairsOfData, NoCommentsLemma DEF AllPairs
<1>2. CASE FolderCleared \/ FileRemoved
  <2>1. UNCHANGED <<mem, gone, writer, watch>> /\ disk'.comments = NoComments
    BY <1>2 DEF FolderCleared, FileRemoved, memory, NoFile
  <2>2. hist'.said = hist.said /\ hist'.agentReplies \subseteq hist.agentReplies
    BY <1>2 DEF FolderCleared, FileRemoved, TypeOK, HistOK
  <2> QED BY <1>1, <2>1, <2>2, CopiesKeepOwners DEF Copies
<1>3. CASE Restart
  <2>1. /\ mem' = disk.comments /\ gone' = {} /\ disk' = disk
        /\ writer'.snap.mem = NoComments /\ watch'.comments = NoComments
    BY <1>3 DEF Restart, Free, NoSnapshot, Idle
  <2>2. UNCHANGED <<hist.said, hist.agentReplies>>
    BY <1>3 DEF Restart, TypeOK, HistOK
  <2> QED BY <1>1, <2>1, <2>2, CopiesKeepOwners DEF Copies
<1> QED BY <1>2, <1>3

LEMMA OwnersInit == Init => OwnersOK
<1> SUFFICES ASSUME Init PROVE OwnersOK
  OBVIOUS
<1>1. hist.said = {} /\ hist.agentReplies = {} /\ gone = {} /\ mem = disk.comments
  BY DEF Init
<1>2. Pairs(NoComments) = {}
  BY PairsOfData, NoCommentsLemma
<1>3. Pairs(disk.comments) = {}
  <2>1. CASE Preloaded = {}
    BY <1>2, <2>1 DEF Init, NoFile
  <2>2. CASE Preloaded # {}
    <3>1. disk.comments = [c \in Preloaded |-> [Fresh EXCEPT !.github = TRUE]]
      BY <2>2 DEF Init
    <3>2. [Fresh EXCEPT !.github = TRUE].replies = {}
      BY DEF Fresh
    <3> QED BY <3>1, <3>2 DEF Pairs
  <2> QED BY <2>1, <2>2
<1>4. watch.comments = NoComments /\ writer.snap.mem = NoComments
  BY DEF Init, Idle, Free, NoSnapshot
<1> QED BY <1>1, <1>2, <1>3, <1>4 DEF OwnersOK, AllPairs

LEMMA OwnersNext == NoRounds /\ TypeOK /\ TombsOK /\ OwnersOK /\ [Next]_vars => OwnersOK'
<1> SUFFICES ASSUME NoRounds, TypeOK, TombsOK, OwnersOK, [Next]_vars PROVE OwnersOK'
  OBVIOUS
<1>1. CASE UNCHANGED vars
  BY <1>1 DEF vars, memory, OwnersOK, AllPairs, Pairs
<1>2. CASE Next
  <2>1. ~(SignalRoundComplete \/ RoundReads \/ RoundLoads \/ RoundCarries \/ RoundRestores
          \/ RoundAdvances \/ PersistAfterRoundComplete)
    BY RoundsNever DEF TombsOK
  <2> QED BY <1>2, <2>1, OwnersReviewer, OwnersAgents, OwnersWriter, OwnersWatch, OwnersEnvironment
          DEF Next, Watcher
<1> QED BY <1>1, <1>2
-----------------------------------------------------------------------------
LEMMA FirstRoundInit == Init => FirstRound
<1> SUFFICES ASSUME Init PROVE FirstRound
  OBVIOUS
<1>1. round = 1 /\ writer.pc = "free"
  BY DEF Init, Free
<1>2. CASE Preloaded = {}
  BY <1>1, <1>2, NoCommentsLemma DEF Init, NoFile, FirstRound, At
<1>3. CASE Preloaded # {}
  <2>1. disk.round = 1 /\ disk.mtime = (CHOOSE m \in Mtime : TRUE)
    BY <1>3 DEF Init
  <2>2. disk.mtime # NoMtime
    BY <2>1, MtimeAssumption
  <2> QED BY <1>1, <2>1, <2>2 DEF FirstRound, At, Missing
<1> QED BY <1>2, <1>3

LEMMA FirstRoundNext == NoRounds /\ TypeOK /\ TombsOK /\ FirstRound /\ [Next]_vars => FirstRound'
<1> SUFFICES ASSUME NoRounds, TypeOK, TombsOK, FirstRound, [Next]_vars PROVE FirstRound'
  OBVIOUS
<1>1. round' = 1
  <2>1. disk.round > 1 => FALSE
    BY DEF FirstRound, TypeOK, DiskOK
  <2>2. ~(RoundAdvances \/ RoundReads \/ RoundLoads \/ RoundCarries \/ RoundRestores
          \/ SignalRoundComplete \/ PersistAfterRoundComplete)
    BY RoundsNever DEF TombsOK
  <2>3. CASE UNCHANGED vars
    BY <2>3 DEF vars, memory, FirstRound
  <2>4. CASE Reviewer \/ Agents \/ FolderCleared \/ FileRemoved \/ Restart \/ ClearMemory \/ ClearReviewFolder
    BY <2>1, <2>4 DEF Reviewer, AddComment, DeleteComment, SetCommentResolved, AddReply, DeleteReply,
       Agents, AgentComments, AgentReplies, FolderCleared, FileRemoved, Restart, ClearMemory,
       ClearReviewFolder, memory, FirstRound
  <2>5. CASE Writer \/ TimerFires \/ Finish \/ SaveFails
    BY <2>5 DEF Writer, TimerCallback, CheckExternalDeletion, MergeReplies, SnapshotForWrite,
       SaveReviewFile, AcknowledgeWrite, MarkEmptyWritten, WriterWipes, ClearAllCommentData,
       TimerFires, Finish, SaveFails, memory, FirstRound
  <2>6. CASE WatchStats \/ WatchCompares \/ WatchReads \/ WatchMerges \/ WatchWipes
    BY <2>6 DEF WatchStats, WatchCompares, WatchReads, WatchMerges, WatchWipes, ClearAllCommentData,
       memory, FirstRound
  <2> QED BY <2>2, <2>3, <2>4, <2>5, <2>6 DEF Next, Watcher
<1>2. \/ disk' = disk
      \/ disk' = NoFile
      \/ /\ disk'.mtime = NewMtime
         /\ disk'.round \in {disk.round, 1}
  <2>1. CASE SaveReviewFile
    BY <2>1 DEF SaveReviewFile, FirstRound, At
  <2>2. CASE Agents
    <3>1. \E cs : AgentSaves(cs)
      BY <2>2 DEF Agents, AgentComments, AgentReplies
    <3> QED BY <3>1 DEF AgentSaves, TypeOK, DiskOK
  <2>3. CASE FolderCleared \/ FileRemoved \/ ClearReviewFolder
    BY <2>3 DEF FolderCleared, FileRemoved, ClearReviewFolder
  <2>4. CASE UNCHANGED vars \/ Reviewer \/ Restart \/ ClearMemory \/ SignalRoundComplete
             \/ TimerFires \/ Finish \/ SaveFails
    BY <2>4 DEF vars, Reviewer, AddComment, DeleteComment, SetCommentResolved, AddReply, DeleteReply,
       Restart, ClearMemory, SignalRoundComplete, TimerFires, Finish, SaveFails
  <2>5. CASE Watcher
    BY <2>5 DEF Watcher, WatchStats, WatchCompares, WatchReads, WatchMerges, WatchWipes,
       RoundReads, RoundLoads, RoundCarries, RoundRestores, RoundAdvances, PersistAfterRoundComplete
  <2>6. CASE Writer /\ ~SaveReviewFile
    BY <2>6 DEF Writer, TimerCallback, CheckExternalDeletion, MergeReplies, SnapshotForWrite,
       AcknowledgeWrite, MarkEmptyWritten, WriterWipes
  <2> QED BY <2>1, <2>2, <2>3, <2>4, <2>5, <2>6 DEF Next
<1>3. disk'.round <= 1 /\ (Missing' => DOMAIN disk'.comments = {})
  <2>1. NewMtime # NoMtime
    BY NewTimes
  <2> QED BY <1>2, <2>1, NoCommentsLemma DEF FirstRound, Missing, NoFile
<1>4. writer'.pc = "save" => writer'.snap.round = 1
  <2>1. CASE SnapshotForWrite
    BY <2>1 DEF SnapshotForWrite, TypeOK, WriterOK, FirstRound
  <2>2. CASE writer'.pc # "save" \/ writer' = writer
    BY <2>2 DEF FirstRound, At
  <2>3. ~SnapshotForWrite => writer'.pc # "save" \/ writer' = writer
    <3>1. CASE UNCHANGED vars \/ Reviewer \/ Agents \/ FolderCleared \/ FileRemoved \/ SignalRoundComplete
      BY <3>1 DEF vars, Reviewer, AddComment, DeleteComment, SetCommentResolved, AddReply, DeleteReply,
         Agents, AgentComments, AgentReplies, FolderCleared, FileRemoved, SignalRoundComplete
    <3>2. CASE TimerFires \/ (\E gen \in fired : TimerCallback(gen)) \/ Finish
               \/ CheckExternalDeletion \/ MergeReplies \/ SaveFails
      BY <3>2, WriterMoves DEF Moved
    <3>3. CASE SaveReviewFile
      BY <3>3 DEF SaveReviewFile, TypeOK, WriterOK
    <3>4. CASE AcknowledgeWrite \/ MarkEmptyWritten \/ WriterWipes \/ ClearReviewFolder \/ ClearMemory \/ Restart
      <4>1. writer' = Free \/ writer' = [Free EXCEPT !.pc = "clear", !.by = "clear"]
        BY <3>4 DEF AcknowledgeWrite, MarkEmptyWritten, WriterWipes, ClearReviewFolder, Release,
                    ClearMemory, Restart
      <4>2. CASE writer' = Free
        BY <4>2 DEF Free
      <4>3. CASE writer' = [Free EXCEPT !.pc = "clear", !.by = "clear"]
        BY <4>3 DEF Free
      <4> QED BY <4>1, <4>2, <4>3
    <3>5. CASE WatchStats \/ WatchCompares \/ WatchReads \/ WatchMerges \/ WatchWipes
      BY <3>5 DEF WatchStats, WatchCompares, WatchReads, WatchMerges, WatchWipes
    <3>6. ~(RoundReads \/ RoundLoads \/ RoundCarries \/ RoundRestores \/ RoundAdvances
            \/ PersistAfterRoundComplete)
      BY RoundsNever DEF TombsOK
    <3>7. CASE Writer
      BY <3>2, <3>3, <3>4, <3>7 DEF Writer
    <3>8. CASE Watcher
      BY <3>5, <3>6, <3>8 DEF Watcher
    <3> QED BY <3>1, <3>2, <3>4, <3>7, <3>8 DEF Next
  <2> QED BY <2>1, <2>2, <2>3
<1> QED BY <1>1, <1>3, <1>4 DEF FirstRound, At

(* What a step may rely on besides its own conditions.                     *)
AllOK == TypeOK /\ Provenance /\ TombsOK /\ DeletesOK /\ OwnersOK /\ FirstRound /\ RepliesMerged

LEMMA AgentRepliesBorn ==
  AllOK => \A p \in hist.agentReplies :
             p \in CommentId \X ReplyId /\ p = <<p[1], p[2]>> /\ p[1] \in hist.born
BY DEF AllOK, TypeOK, HistOK, RepliesMerged, Provenance, TombsOK

(* The reviewer's steps: what memory knew of the agents' replies it keeps. *)
LEMMA RepliesReviewer == AllOK /\ Reviewer => RepliesMerged'
<1> SUFFICES ASSUME AllOK, Reviewer PROVE RepliesMerged'
  OBVIOUS
<1>1. UNCHANGED <<last, writer, disk>>
  BY DEF Reviewer, AddComment, DeleteComment, SetCommentResolved, AddReply, DeleteReply
<1>2. SUFFICES /\ hist'.agentReplies \subseteq hist.agentReplies
               /\ hist.deleted \subseteq hist'.deleted
               /\ Adopted(mem) => Adopted(mem)'
  BY <1>1 DEF AllOK, RepliesMerged, Adopted, Missing, At
<1>3. ASSUME NEW c \in CommentId, AddComment(c)
      PROVE  /\ hist'.agentReplies \subseteq hist.agentReplies
             /\ hist.deleted \subseteq hist'.deleted
             /\ Adopted(mem) => Adopted(mem)'
  <2>1. UNCHANGED <<hist.agentReplies, hist.deleted>>
    BY <1>3 DEF AddComment, AllOK, TypeOK, HistOK
  <2>2. mem' = With(mem, c, Fresh) /\ \A p \in hist.agentReplies : p[1] # c
    BY <1>3, AgentRepliesBorn DEF AddComment
  <2> QED BY <2>1, <2>2 DEF Adopted, With
<1>4. ASSUME NEW c \in CommentId, DeleteComment(c)
      PROVE  /\ hist'.agentReplies \subseteq hist.agentReplies
             /\ hist.deleted \subseteq hist'.deleted
             /\ Adopted(mem) => Adopted(mem)'
  <2>1. /\ hist'.agentReplies \subseteq hist.agentReplies
        /\ hist'.deleted = hist.deleted \cup {c} /\ mem' = Without(mem, {c})
    BY <1>4 DEF DeleteComment, AllOK, TypeOK, HistOK
  <2> QED BY <2>1 DEF Adopted, Without
<1>5. ASSUME NEW c \in CommentId, NEW r \in ReplyId, AddReply(c, r)
      PROVE  /\ hist'.agentReplies \subseteq hist.agentReplies
             /\ hist.deleted \subseteq hist'.deleted
             /\ Adopted(mem) => Adopted(mem)'
  <2>1. UNCHANGED <<hist.agentReplies, hist.deleted>>
    BY <1>5 DEF AddReply, AllOK, TypeOK, HistOK
  <2>2. mem[c] \in Comment /\ c \in DOMAIN mem
    BY <1>5 DEF AllOK, TypeOK, MemoryOK, IsCommentSet, AddReply
  <2>3. [mem[c] EXCEPT !.replies = @ \cup {r}, !.resolved = FALSE].replies = mem[c].replies \cup {r}
    BY <2>2 DEF Comment
  <2>4. mem' = With(mem, c, [mem[c] EXCEPT !.replies = @ \cup {r}, !.resolved = FALSE])
    BY <1>5 DEF AddReply
  <2> QED BY <2>1, <2>2, <2>3, <2>4 DEF Adopted, With
<1>6. ASSUME NEW c \in CommentId, NEW r \in ReplyId, DeleteReply(c, r)
      PROVE  /\ hist'.agentReplies \subseteq hist.agentReplies
             /\ hist.deleted \subseteq hist'.deleted
             /\ Adopted(mem) => Adopted(mem)'
  <2>1. hist'.agentReplies = hist.agentReplies \ {<<c, r>>} /\ hist'.deleted = hist.deleted
    BY <1>6 DEF DeleteReply, AllOK, TypeOK, HistOK
  <2>2. mem[c] \in Comment /\ c \in DOMAIN mem
    BY <1>6 DEF AllOK, TypeOK, MemoryOK, IsCommentSet, DeleteReply
  <2>3. [mem[c] EXCEPT !.replies = @ \ {r}].replies = mem[c].replies \ {r}
    BY <2>2 DEF Comment
  <2>4. mem' = With(mem, c, [mem[c] EXCEPT !.replies = @ \ {r}])
    BY <1>6 DEF DeleteReply
  <2>5. \A p \in hist'.agentReplies : p[1] = c => p[2] # r
    BY <2>1, AgentRepliesBorn
  <2> QED BY <2>1, <2>2, <2>3, <2>4, <2>5 DEF Adopted, With
<1>7. ASSUME NEW c \in CommentId, NEW resolved \in BOOLEAN, SetCommentResolved(c, resolved)
      PROVE  /\ hist'.agentReplies \subseteq hist.agentReplies
             /\ hist.deleted \subseteq hist'.deleted
             /\ Adopted(mem) => Adopted(mem)'
  <2>1. UNCHANGED hist /\ mem' = With(mem, c, [mem[c] EXCEPT !.resolved = resolved])
        /\ c \in DOMAIN mem
    BY <1>7 DEF SetCommentResolved
  <2>2. [mem[c] EXCEPT !.resolved = resolved].replies = mem[c].replies
    BY <2>1 DEF AllOK, TypeOK, MemoryOK, IsCommentSet, Comment
  <2> QED BY <2>1, <2>2 DEF Adopted, With
<1> QED BY <1>3, <1>4, <1>5, <1>6, <1>7 DEF Reviewer

LEMMA BuildValues ==
  ASSUME NEW cs, IsCommentSet(cs), NEW onDisk, IsCommentSet(onDisk), NEW ids,
         NEW c \in DOMAIN BuildComments(cs, onDisk, ids)
  PROVE  \/ c \in DOMAIN cs /\ BuildComments(cs, onDisk, ids)[c] = cs[c]
         \/ c \in DOMAIN onDisk /\ BuildComments(cs, onDisk, ids)[c] = onDisk[c]
<1> DEFINE kept == Without(onDisk, ids)
           merged == Override(cs, kept)
<1>1. BuildComments(cs, onDisk, ids) = Without(merged, ids \ ReviewLevel)
  BY DEF BuildComments, MergeDiskComments, ApplyDeletedCommentIDs
<1>2. c \in DOMAIN merged /\ BuildComments(cs, onDisk, ids)[c] = merged[c]
  BY <1>1 DEF Without
<1>3. \/ c \in DOMAIN cs /\ merged[c] = cs[c]
      \/ c \in DOMAIN kept /\ merged[c] = kept[c]
  BY <1>2 DEF Override
<1>4. c \in DOMAIN kept => c \in DOMAIN onDisk /\ kept[c] = onDisk[c]
  BY DEF Without
<1> QED BY <1>2, <1>3, <1>4

(* Steps of a save that leave memory and the file as they are.             *)
LEMMA RepliesUntouched ==
  ASSUME RepliesMerged, UNCHANGED <<mem, disk, hist.agentReplies, hist.deleted>>,
         last' = last \/ writer.pc \in {"snapshot", "save", "ack", "ackEmpty"},
         ~At("clear")', writer'.pc \notin {"snapshot", "save", "ack", "ackEmpty"} \/ writer' = writer
  PROVE  RepliesMerged'
BY DEF RepliesMerged, Adopted, At, Missing

(* The merge before the snapshot: memory has every agent's reply after it. *)
LEMMA RepliesMergeReplies == AllOK /\ DeletedMarked /\ MergeReplies => RepliesMerged'
<1> SUFFICES ASSUME AllOK, DeletedMarked, MergeReplies PROVE RepliesMerged'
  OBVIOUS
<1>1. /\ UNCHANGED <<last, disk, hist>> /\ writer.pc = "merge"
      /\ writer'.pc \in {"snapshot", "wipe"}
  BY DEF MergeReplies, flags, At, WriterTo, AllOK, TypeOK, WriterOK
<1>2. CASE DeletedOutside
  <2>1. mem' = mem /\ writer'.pc = "wipe"
    BY <1>2 DEF MergeReplies, WriterTo, AllOK, TypeOK, WriterOK
  <2> QED BY <1>1, <2>1 DEF AllOK, RepliesMerged, Adopted, At, Missing
<1>3. CASE ~DeletedOutside
  <2>1. writer'.pc = "snapshot"
        /\ mem' = IF Missing \/ disk.mtime = last THEN mem
                  ELSE AddNewReplies(mem, disk.comments, gone, DOMAIN dirty)
    BY <1>3 DEF MergeReplies, WriterTo, AllOK, TypeOK, WriterOK
  <2>2. ASSUME NEW p \in hist.agentReplies, p[1] \in DOMAIN mem
        PROVE  /\ ~Missing /\ p[1] \in DOMAIN disk.comments
               /\ p[2] \in disk.comments[p[1]].replies /\ p[2] \notin gone
    <3>1. p[1] \in DOMAIN disk.comments
      BY <2>2 DEF AllOK, RepliesMerged, DeletedMarked
    <3> QED BY <2>2, <3>1 DEF AllOK, RepliesMerged, Adopted, FirstRound, OwnersOK
  <2>3. Adopted(mem)'
    <3>1. CASE Missing
      BY <1>1, <2>1, <2>2, <3>1 DEF Adopted
    <3>2. CASE ~Missing /\ disk.mtime = last
      BY <1>1, <2>1, <3>2 DEF AllOK, RepliesMerged, Adopted
    <3>3. CASE ~Missing /\ disk.mtime # last
      <4>1. mem' = AddNewReplies(mem, disk.comments, gone, DOMAIN dirty)
        BY <2>1, <3>3
      <4>2. ASSUME NEW c \in DOMAIN mem, c \in DOMAIN disk.comments
            PROVE  disk.comments[c].replies \ gone \subseteq mem'[c].replies
        BY <4>1, <4>2 DEF AddNewReplies
      <4>3. DOMAIN mem' = DOMAIN mem
        BY <4>1 DEF AddNewReplies
      <4>4. ASSUME NEW p \in hist.agentReplies, p[1] \in DOMAIN mem'
            PROVE  p[2] \in mem'[p[1]].replies
        BY <2>2, <4>2, <4>3, <4>4
      <4> QED BY <1>1, <4>4 DEF Adopted
    <3> QED BY <3>1, <3>2, <3>3
  <2> QED BY <1>1, <2>1, <2>3 DEF AllOK, RepliesMerged, Adopted, At
<1> QED BY <1>2, <1>3

LEMMA RepliesSnapshot == AllOK /\ SnapshotForWrite => RepliesMerged'
<1> SUFFICES ASSUME AllOK, SnapshotForWrite PROVE RepliesMerged'
  OBVIOUS
<1>1. /\ UNCHANGED <<last, mem, disk, hist>> /\ writer.pc = "snapshot"
      /\ writer'.pc = "save" /\ writer'.snap.mem = mem
  BY DEF SnapshotForWrite, memory, flags, At, AllOK, TypeOK, WriterOK
<1> QED BY <1>1 DEF AllOK, RepliesMerged, Adopted, At

(* The save: every agent's reply is in the file that it writes.            *)
LEMMA RepliesSave == AllOK /\ SaveReviewFile => RepliesMerged'
<1> SUFFICES ASSUME AllOK, SaveReviewFile PROVE RepliesMerged'
  OBVIOUS
<1> DEFINE snap == writer.snap
           built == BuildComments(snap.mem, disk.comments, snap.tomb)
<1>1. UNCHANGED <<mem, last>> /\ writer.pc = "save" /\ writer'.pc \in {"ack", "ackEmpty"}
  BY DEF SaveReviewFile, memory, flags, At, AllOK, TypeOK, WriterOK
<1>2. UNCHANGED <<hist.agentReplies, hist.deleted>>
  BY DEF SaveReviewFile, AllOK, TypeOK, HistOK
<1>3. IsCommentSet(snap.mem) /\ IsCommentSet(disk.comments)
  BY DEF AllOK, TypeOK, WriterOK, SnapshotOK, DiskOK
<1>4. DOMAIN disk'.comments = DOMAIN built
      /\ (disk'.comments = built \/ DOMAIN disk'.comments = {})
  BY NoCommentsLemma DEF SaveReviewFile, NoFile
<1>5. Adopted(snap.mem) /\ Adopted(disk.comments) /\ Adopted(mem)
  BY <1>1 DEF AllOK, RepliesMerged, At
<1>6. Adopted(built)
  <2> SUFFICES ASSUME NEW p \in hist.agentReplies, p[1] \in DOMAIN built
               PROVE  p[2] \in built[p[1]].replies
    BY DEF Adopted
  <2>1. \/ p[1] \in DOMAIN snap.mem /\ built[p[1]] = snap.mem[p[1]]
        \/ p[1] \in DOMAIN disk.comments /\ built[p[1]] = disk.comments[p[1]]
    BY <1>3, BuildValues
  <2> QED BY <1>5, <2>1 DEF Adopted
<1>7. DOMAIN disk.comments \ snap.tomb \subseteq DOMAIN built
  BY <1>3, BuildLemma
<1> HIDE DEF built, snap
<1>8. Adopted(disk.comments)'
  BY <1>2, <1>4, <1>6 DEF Adopted
<1>9. \A p \in hist'.agentReplies : p[1] \in DOMAIN disk'.comments \cup hist'.deleted
  BY <1>2, <1>4, <1>7 DEF AllOK, RepliesMerged, Provenance, snap
<1> QED BY <1>1, <1>2, <1>5, <1>8, <1>9 DEF RepliesMerged, Adopted, At

LEMMA RepliesWriter ==
  AllOK /\ (TimerFires \/ (\E gen \in fired : TimerCallback(gen)) \/ Finish
            \/ CheckExternalDeletion \/ SaveFails \/ AcknowledgeWrite \/ MarkEmptyWritten)
  => RepliesMerged'
<1> SUFFICES ASSUME AllOK,
                    TimerFires \/ (\E gen \in fired : TimerCallback(gen)) \/ Finish
                    \/ CheckExternalDeletion \/ SaveFails \/ AcknowledgeWrite \/ MarkEmptyWritten
             PROVE  RepliesMerged'
  OBVIOUS
<1>1. UNCHANGED <<mem, disk>> /\ RepliesMerged /\ writer.pc # "clear"
  BY DEF TimerFires, TimerCallback, Finish, CheckExternalDeletion, SaveFails, AcknowledgeWrite,
         MarkEmptyWritten, memory, AllOK, RepliesMerged, At
<1>2. UNCHANGED <<hist.agentReplies, hist.deleted>>
  BY DEF TimerFires, TimerCallback, Finish, CheckExternalDeletion, SaveFails, AcknowledgeWrite,
         MarkEmptyWritten, AllOK, TypeOK, HistOK
<1>3. last' = last \/ writer.pc \in {"snapshot", "save", "ack", "ackEmpty"}
  BY DEF TimerFires, TimerCallback, Finish, CheckExternalDeletion, SaveFails, AcknowledgeWrite,
         MarkEmptyWritten, flags, At
<1>4. writer'.pc \in {"free", "check", "merge", "wipe"} \/ writer' = writer
  <2>1. \/ writer' = writer \/ writer' = Free \/ writer'.pc \in {"check", "merge", "wipe"}
    <3>1. CASE CheckExternalDeletion
      BY <3>1 DEF CheckExternalDeletion, WriterTo, AllOK, TypeOK, WriterOK
    <3>2. CASE Finish
      BY <3>2 DEF Finish, SyncWriteFiles, Free
    <3>3. CASE \E gen \in fired : TimerCallback(gen)
      BY <3>3 DEF TimerCallback, Free
    <3>4. CASE TimerFires \/ SaveFails \/ AcknowledgeWrite \/ MarkEmptyWritten
      BY <3>4 DEF TimerFires, SaveFails, AcknowledgeWrite, MarkEmptyWritten, Release
    <3> QED BY <3>1, <3>2, <3>3, <3>4
  <2> QED BY <2>1 DEF Free
<1> QED BY <1>1, <1>2, <1>3, <1>4, RepliesUntouched DEF At
-----------------------------------------------------------------------------
(* A reload that is no race reads the file that is there.                  *)
LEMMA RepliesWatchMerges ==
  AllOK /\ DeletedMarked /\ WatchMerges /\ ~hist'.raced => RepliesMerged'
<1> SUFFICES ASSUME AllOK, DeletedMarked, WatchMerges, ~hist'.raced PROVE RepliesMerged'
  OBVIOUS
<1>1. /\ UNCHANGED <<writer, disk>> /\ watch.pc = "merge" /\ last' = watch.mtime
      /\ UNCHANGED <<hist.agentReplies, hist.deleted>>
      /\ ~Outdated
  <2>1. hist' = [hist EXCEPT !.unsaved = @ \cap DOMAIN mem', !.raced = @ \/ Outdated]
    BY DEF WatchMerges
  <2> QED BY <2>1 DEF WatchMerges, WatchAt, AllOK, TypeOK, HistOK
<1>2. writer.pc = "free" /\ watch.comments = disk.comments
  BY <1>1 DEF Outdated, DeletedMarked, WatchAt
<1>3. ~StaleRound
  BY DEF StaleRound, AllOK, FirstRound, TypeOK, WatchOK
<1>4. mem' = MergeFromDisk(mem, disk.comments)
  BY <1>2, <1>3 DEF WatchMerges
<1>5. ASSUME NEW c \in DOMAIN disk.comments PROVE disk.comments[c].replies \subseteq mem'[c].replies
  BY <1>4 DEF MergeFromDisk
<1>6. DOMAIN mem' = DOMAIN disk.comments
  BY <1>4 DEF MergeFromDisk
<1>7. Adopted(disk.comments)
  BY DEF AllOK, RepliesMerged
<1>8. Adopted(mem)'
  <2> SUFFICES ASSUME NEW p \in hist.agentReplies, p[1] \in DOMAIN mem'
               PROVE  p[2] \in mem'[p[1]].replies
    BY <1>1 DEF Adopted
  <2> QED BY <1>5, <1>6, <1>7 DEF Adopted
<1> QED BY <1>1, <1>2, <1>8 DEF AllOK, RepliesMerged, Adopted, At

LEMMA RepliesWatch ==
  AllOK /\ (WatchStats \/ WatchCompares \/ WatchReads \/ WatchWipes) => RepliesMerged'
<1> SUFFICES ASSUME AllOK, WatchStats \/ WatchCompares \/ WatchReads \/ WatchWipes
             PROVE  RepliesMerged'
  OBVIOUS
<1>1. CASE WatchStats \/ WatchCompares \/ WatchReads
  <2>1. UNCHANGED <<mem, last, disk, writer, hist>>
    BY <1>1 DEF WatchStats, WatchCompares, WatchReads, memory, flags
  <2> QED BY <2>1 DEF AllOK, RepliesMerged, Adopted, At, Missing
<1>2. CASE WatchWipes
  <2>1. UNCHANGED <<disk, writer>>
    BY <1>2 DEF WatchWipes
  <2>2. hist'.agentReplies = {}
    BY <1>2 DEF WatchWipes, ClearAllCommentData, AllOK, TypeOK, HistOK
  <2> QED BY <2>1, <2>2 DEF AllOK, RepliesMerged, Adopted, At
<1> QED BY <1>1, <1>2

LEMMA RepliesAgents == AllOK /\ Agents => RepliesMerged'
<1> SUFFICES ASSUME AllOK, Agents PROVE RepliesMerged'
  OBVIOUS
<1>1. UNCHANGED <<mem, last, writer>> /\ ~FlockHeld /\ IsCommentSet(disk.comments)
  BY DEF Agents, AgentComments, AgentReplies, memory, flags, AllOK, TypeOK, DiskOK
<1>2. disk'.mtime = NewMtime /\ NewMtime # last
  <2>1. disk'.mtime = NewMtime
    BY DEF Agents, AgentComments, AgentReplies, AgentSaves, AllOK, TypeOK, DiskOK
  <2>2. NewMtime # last
    BY NewTimes DEF AllOK
  <2> QED BY <2>1, <2>2
<1>3. hist'.deleted = hist.deleted
  BY DEF Agents, AgentComments, AgentReplies, AllOK, TypeOK, HistOK
<1>4. SUFFICES /\ Adopted(disk.comments)'
               /\ \A p \in hist'.agentReplies : p[1] \in DOMAIN disk'.comments \cup hist.deleted
  BY <1>1, <1>2, <1>3 DEF AllOK, RepliesMerged, At, Missing, FlockHeld
<1>5. ASSUME NEW c \in CommentId, AgentComments(c)
      PROVE  /\ Adopted(disk.comments)'
             /\ \A p \in hist'.agentReplies : p[1] \in DOMAIN disk'.comments \cup hist.deleted
  <2>1. disk'.comments = With(disk.comments, c, Fresh)
    BY <1>5 DEF AgentComments, AgentSaves, AllOK, TypeOK, DiskOK
  <2>2. hist'.agentReplies = hist.agentReplies
    BY <1>5 DEF AgentComments, AllOK, TypeOK, HistOK
  <2>3. \A p \in hist.agentReplies : p[1] # c
    BY <1>5, AgentRepliesBorn DEF AgentComments
  <2> QED BY <2>1, <2>2, <2>3 DEF AllOK, RepliesMerged, Adopted, With
<1>6. ASSUME NEW c \in CommentId, NEW r \in ReplyId, NEW resolve \in BOOLEAN,
             AgentReplies(c, r, resolve)
      PROVE  /\ Adopted(disk.comments)'
             /\ \A p \in hist'.agentReplies : p[1] \in DOMAIN disk'.comments \cup hist.deleted
  <2> DEFINE new == [disk.comments[c] EXCEPT !.replies = @ \cup {r}, !.resolved = resolve]
  <2>1. disk'.comments = With(disk.comments, c, new) /\ c \in DOMAIN disk.comments
    BY <1>6 DEF AgentReplies, AgentSaves, AllOK, TypeOK, DiskOK
  <2>2. hist'.agentReplies = hist.agentReplies \cup {<<c, r>>}
    BY <1>6 DEF AgentReplies, AllOK, TypeOK, HistOK
  <2>3. new.replies = disk.comments[c].replies \cup {r}
    BY <1>1, <2>1 DEF IsCommentSet, Comment
  <2> HIDE DEF new
  <2>4. DOMAIN disk'.comments = DOMAIN disk.comments
    BY <2>1 DEF With
  <2>5. \A i \in DOMAIN disk.comments : disk.comments[i].replies \subseteq disk'.comments[i].replies
    BY <2>1, <2>3 DEF With
  <2>6. r \in disk'.comments[c].replies
    BY <2>1, <2>3 DEF With
  <2>7. <<c, r>>[1] = c /\ <<c, r>>[2] = r
    OBVIOUS
  <2>8. Adopted(disk.comments)'
    BY <2>2, <2>4, <2>5, <2>6, <2>7 DEF AllOK, RepliesMerged, Adopted
  <2>9. \A p \in hist'.agentReplies : p[1] \in DOMAIN disk'.comments \cup hist.deleted
    BY <2>1, <2>2, <2>4, <2>7 DEF AllOK, RepliesMerged
  <2> QED BY <2>8, <2>9
<1> QED BY <1>5, <1>6 DEF Agents

LEMMA RepliesRestart == AllOK /\ Restart => RepliesMerged'
<1> SUFFICES ASSUME AllOK, Restart PROVE RepliesMerged'
  OBVIOUS
<1>1. mem' = disk.comments /\ disk' = disk /\ writer'.pc = "free"
  BY DEF Restart, Free
<1>2. hist'.agentReplies = hist.agentReplies
      /\ hist'.deleted = hist.deleted \ DOMAIN disk.comments
  BY DEF Restart, AllOK, TypeOK, HistOK
<1> QED BY <1>1, <1>2 DEF AllOK, RepliesMerged, Adopted, At
-----------------------------------------------------------------------------
LEMMA RepliesInit == Init => RepliesOK
<1> SUFFICES ASSUME Init PROVE RepliesMerged
  BY DEF RepliesOK
<1>1. hist.agentReplies = {} /\ writer.pc = "free"
  BY DEF Init, Free
<1> QED BY <1>1 DEF RepliesMerged, Adopted, At

LEMMA RacedStays == TypeOK /\ [Next]_vars /\ hist.raced => hist'.raced
<1> SUFFICES ASSUME TypeOK, [Next]_vars, hist.raced PROVE hist'.raced
  OBVIOUS
<1>1. CASE Reviewer \/ Agents \/ FolderCleared \/ FileRemoved \/ Restart \/ ClearMemory
           \/ ClearReviewFolder \/ SignalRoundComplete \/ UNCHANGED vars
  BY <1>1 DEF Reviewer, AddComment, DeleteComment, SetCommentResolved, AddReply, DeleteReply, vars,
     Agents, AgentComments, AgentReplies, FolderCleared, FileRemoved, Restart, ClearMemory,
     ClearReviewFolder, SignalRoundComplete, TypeOK, HistOK
<1>2. CASE Writer \/ TimerFires \/ Finish \/ SaveFails
  BY <1>2 DEF Writer, TimerCallback, CheckExternalDeletion, MergeReplies, SnapshotForWrite,
     SaveReviewFile, AcknowledgeWrite, MarkEmptyWritten, WriterWipes, ClearAllCommentData,
     TimerFires, Finish, SaveFails, TypeOK, HistOK
<1>3. CASE Watcher
  BY <1>3 DEF Watcher, WatchStats, WatchCompares, WatchReads, WatchMerges, WatchWipes,
     ClearAllCommentData, RoundReads, RoundLoads, RoundCarries, RoundRestores, RoundAdvances,
     PersistAfterRoundComplete, TypeOK, HistOK
<1> QED BY <1>1, <1>2, <1>3 DEF Next

LEMMA RepliesNext ==
  /\ NoRounds /\ NoRemovals /\ TypeOK /\ Provenance /\ TombsOK /\ DeletesOK /\ OwnersOK
  /\ FirstRound /\ RepliesOK /\ [Next]_vars
  => RepliesOK'
<1> SUFFICES ASSUME NoRounds, NoRemovals, TypeOK, Provenance, TombsOK, DeletesOK, OwnersOK,
                    FirstRound, RepliesOK, [Next]_vars, ~hist'.raced
             PROVE  RepliesMerged'
  BY DEF RepliesOK
<1>1. AllOK /\ DeletedMarked
  BY RacedStays DEF AllOK, RepliesOK, DeletesOK
<1>2. ~(FolderCleared \/ FileRemoved \/ ClearMemory \/ ClearReviewFolder \/ WriterWipes)
  <2>1. ~WriterWipes
    <3>1. ~hist.removed
      BY DEF DeletesOK, PendingTombs
    <3>2. WriterWipes => hist'.raced
      BY <3>1 DEF WriterWipes, ClearAllCommentData, TypeOK, HistOK
    <3> QED BY <3>2
  <2>2. ~ClearReviewFolder
    BY <1>1 DEF ClearReviewFolder, AllOK, RepliesMerged
  <2> QED BY <2>1, <2>2 DEF FolderCleared, FileRemoved, ClearMemory, Act, NoRemovals
<1>3. CASE UNCHANGED vars
  BY <1>1, <1>3 DEF vars, memory, flags, AllOK, RepliesMerged, Adopted, At, Missing
<1>4. CASE Reviewer \/ Agents \/ Restart
  BY <1>1, <1>4, RepliesReviewer, RepliesAgents, RepliesRestart
<1>5. CASE Writer \/ TimerFires \/ Finish \/ SaveFails
  BY <1>1, <1>2, <1>5, RepliesWriter, RepliesMergeReplies, RepliesSnapshot, RepliesSave DEF Writer
<1>6. CASE Watcher \/ SignalRoundComplete
  BY <1>1, <1>6, RoundsNever, RepliesWatch, RepliesWatchMerges DEF Watcher, TombsOK
<1> QED BY <1>2, <1>3, <1>4, <1>5, <1>6 DEF Next

(* While no round is completed and nobody removes or clears the review, no *)
(* save writes over an agent's reply, or a reload raced: for any numbers   *)
(* of comments, replies, saves, failures and restarts.                     *)
THEOREM AgentRepliesStay == ASSUME NoRounds, NoRemovals PROVE Spec => []AgentReplyKept
<1> DEFINE Inv == /\ TypeOK /\ Provenance /\ TombsOK /\ DeletesOK /\ OwnersOK /\ FirstRound
                  /\ RepliesOK
<1>1. Init => Inv
  BY TypeInit, ProvenanceInit, DeletesInit, OwnersInit, FirstRoundInit, RepliesInit
<1>2. Inv /\ [Next]_vars => Inv'
  BY TypeNext, ProvenanceNext, DeletesNext, OwnersNext, FirstRoundNext, RepliesNext DEF Kept
<1>3. Inv => AgentReplyKept
  BY DEF RepliesOK, RepliesMerged, Adopted, AgentReplyKept, RepliesOnDisk
<1> QED BY <1>1, <1>2, <1>3, PTL DEF Spec
-----------------------------------------------------------------------------
(* The reviewer's resolved marks.  A mark that a save would acknowledge is *)
(* of a comment whose flag in memory is the one in the snapshot, and of    *)
(* the comments in the snapshot the file has just what it has.             *)
MarksFresh ==
  /\ writer.pc \in {"save", "ack", "ackEmpty"} =>
       \A c \in DOMAIN mem \cap DOMAIN dirty \cap DOMAIN writer.snap.dirty :
         writer.snap.dirty[c] = dirty[c] =>
           c \in DOMAIN writer.snap.mem /\ mem[c].resolved = writer.snap.mem[c].resolved
  /\ writer.pc \in {"ack", "ackEmpty"} =>
       \A c \in DOMAIN writer.snap.mem \cap DOMAIN disk.comments :
         disk.comments[c] = writer.snap.mem[c]

MarksOK ==
  /\ DOMAIN dirty \subseteq hist.born /\ DOMAIN writer.snap.dirty \subseteq hist.born
  /\ hist.raced \/ MarksFresh

(* A handler that leaves the marks alone, and one that makes a mark.       *)
LEMMA MarksHandler ==
  ASSUME TypeOK, MarksFresh, UNCHANGED <<writer, disk>>,
         \/ /\ dirty' = dirty
            /\ \A c \in DOMAIN mem' \cap DOMAIN dirty :
                 c \in DOMAIN mem /\ mem'[c].resolved = mem[c].resolved
         \/ \E c \in CommentId :
              /\ dirty' = With(dirty, c, seq.resolved + 1)
              /\ DOMAIN mem' = DOMAIN mem
              /\ \A i \in DOMAIN mem \ {c} : mem'[i] = mem[i]
  PROVE  MarksFresh'
<1>1. CASE /\ dirty' = dirty
           /\ \A c \in DOMAIN mem' \cap DOMAIN dirty :
                c \in DOMAIN mem /\ mem'[c].resolved = mem[c].resolved
  BY <1>1 DEF MarksFresh
<1>2. ASSUME NEW c \in CommentId, dirty' = With(dirty, c, seq.resolved + 1),
             DOMAIN mem' = DOMAIN mem, \A i \in DOMAIN mem \ {c} : mem'[i] = mem[i]
      PROVE  MarksFresh'
  <2>1. DOMAIN dirty' = DOMAIN dirty \cup {c} /\ dirty'[c] = seq.resolved + 1
        /\ \A i \in DOMAIN dirty \ {c} : dirty'[i] = dirty[i]
    BY <1>2 DEF With
  <2>2. c \in DOMAIN writer.snap.dirty => writer.snap.dirty[c] \in 1..seq.resolved
    BY DEF TypeOK, WriterOK, SnapshotOK, IsChanges
  <2>3. seq.resolved \in Nat
    BY DEF TypeOK, TimersOK
  <2>4. c \in DOMAIN writer.snap.dirty => writer.snap.dirty[c] # dirty'[c]
    BY <2>1, <2>2, <2>3
  <2> QED BY <1>2, <2>1, <2>4 DEF MarksFresh
<1> QED BY <1>1, <1>2

LEMMA MarksReviewer == TypeOK /\ Provenance /\ MarksOK /\ Reviewer => MarksOK'
<1> SUFFICES ASSUME TypeOK, Provenance, MarksOK, Reviewer PROVE MarksOK'
  OBVIOUS
<1>1. UNCHANGED <<writer, disk>>
  BY DEF Reviewer, AddComment, DeleteComment, SetCommentResolved, AddReply, DeleteReply
<1>2. hist.born \subseteq hist'.born /\ hist'.raced = hist.raced
  <2>1. Handled
    BY ReviewerHandles
  <2> QED BY <2>1 DEF Handled
<1>3. ASSUME NEW c \in CommentId, AddComment(c) \/ DeleteComment(c) PROVE MarksOK'
  <2>1. dirty' = dirty /\ (mem' = Without(mem, {c}) \/ (mem' = With(mem, c, Fresh) /\ c \notin hist.born))
    BY <1>3 DEF AddComment, DeleteComment
  <2>2. \A i \in DOMAIN mem' \cap DOMAIN dirty : i \in DOMAIN mem /\ mem'[i] = mem[i]
    BY <2>1 DEF With, Without, MarksOK
  <2>3. MarksFresh => MarksFresh'
    BY <1>1, <2>1, <2>2, MarksHandler
  <2> QED BY <1>1, <1>2, <2>1, <2>3 DEF MarksOK
<1>4. ASSUME NEW c \in CommentId, NEW new, mem' = With(mem, c, new), c \in DOMAIN mem,
             MarkResolvedDirty(c)
      PROVE  MarksOK'
  <2>1. dirty' = With(dirty, c, seq.resolved + 1)
    BY <1>4 DEF MarkResolvedDirty
  <2>2. DOMAIN mem' = DOMAIN mem /\ \A i \in DOMAIN mem \ {c} : mem'[i] = mem[i]
    BY <1>4 DEF With
  <2>3. MarksFresh => MarksFresh'
    BY <1>1, <2>1, <2>2, MarksHandler
  <2>4. DOMAIN dirty' \subseteq hist'.born
    BY <1>2, <1>4, <2>1 DEF With, MarksOK, Provenance
  <2> QED BY <1>1, <1>2, <2>3, <2>4 DEF MarksOK
<1>5. ASSUME NEW c \in CommentId, NEW r \in ReplyId, DeleteReply(c, r) PROVE MarksOK'
  <2>1. dirty' = dirty /\ c \in DOMAIN mem
        /\ mem' = With(mem, c, [mem[c] EXCEPT !.replies = @ \ {r}])
    BY <1>5 DEF DeleteReply
  <2>2. mem[c] \in Comment
    BY <2>1 DEF TypeOK, MemoryOK, IsCommentSet
  <2>3. \A i \in DOMAIN mem' : i \in DOMAIN mem /\ mem'[i].resolved = mem[i].resolved
    BY <2>1, <2>2 DEF With, Comment
  <2>4. MarksFresh => MarksFresh'
    BY <1>1, <2>1, <2>3, MarksHandler
  <2> QED BY <1>1, <1>2, <2>1, <2>4 DEF MarksOK
<1>6. ASSUME NEW c \in CommentId, NEW resolved \in BOOLEAN, SetCommentResolved(c, resolved)
      PROVE  MarksOK'
  BY <1>4, <1>6 DEF SetCommentResolved
<1>7. ASSUME NEW c \in CommentId, NEW r \in ReplyId, AddReply(c, r) PROVE MarksOK'
  BY <1>4, <1>7 DEF AddReply
<1> QED BY <1>3, <1>5, <1>6, <1>7 DEF Reviewer

(* What was in the snapshot goes to the file as it is.                     *)
LEMMA BuildCopies ==
  ASSUME NEW cs, IsCommentSet(cs), NEW onDisk, NEW ids,
         NEW c \in DOMAIN cs, c \in DOMAIN BuildComments(cs, onDisk, ids)
  PROVE  BuildComments(cs, onDisk, ids)[c] = cs[c]
BY DEF BuildComments, MergeDiskComments, ApplyDeletedCommentIDs, Override, Without

LEMMA MarksSave == TypeOK /\ MarksOK /\ (SnapshotForWrite \/ SaveReviewFile) => MarksOK'
<1> SUFFICES ASSUME TypeOK, MarksOK, SnapshotForWrite \/ SaveReviewFile PROVE MarksOK'
  OBVIOUS
<1>1. CASE SnapshotForWrite
  <2>1. /\ UNCHANGED <<mem, dirty, disk, hist>> /\ writer'.pc = "save"
        /\ writer'.snap.mem = mem /\ writer'.snap.dirty = dirty
    BY <1>1 DEF SnapshotForWrite, memory, TypeOK, WriterOK
  <2> QED BY <2>1 DEF MarksOK, MarksFresh
<1>2. CASE SaveReviewFile
  <2>1. /\ UNCHANGED <<mem, dirty>> /\ writer.pc = "save" /\ writer'.pc \in {"ack", "ackEmpty"}
        /\ writer'.snap = writer.snap
    BY <1>2 DEF SaveReviewFile, memory, At, TypeOK, WriterOK
  <2>2. UNCHANGED <<hist.born, hist.raced>>
    BY <1>2 DEF SaveReviewFile, TypeOK, HistOK
  <2>3. \/ disk'.comments = BuildComments(writer.snap.mem, disk.comments, writer.snap.tomb)
        \/ DOMAIN disk'.comments = {}
    BY <1>2, NoCommentsLemma DEF SaveReviewFile, NoFile
  <2>4. \A c \in DOMAIN writer.snap.mem \cap DOMAIN disk'.comments :
          disk'.comments[c] = writer.snap.mem[c]
    BY <2>3, BuildCopies DEF TypeOK, WriterOK, SnapshotOK
  <2> QED BY <2>1, <2>2, <2>4 DEF MarksOK, MarksFresh
<1> QED BY <1>1, <1>2

(* Steps after which no save is past its snapshot.                         *)
LEMMA MarksElsewhere ==
  ASSUME MarksOK, DOMAIN dirty' \subseteq hist.born, hist.born \subseteq hist'.born,
         DOMAIN writer'.snap.dirty \subseteq hist.born,
         writer'.pc \notin {"save", "ack", "ackEmpty"}
  PROVE  MarksOK'
BY DEF MarksOK, MarksFresh

LEMMA MarksNext ==
  NoRounds /\ TypeOK /\ Provenance /\ TombsOK /\ MarksOK /\ [Next]_vars => MarksOK'
<1> SUFFICES ASSUME NoRounds, TypeOK, Provenance, TombsOK, MarksOK, [Next]_vars PROVE MarksOK'
  OBVIOUS
<1>1. /\ DOMAIN dirty \subseteq hist.born /\ DOMAIN writer.snap.dirty \subseteq hist.born
      /\ DOMAIN Free.snap.dirty = {} /\ Free.pc = "free"
  BY DEF MarksOK, Free, NoSnapshot, NoChanges
<1>2. CASE UNCHANGED vars
  BY <1>2 DEF vars, memory, MarksOK, MarksFresh
<1>3. CASE TimerFires
  BY <1>3 DEF TimerFires, memory, MarksOK, MarksFresh
<1>4. CASE \E gen \in fired : TimerCallback(gen)
  <2>1. UNCHANGED <<dirty, hist, mem, disk>>
        /\ (writer' = writer \/ writer' = [Free EXCEPT !.pc = "check", !.by = "timer"])
    BY <1>4 DEF TimerCallback, memory
  <2>2. CASE writer' = writer
    BY <2>1, <2>2 DEF MarksOK, MarksFresh
  <2>3. CASE writer' = [Free EXCEPT !.pc = "check", !.by = "timer"]
    <3>1. writer'.pc = "check" /\ writer'.snap = Free.snap
      BY <2>3 DEF Free
    <3> QED BY <1>1, <2>1, <3>1, MarksElsewhere
  <2> QED BY <2>1, <2>2, <2>3
<1>5. CASE Finish \/ CheckExternalDeletion \/ MergeReplies \/ ClearMemory
  <2>1. UNCHANGED dirty /\ hist.born = hist'.born
    BY <1>5 DEF Finish, CheckExternalDeletion, MergeReplies, ClearMemory, memory, TypeOK, HistOK
  <2>2. writer'.pc \in {"check", "merge", "wipe", "snapshot", "clear"}
        /\ writer'.snap \in {writer.snap, Free.snap}
    <3>1. CASE Finish
      BY <3>1 DEF Finish, SyncWriteFiles, Free
    <3>2. CASE ClearMemory
      BY <3>2 DEF ClearMemory, Free
    <3>3. CASE CheckExternalDeletion \/ MergeReplies
      BY <3>3 DEF CheckExternalDeletion, MergeReplies, WriterTo, TypeOK, WriterOK
    <3> QED BY <1>5, <3>1, <3>2, <3>3
  <2> QED BY <1>1, <2>1, <2>2, MarksElsewhere
<1>6. CASE AcknowledgeWrite \/ MarkEmptyWritten \/ SaveFails \/ WriterWipes \/ ClearReviewFolder \/ Restart
  <2>1. writer' = Free /\ hist'.born = hist.born
    BY <1>6 DEF AcknowledgeWrite, MarkEmptyWritten, SaveFails, WriterWipes, ClearAllCommentData,
                ClearReviewFolder, Restart, Release, TypeOK, HistOK
  <2>2. DOMAIN dirty' \subseteq DOMAIN dirty
    BY <1>6 DEF AcknowledgeWrite, MarkEmptyWritten, SaveFails, WriterWipes, ClearAllCommentData,
                ClearReviewFolder, Restart, AcknowledgeSnapshot, memory, NoChanges, Without
  <2> QED BY <1>1, <2>1, <2>2, MarksElsewhere
<1>7. CASE WatchStats \/ WatchCompares \/ WatchReads
  BY <1>7 DEF WatchStats, WatchCompares, WatchReads, memory, MarksOK, MarksFresh
<1>8. CASE WatchMerges \/ WatchWipes
  <2>1. /\ writer' = writer /\ DOMAIN dirty' \subseteq DOMAIN dirty /\ hist'.born = hist.born
        /\ hist'.raced \/ ~Outdated
    BY <1>8 DEF WatchMerges, WatchWipes, ClearAllCommentData, NoChanges, TypeOK, HistOK
  <2>2. CASE writer.pc = "free"
    BY <1>1, <2>1, <2>2, MarksElsewhere
  <2>3. CASE writer.pc # "free"
    BY <1>1, <2>1, <2>3 DEF MarksOK, Outdated
  <2> QED BY <2>2, <2>3
<1>9. CASE Agents \/ FolderCleared
  <2>1. UNCHANGED <<dirty, writer>> /\ hist.born \subseteq hist'.born /\ ~FlockHeld
    BY <1>9 DEF Agents, AgentComments, AgentReplies, FolderCleared, memory, TypeOK, HistOK
  <2> QED BY <1>1, <2>1, MarksElsewhere DEF FlockHeld
<1>10. CASE FileRemoved
  <2>1. UNCHANGED <<mem, dirty, writer>> /\ DOMAIN disk'.comments = {}
    BY <1>10, NoCommentsLemma DEF FileRemoved, memory, NoFile
  <2>2. UNCHANGED <<hist.born, hist.raced>>
    BY <1>10 DEF FileRemoved, TypeOK, HistOK
  <2> QED BY <2>1, <2>2 DEF MarksOK, MarksFresh
<1>11. CASE Reviewer \/ SnapshotForWrite \/ SaveReviewFile
  BY <1>11, MarksReviewer, MarksSave
<1>12. ~(SignalRoundComplete \/ RoundReads \/ RoundLoads \/ RoundCarries \/ RoundRestores
         \/ RoundAdvances \/ PersistAfterRoundComplete)
  BY RoundsNever DEF TombsOK
<1>13. CASE Writer
  BY <1>4, <1>5, <1>6, <1>11, <1>13 DEF Writer
<1>14. CASE Watcher
  BY <1>7, <1>8, <1>12, <1>14 DEF Watcher
<1> QED BY <1>2, <1>3, <1>5, <1>6, <1>9, <1>10, <1>11, <1>12, <1>13, <1>14 DEF Next

(* While no round is completed a resolved mark is dropped only when the    *)
(* file has the change: for any numbers of comments, saves and failures.   *)
THEOREM MarksStay == ASSUME NoRounds PROVE Spec => ResolvedMarksOutliveSaves
<1> DEFINE Inv == TypeOK /\ Provenance /\ TombsOK /\ MarksOK
           Step == \A c \in (DOMAIN dirty \ DOMAIN dirty') \cap DOMAIN mem \cap DOMAIN disk.comments :
                     \/ mem[c].resolved = disk.comments[c].resolved
                     \/ hist.raced \/ WriterWipes \/ WatchWipes \/ Restart
<1>1. Init => Inv
  <2>1. Init => MarksOK
    BY DEF Init, NoChanges, Free, NoSnapshot, MarksOK, MarksFresh
  <2> QED BY <2>1, TypeInit, ProvenanceInit, DeletesInit
<1>2. Inv /\ [Next]_vars => Inv'
  BY TypeNext, ProvenanceNext, DeletesNext, MarksNext DEF Kept
<1>3. Inv /\ [Next]_vars => [Step]_vars
  <2> SUFFICES ASSUME Inv, Next PROVE Step
    OBVIOUS
  <2>1. CASE AcknowledgeWrite \/ MarkEmptyWritten
    <3> SUFFICES ASSUME NEW c \in (DOMAIN dirty \ DOMAIN dirty') \cap DOMAIN mem \cap DOMAIN disk.comments,
                        ~hist.raced
                 PROVE  mem[c].resolved = disk.comments[c].resolved
      OBVIOUS
    <3>1. /\ writer.pc \in {"ack", "ackEmpty"}
          /\ c \in DOMAIN writer.snap.dirty /\ writer.snap.dirty[c] = dirty[c]
      BY <2>1 DEF AcknowledgeWrite, MarkEmptyWritten, AcknowledgeSnapshot, memory, At, Without
    <3> QED BY <3>1 DEF MarksOK, MarksFresh
  <2>2. CASE Reviewer
    BY <2>2 DEF Reviewer, AddComment, DeleteComment, SetCommentResolved, AddReply, DeleteReply,
                MarkResolvedDirty, With
  <2>3. CASE TimerFires \/ (\E gen \in fired : TimerCallback(gen)) \/ Finish
             \/ CheckExternalDeletion \/ MergeReplies \/ SnapshotForWrite \/ SaveReviewFile \/ SaveFails
             \/ ClearMemory \/ ClearReviewFolder
    BY <2>3 DEF TimerFires, TimerCallback, Finish, CheckExternalDeletion, MergeReplies, SnapshotForWrite,
                SaveReviewFile, SaveFails, ClearMemory, ClearReviewFolder, memory
  <2>4. CASE Agents \/ FolderCleared \/ FileRemoved
    BY <2>4 DEF Agents, AgentComments, AgentReplies, FolderCleared, FileRemoved, memory
  <2>5. CASE WatchStats \/ WatchCompares \/ WatchReads \/ WatchMerges
    BY <2>5 DEF WatchStats, WatchCompares, WatchReads, WatchMerges, memory
  <2>6. ~(SignalRoundComplete \/ RoundReads \/ RoundLoads \/ RoundCarries \/ RoundRestores
          \/ RoundAdvances \/ PersistAfterRoundComplete)
    BY RoundsNever DEF TombsOK
  <2>7. CASE WriterWipes \/ WatchWipes \/ Restart
    BY <2>7
  <2>8. CASE Writer
    BY <2>1, <2>3, <2>7, <2>8 DEF Writer
  <2>9. CASE Watcher
    BY <2>5, <2>6, <2>7, <2>9 DEF Watcher
  <2> QED BY <2>2, <2>3, <2>4, <2>6, <2>7, <2>8, <2>9 DEF Next
<1> QED BY <1>1, <1>2, <1>3, PTL DEF Spec, ResolvedMarksOutliveSaves
-----------------------------------------------------------------------------
(* When memory and the file agree.  A save past its snapshot has memory as *)
(* it is unless something is pending; it writes just that, or says that    *)
(* the file had more.  What the file had before the watcher loads it, the  *)
(* agents only added to; so a reload makes memory equal to it.             *)
PastSnapshot == writer.pc \in {"save", "ack", "ackEmpty"}
Written ==
  /\ ~At("clear")
  /\ PastSnapshot /\ ~pending => seq.write = writer.snap.write
  /\ PastSnapshot /\ seq.write = writer.snap.write => mem = writer.snap.mem
  /\ At("ack") =>
       /\ \A c \in DOMAIN writer.snap.mem \cap DOMAIN disk.comments :
            disk.comments[c] = writer.snap.mem[c]
       /\ ~writer.adds => disk.comments = writer.snap.mem
  /\ At("ackEmpty") => Missing /\ DOMAIN writer.snap.mem = {}
  /\ watch.pc = "wipe" => watch.mtime = NoMtime
  /\ ~pending =>
       \A c \in DOMAIN mem \cap DOMAIN disk.comments :
         /\ mem[c].replies \subseteq disk.comments[c].replies
         /\ mem[c].github = disk.comments[c].github
  /\ ~pending /\ ~unloaded /\ last = disk.mtime => mem = disk.comments

SettledOK == Disturbed \/ Written

LEMMA DisturbedStays == TypeOK /\ [Next]_vars /\ Disturbed => Disturbed'
<1> SUFFICES ASSUME TypeOK, [Next]_vars PROVE (hist.removed => hist'.removed)
                                              /\ (hist.failed => hist'.failed)
  BY RacedStays DEF Disturbed
<1>1. CASE Reviewer \/ Agents \/ FolderCleared \/ FileRemoved \/ Restart \/ ClearMemory
           \/ ClearReviewFolder \/ SignalRoundComplete \/ UNCHANGED vars
  BY <1>1 DEF Reviewer, AddComment, DeleteComment, SetCommentResolved, AddReply, DeleteReply, vars,
     Agents, AgentComments, AgentReplies, FolderCleared, FileRemoved, Restart, ClearMemory,
     ClearReviewFolder, SignalRoundComplete, TypeOK, HistOK
<1>2. CASE Writer \/ TimerFires \/ Finish \/ SaveFails
  BY <1>2 DEF Writer, TimerCallback, CheckExternalDeletion, MergeReplies, SnapshotForWrite,
     SaveReviewFile, AcknowledgeWrite, MarkEmptyWritten, WriterWipes, ClearAllCommentData,
     TimerFires, Finish, SaveFails, TypeOK, HistOK
<1>3. CASE Watcher
  BY <1>3 DEF Watcher, WatchStats, WatchCompares, WatchReads, WatchMerges, WatchWipes,
     ClearAllCommentData, RoundReads, RoundLoads, RoundCarries, RoundRestores, RoundAdvances,
     PersistAfterRoundComplete, TypeOK, HistOK
<1> QED BY <1>1, <1>2, <1>3 DEF Next

(* After a handler something is pending that no save under way has.        *)
LEMMA SettledHandled == TypeOK /\ Written /\ Handled => Written'
<1> SUFFICES ASSUME TypeOK, Written, Handled PROVE Written'
  OBVIOUS
<1>1. /\ UNCHANGED <<writer, watch, disk>> /\ pending' = TRUE /\ seq'.write = seq.write + 1
      /\ writer.snap.write \in 0..seq.write /\ seq.write \in Nat
  BY DEF Handled, TypeOK, TimersOK, WriterOK, SnapshotOK
<1>2. seq'.write # writer.snap.write
  BY <1>1
<1> QED BY <1>1, <1>2 DEF Written, PastSnapshot, At, Missing

(* Steps that do not touch what the saves and the watcher know.            *)
LEMMA SettledUntouched ==
  ASSUME Written, UNCHANGED <<mem, disk, pending, unloaded, last>>, seq'.write = seq.write,
         writer'.pc \notin {"save", "ack", "ackEmpty", "clear"} \/ writer' = writer,
         watch'.pc = "wipe" => watch'.mtime = NoMtime
  PROVE  Written'
BY DEF Written, PastSnapshot, At, Missing

LEMMA SettledMoves ==
  TypeOK /\ Written /\ (TimerFires \/ (\E gen \in fired : TimerCallback(gen)) \/ Finish
                        \/ CheckExternalDeletion)
  => Written'
<1> SUFFICES ASSUME TypeOK, Written,
                    TimerFires \/ (\E gen \in fired : TimerCallback(gen)) \/ Finish
                    \/ CheckExternalDeletion
             PROVE  Written'
  OBVIOUS
<1>1. UNCHANGED <<mem, disk, pending, unloaded, last, watch>>
  BY DEF TimerFires, TimerCallback, Finish, CheckExternalDeletion, memory, flags
<1>2. /\ seq'.write = seq.write
      /\ writer'.pc \notin {"save", "ack", "ackEmpty", "clear"} \/ writer' = writer
  <2>1. seq'.write = seq.write
    BY WriterMoves DEF Moved
  <2>2. CASE CheckExternalDeletion
    BY <2>2 DEF CheckExternalDeletion, WriterTo, TypeOK, WriterOK
  <2>3. CASE Finish
    <3>1. writer' = [Free EXCEPT !.pc = "check", !.by = "finish"]
      BY <2>3 DEF Finish, SyncWriteFiles
    <3> QED BY <2>1, <3>1 DEF Free
  <2>4. CASE TimerFires
    <3>1. writer' = writer
      BY <2>4 DEF TimerFires
    <3> QED BY <2>1, <3>1
  <2>5. ASSUME NEW gen \in fired, TimerCallback(gen)
        PROVE  writer'.pc \notin {"save", "ack", "ackEmpty", "clear"} \/ writer' = writer
    <3>1. writer' = [Free EXCEPT !.pc = "check", !.by = "timer"] \/ writer' = writer
      BY <2>5 DEF TimerCallback
    <3>2. [Free EXCEPT !.pc = "check", !.by = "timer"].pc = "check"
      BY DEF Free
    <3> QED BY <3>1, <3>2
  <2> QED BY <2>1, <2>2, <2>3, <2>4, <2>5
<1> QED BY <1>1, <1>2, SettledUntouched DEF Written

(* The merge before the snapshot takes replies from the file.              *)
LEMMA SettledMergeReplies == TypeOK /\ Written /\ MergeReplies => Written'
<1> SUFFICES ASSUME TypeOK, Written, MergeReplies PROVE Written'
  OBVIOUS
<1>1. /\ UNCHANGED <<disk, pending, unloaded, last, watch, seq>>
      /\ writer'.pc \in {"snapshot", "wipe"}
  BY DEF MergeReplies, flags, WriterTo, TypeOK, WriterOK
<1>2. CASE mem' = mem
  BY <1>1, <1>2, SettledUntouched DEF Written
<1>3. CASE mem' # mem
  <2>1. disk.mtime # last /\ mem' = AddNewReplies(mem, disk.comments, gone, DOMAIN dirty)
    BY <1>3 DEF MergeReplies
  <2>2. ASSUME NEW c \in DOMAIN mem' \cap DOMAIN disk.comments, ~pending
        PROVE  /\ mem'[c].replies \subseteq disk.comments[c].replies
               /\ mem'[c].github = disk.comments[c].github
    <3>1. c \in DOMAIN mem
      BY <2>1 DEF AddNewReplies
    <3>2. /\ mem'[c].replies \subseteq mem[c].replies \cup disk.comments[c].replies
          /\ mem'[c].github = mem[c].github
      BY <2>1, <3>1 DEF AddNewReplies
    <3> QED BY <2>2, <3>1, <3>2 DEF Written
  <2> QED BY <1>1, <2>1, <2>2 DEF Written, PastSnapshot, At, Missing
<1> QED BY <1>2, <1>3

LEMMA SettledSnapshot == TypeOK /\ Written /\ SnapshotForWrite => Written'
<1> SUFFICES ASSUME TypeOK, Written, SnapshotForWrite PROVE Written'
  OBVIOUS
<1>1. /\ UNCHANGED <<mem, disk, pending, unloaded, last, watch, seq>>
      /\ writer'.pc = "save" /\ writer'.snap.mem = mem /\ writer'.snap.write = seq.write
  BY DEF SnapshotForWrite, memory, flags, TypeOK, WriterOK
<1> QED BY <1>1 DEF Written, PastSnapshot, At, Missing

(* Building from a file that adds nothing gives the snapshot.              *)
LEMMA BuildAddsNothing ==
  ASSUME NEW cs, IsCommentSet(cs), NEW onDisk, IsCommentSet(onDisk), NEW ids,
         ids \cap DOMAIN cs = {}, ~DiskAdds(cs, onDisk, ids)
  PROVE  BuildComments(cs, onDisk, ids) = cs
<1> DEFINE kept == Without(onDisk, ids)
           merged == Override(cs, kept)
<1>1. DOMAIN kept \subseteq DOMAIN cs
  BY DEF DiskAdds, Without
<1>2. merged = [c \in DOMAIN cs |-> cs[c]]
  BY <1>1 DEF Override
<1>3. cs = [c \in DOMAIN cs |-> cs[c]]
  BY DEF IsCommentSet
<1>4. BuildComments(cs, onDisk, ids) = Without(cs, ids \ ReviewLevel)
  BY <1>2, <1>3 DEF BuildComments, MergeDiskComments, ApplyDeletedCommentIDs
<1>5. DOMAIN cs \ (ids \ ReviewLevel) = DOMAIN cs
  OBVIOUS
<1> QED BY <1>3, <1>4, <1>5 DEF Without

LEMMA BuildKeepsSnapshot ==
  ASSUME NEW cs, NEW onDisk, NEW ids, ids \cap DOMAIN cs = {}
  PROVE  DOMAIN cs \subseteq DOMAIN BuildComments(cs, onDisk, ids)
BY DEF BuildComments, MergeDiskComments, ApplyDeletedCommentIDs, Override, Without

LEMMA EmptySet == ASSUME NEW cs, IsCommentSet(cs), DOMAIN cs = {} PROVE cs = NoComments
<1>1. cs = [c \in DOMAIN cs |-> cs[c]]
  BY DEF IsCommentSet
<1> QED BY <1>1 DEF NoComments

LEMMA SettledSave == TypeOK /\ TombsOK /\ Written /\ SaveReviewFile => Written'
<1> SUFFICES ASSUME TypeOK, TombsOK, Written, SaveReviewFile PROVE Written'
  OBVIOUS
<1> DEFINE snap == writer.snap
           built == BuildComments(snap.mem, disk.comments, snap.tomb)
<1>1. /\ UNCHANGED <<mem, pending, unloaded, last, watch, seq>> /\ writer.pc = "save"
      /\ writer'.snap = snap
      /\ writer'.adds = DiskAdds(snap.mem, disk.comments, snap.tomb)
  BY DEF SaveReviewFile, memory, flags, At, TypeOK, WriterOK
<1>2. /\ IsCommentSet(snap.mem) /\ IsCommentSet(disk.comments)
      /\ snap.tomb \cap DOMAIN snap.mem = {}
  BY <1>1 DEF TypeOK, WriterOK, SnapshotOK, DiskOK, TombsOK, At
<1>3. /\ ~pending => seq.write = snap.write
      /\ seq.write = snap.write => mem = snap.mem
  BY <1>1 DEF Written, PastSnapshot
<1>4. CASE DOMAIN built = {}
  <2>1. writer'.pc = "ackEmpty" /\ disk' = NoFile
    BY <1>4 DEF SaveReviewFile, TypeOK, WriterOK
  <2>2. DOMAIN snap.mem = {}
    BY <1>2, <1>4, BuildKeepsSnapshot
  <2>3. Missing' /\ DOMAIN disk'.comments = {} /\ disk'.comments = NoComments
    BY <2>1, NoCommentsLemma DEF Missing, NoFile
  <2>4. ~pending => mem = NoComments
    BY <1>2, <1>3, <2>2, EmptySet
  <2> QED BY <1>1, <1>3, <2>1, <2>2, <2>3, <2>4 DEF Written, PastSnapshot, At
<1>5. CASE DOMAIN built # {}
  <2>1. writer'.pc = "ack" /\ disk'.comments = built /\ disk'.mtime = NewMtime
    BY <1>5 DEF SaveReviewFile, TypeOK, WriterOK
  <2>2. \A c \in DOMAIN snap.mem \cap DOMAIN built : built[c] = snap.mem[c]
    BY <1>2, BuildCopies
  <2>3. ~DiskAdds(snap.mem, disk.comments, snap.tomb) => built = snap.mem
    BY <1>2, BuildAddsNothing
  <2>4. disk'.mtime # last
    BY <2>1, NewTimes
  <2> HIDE DEF built
  <2> QED BY <1>1, <1>3, <2>1, <2>2, <2>3, <2>4 DEF Written, PastSnapshot, At
<1> QED BY <1>4, <1>5

(* An acknowledgement that leaves nothing pending: memory is the snapshot, *)
(* and the file too unless it had more.                                    *)
LEMMA SettledAcknowledge ==
  TypeOK /\ FirstRound /\ Written /\ (AcknowledgeWrite \/ MarkEmptyWritten) /\ NoRound => Written'
<1> SUFFICES ASSUME TypeOK, FirstRound, Written, AcknowledgeWrite \/ MarkEmptyWritten, NoRound
             PROVE  Written'
  OBVIOUS
<1>1. UNCHANGED <<mem, disk, seq>> /\ writer' = Free /\ watch' = watch
  BY DEF AcknowledgeWrite, MarkEmptyWritten, memory, Release, NoRound
<1>2. writer'.pc = "free"
  BY <1>1 DEF Free
<1>3. CASE AcknowledgeWrite /\ Missing
  <2>1. UNCHANGED <<pending, unloaded, last>>
    BY <1>3 DEF AcknowledgeWrite, flags
  <2> QED BY <1>1, <1>2, <2>1, SettledUntouched DEF Written
<1>4. CASE AcknowledgeWrite /\ ~Missing
  <2>1. /\ pending' = (pending /\ seq.write # writer.snap.write) /\ unloaded' = writer.adds
        /\ last' = disk.mtime /\ At("ack")
    BY <1>4 DEF AcknowledgeWrite, AcknowledgeSnapshot
  <2>2. ~pending' => mem = writer.snap.mem
    BY <2>1 DEF Written, PastSnapshot, At
  <2> QED BY <1>1, <1>2, <2>1, <2>2 DEF Written, PastSnapshot, At
<1>5. CASE MarkEmptyWritten
  <2>1. /\ pending' = (pending /\ seq.write # writer.snap.write) /\ At("ackEmpty")
        /\ last' = NoMtime
    BY <1>5 DEF MarkEmptyWritten, AcknowledgeSnapshot
  <2>2. ~pending' => mem = writer.snap.mem
    BY <2>1 DEF Written, PastSnapshot, At
  <2>3. DOMAIN writer.snap.mem = {} /\ DOMAIN disk.comments = {}
    BY <2>1 DEF Written, FirstRound
  <2>4. writer.snap.mem = NoComments /\ disk.comments = NoComments
    BY <2>3, EmptySet DEF TypeOK, WriterOK, SnapshotOK, DiskOK
  <2> QED BY <1>1, <1>2, <2>2, <2>3, <2>4 DEF Written, PastSnapshot, At
<1> QED BY <1>3, <1>4, <1>5

LEMMA SettledWatch ==
  TypeOK /\ FirstRound /\ Written /\ (WatchStats \/ WatchCompares \/ WatchReads) => Written'
<1> SUFFICES ASSUME TypeOK, FirstRound, Written, WatchStats \/ WatchCompares \/ WatchReads
             PROVE  Written'
  OBVIOUS
<1>1. UNCHANGED <<mem, disk, pending, unloaded, last, writer, seq>>
  BY DEF WatchStats, WatchCompares, WatchReads, memory, flags
<1>2. watch'.pc = "wipe" => watch'.mtime = NoMtime
  <2>1. CASE WatchStats
    BY <2>1 DEF WatchStats, Idle
  <2>2. CASE WatchCompares
    <3>1. \/ watch' = Idle \/ watch' = [watch EXCEPT !.pc = "read"]
          \/ watch' = [watch EXCEPT !.pc = "wipe"] /\ watch.mtime = NoMtime
      BY <2>2 DEF WatchCompares
    <3>2. CASE watch' = Idle
      BY <3>2 DEF Idle
    <3>3. CASE watch' = [watch EXCEPT !.pc = "read"]
      BY <3>3 DEF TypeOK, WatchOK
    <3>4. CASE watch' = [watch EXCEPT !.pc = "wipe"] /\ watch.mtime = NoMtime
      BY <3>4 DEF TypeOK, WatchOK
    <3> QED BY <3>1, <3>2, <3>3, <3>4
  <2>3. CASE WatchReads
    <3>1. CASE watch' = Idle
      BY <3>1 DEF Idle
    <3>2. CASE watch' = [watch EXCEPT !.pc = "merge", !.comments = disk.comments,
                                      !.round = disk.round]
      BY <3>2 DEF TypeOK, WatchOK
    <3> QED BY <2>3, <3>1, <3>2 DEF WatchReads
  <2> QED BY <2>1, <2>2, <2>3
<1> QED BY <1>1, <1>2, SettledUntouched

LEMMA SettledMerges ==
  TypeOK /\ FirstRound /\ DeletedMarked /\ Written /\ WatchMerges /\ ~hist'.raced => Written'
<1> SUFFICES ASSUME TypeOK, FirstRound, DeletedMarked, Written, WatchMerges, ~hist'.raced
             PROVE  Written'
  OBVIOUS
<1>1. /\ UNCHANGED <<writer, disk, pending, seq>> /\ watch.pc = "merge" /\ watch' = Idle
      /\ ~Outdated
  <2>1. hist' = [hist EXCEPT !.unsaved = @ \cap DOMAIN mem', !.raced = @ \/ Outdated]
    BY DEF WatchMerges
  <2> QED BY <2>1 DEF WatchMerges, WatchAt, TypeOK, HistOK
<1>2. writer.pc = "free" /\ watch.comments = disk.comments /\ ~pending
  BY <1>1 DEF Outdated, DeletedMarked, WatchAt
<1>3. ~StaleRound
  BY DEF StaleRound, FirstRound, TypeOK, WatchOK
<1>4. mem' = MergeFromDisk(mem, disk.comments)
  BY <1>2, <1>3 DEF WatchMerges
<1>5. IsCommentSet(mem) /\ IsCommentSet(disk.comments)
  BY DEF TypeOK, MemoryOK, DiskOK
<1>6. ASSUME NEW c \in DOMAIN disk.comments PROVE mem'[c] = disk.comments[c]
  <2>1. CASE c \in DOMAIN mem
    <3>1. mem'[c] = [replies |-> mem[c].replies \cup disk.comments[c].replies,
                     resolved |-> disk.comments[c].resolved, github |-> mem[c].github]
      BY <1>4, <2>1 DEF MergeFromDisk
    <3>2. /\ mem[c].replies \subseteq disk.comments[c].replies
          /\ mem[c].github = disk.comments[c].github
      BY <1>2, <2>1 DEF Written
    <3>3. disk.comments[c] \in Comment
      BY <1>5 DEF IsCommentSet
    <3>4. mem[c].replies \cup disk.comments[c].replies = disk.comments[c].replies
      BY <3>2
    <3> QED BY <3>1, <3>2, <3>3, <3>4 DEF Comment
  <2>2. CASE c \notin DOMAIN mem
    BY <1>4, <2>2 DEF MergeFromDisk
  <2> QED BY <2>1, <2>2
<1>7. mem' = disk.comments
  <2>1. mem' = [c \in DOMAIN disk.comments |-> mem'[c]]
    BY <1>4 DEF MergeFromDisk
  <2>2. disk.comments = [c \in DOMAIN disk.comments |-> disk.comments[c]]
    BY <1>5 DEF IsCommentSet
  <2> QED BY <1>6, <2>1, <2>2
<1> QED BY <1>1, <1>2, <1>7 DEF Written, PastSnapshot, At, Idle

LEMMA SettledWipes == TypeOK /\ FirstRound /\ Written /\ WatchWipes /\ ~hist'.raced => Written'
<1> SUFFICES ASSUME TypeOK, FirstRound, Written, WatchWipes, ~hist'.raced PROVE Written'
  OBVIOUS
<1>1. /\ UNCHANGED <<writer, disk, pending, seq>> /\ watch.pc = "wipe" /\ watch' = Idle
      /\ mem' = NoComments
      /\ ~Outdated
  BY DEF WatchWipes, ClearAllCommentData, WatchAt, TypeOK, HistOK
<1>2. Missing /\ writer.pc = "free"
  BY <1>1 DEF Outdated, Written, Missing
<1>3. disk.comments = NoComments
  BY <1>2, EmptySet DEF FirstRound, TypeOK, DiskOK
<1> QED BY <1>1, <1>2, <1>3, NoCommentsLemma DEF Written, PastSnapshot, At, Idle

LEMMA SettledAgents == TypeOK /\ Provenance /\ Written /\ Agents => Written'
<1> SUFFICES ASSUME TypeOK, Provenance, Written, Agents PROVE Written'
  OBVIOUS
<1>1. UNCHANGED <<mem, last, pending, unloaded, seq, watch, writer>> /\ ~FlockHeld
      /\ IsCommentSet(disk.comments)
  BY DEF Agents, AgentComments, AgentReplies, memory, flags, TypeOK, DiskOK
<1>2. disk'.mtime = NewMtime /\ NewMtime # last
  <2>1. disk'.mtime = NewMtime
    BY DEF Agents, AgentComments, AgentReplies, AgentSaves, TypeOK, DiskOK
  <2> QED BY <2>1, NewTimes
<1>3. \A i \in DOMAIN mem \cap DOMAIN disk'.comments :
        /\ i \in DOMAIN disk.comments
        /\ disk.comments[i].replies \subseteq disk'.comments[i].replies
        /\ disk'.comments[i].github = disk.comments[i].github
  <2>1. ASSUME NEW c \in CommentId, AgentComments(c),
               NEW i \in DOMAIN mem \cap DOMAIN disk'.comments
        PROVE  i \in DOMAIN disk.comments /\ disk'.comments[i] = disk.comments[i]
    <3>1. disk'.comments = With(disk.comments, c, Fresh) /\ c \notin hist.born
      BY <2>1 DEF AgentComments, AgentSaves, TypeOK, DiskOK
    <3> QED BY <3>1 DEF With, Provenance
  <2>2. ASSUME NEW c \in CommentId, NEW r \in ReplyId, NEW resolve \in BOOLEAN,
               AgentReplies(c, r, resolve), NEW i \in DOMAIN mem \cap DOMAIN disk'.comments
        PROVE  /\ i \in DOMAIN disk.comments
               /\ disk.comments[i].replies \subseteq disk'.comments[i].replies
               /\ disk'.comments[i].github = disk.comments[i].github
    <3> DEFINE new == [disk.comments[c] EXCEPT !.replies = @ \cup {r}, !.resolved = resolve]
    <3>1. disk'.comments = With(disk.comments, c, new) /\ c \in DOMAIN disk.comments
      BY <2>2 DEF AgentReplies, AgentSaves, TypeOK, DiskOK
    <3>2. /\ new.replies = disk.comments[c].replies \cup {r}
          /\ new.github = disk.comments[c].github
      BY <1>1, <3>1 DEF IsCommentSet, Comment
    <3> HIDE DEF new
    <3> QED BY <3>1, <3>2 DEF With
  <2> QED BY <2>1, <2>2 DEF Agents
<1>4. ~pending =>
        \A i \in DOMAIN mem \cap DOMAIN disk'.comments :
          /\ mem[i].replies \subseteq disk'.comments[i].replies
          /\ mem[i].github = disk'.comments[i].github
  BY <1>3 DEF Written
<1> QED BY <1>1, <1>2, <1>4 DEF Written, PastSnapshot, FlockHeld, At

LEMMA SettledStarts == TypeOK /\ Restart => Written'
<1> SUFFICES ASSUME TypeOK, Restart PROVE Written'
  OBVIOUS
<1>1. mem' = disk.comments /\ disk' = disk /\ writer'.pc = "free" /\ watch'.pc = "idle"
  BY DEF Restart, Free, Idle
<1> QED BY <1>1 DEF Written, PastSnapshot, At

LEMMA SettledInit == Init => SettledOK
<1> SUFFICES ASSUME Init PROVE Written
  BY DEF SettledOK
<1>1. mem = disk.comments /\ writer.pc = "free" /\ watch.pc = "idle"
  BY DEF Init, Free, Idle
<1> QED BY <1>1 DEF Written, PastSnapshot, At

LEMMA SettledNext ==
  /\ NoRounds /\ NoRemovals /\ TypeOK /\ Provenance /\ TombsOK /\ DeletesOK /\ FirstRound
  /\ SettledOK /\ [Next]_vars
  => SettledOK'
<1> SUFFICES ASSUME NoRounds, NoRemovals, TypeOK, Provenance, TombsOK, DeletesOK, FirstRound,
                    SettledOK, [Next]_vars, ~Disturbed'
             PROVE  Written'
  BY DEF SettledOK
<1>1. Written /\ ~hist'.raced /\ DeletedMarked
  BY DisturbedStays, RacedStays DEF SettledOK, Disturbed, DeletesOK
<1>2. ~(FolderCleared \/ FileRemoved \/ ClearMemory \/ SaveFails \/ WriterWipes)
  <2>1. ~WriterWipes
    BY <1>1 DEF WriterWipes, ClearAllCommentData, TypeOK, HistOK, DeletesOK, PendingTombs
  <2>2. ~SaveFails
    BY DEF SaveFails, Disturbed, TypeOK, HistOK
  <2> QED BY <2>1, <2>2 DEF FolderCleared, FileRemoved, ClearMemory, Act, NoRemovals
<1>3. CASE UNCHANGED vars
  BY <1>1, <1>3 DEF vars, memory, flags, Written, PastSnapshot, At, Missing
<1>4. CASE Reviewer \/ Agents \/ Restart
  BY <1>1, <1>4, ReviewerHandles, SettledHandled, SettledAgents, SettledStarts
<1>5. CASE Writer \/ TimerFires \/ Finish
  BY <1>1, <1>2, <1>5, SettledMoves, SettledMergeReplies, SettledSnapshot, SettledSave,
     SettledAcknowledge DEF Writer, TombsOK
<1>6. CASE Watcher \/ SignalRoundComplete
  BY <1>1, <1>6, RoundsNever, SettledWatch, SettledMerges, SettledWipes DEF Watcher, TombsOK
<1>7. CASE ClearReviewFolder
  BY <1>1, <1>7 DEF ClearReviewFolder, Written
<1> QED BY <1>2, <1>3, <1>4, <1>5, <1>6, <1>7 DEF Next

(* While no round is completed and nobody removes or clears the review,    *)
(* the browser shows what the file holds whenever nothing is under way.    *)
THEOREM SettledAgrees == ASSUME NoRounds, NoRemovals PROVE Spec => []SettledMeansEqual
<1> DEFINE Inv == /\ TypeOK /\ Provenance /\ TombsOK /\ DeletesOK /\ FirstRound /\ SettledOK
<1>1. Init => Inv
  BY TypeInit, ProvenanceInit, DeletesInit, FirstRoundInit, SettledInit
<1>2. Inv /\ [Next]_vars => Inv'
  BY TypeNext, ProvenanceNext, DeletesNext, FirstRoundNext, SettledNext DEF Kept
<1>3. Inv => SettledMeansEqual
  BY DEF SettledOK, Written, SettledMeansEqual, Settled
<1> QED BY <1>1, <1>2, <1>3, PTL DEF Spec
=============================================================================
