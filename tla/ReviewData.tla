----------------------------- MODULE ReviewData -----------------------------
(***************************************************************************)
(* The comments of one review and the merges the daemon runs on them.      *)
(*                                                                         *)
(* A set of comments is a function from the ids it holds to what the       *)
(* merges tell apart in a comment: its resolved flag, its replies and      *)
(* whether it carries a GitHub id.  Bodies, anchors, authors and times are *)
(* left out.  Ids are random in the code, so an id names one comment for   *)
(* ever.  A comment of ReviewLevel belongs to the review as a whole, any   *)
(* other one to a file that the session lists.                             *)
(***************************************************************************)
EXTENDS Naturals, FiniteSets

CONSTANTS CommentId, ReplyId, ReviewLevel

ASSUME ReviewLevelAssumption == ReviewLevel \subseteq CommentId

Comment == [resolved : BOOLEAN, replies : SUBSET ReplyId, github : BOOLEAN]
IsCommentSet(cs) == DOMAIN cs \subseteq CommentId /\ cs \in [DOMAIN cs -> Comment]

Fresh == [resolved |-> FALSE, replies |-> {}, github |-> FALSE]
NoComments == [c \in {} |-> Fresh]

Without(cs, ids) == [c \in DOMAIN cs \ ids |-> cs[c]]
With(cs, c, new) == [i \in DOMAIN cs \cup {c} |-> IF i = c THEN new ELSE cs[i]]
Override(base, cs) ==
  [c \in DOMAIN base \cup DOMAIN cs |-> IF c \in DOMAIN base THEN base[c] ELSE cs[c]]
FileLevel(cs) == Without(cs, ReviewLevel)
ReviewOnly(cs) == [c \in DOMAIN cs \cap ReviewLevel |-> cs[c]]

-----------------------------------------------------------------------------
(* buildCritJSON: memory wins, comments only on disk stay unless the       *)
(* reviewer deleted them.                                                  *)
MergeDiskComments(mem, onDisk, tomb) == Override(mem, Without(onDisk, tomb))

(* Tombstones drop file comments even when memory holds them; the pass     *)
(* does not look at review-level comments.                                 *)
ApplyDeletedCommentIDs(cs, tomb) == Without(cs, tomb \ ReviewLevel)

(* Mutants: tombstones are ignored; comments only on disk are dropped.     *)
BuildWithDeleted(mem, onDisk, tomb) == Override(mem, onDisk)
BuildFromMemory(mem, onDisk, tomb) == ApplyDeletedCommentIDs(mem, tomb)

BuildComments(mem, onDisk, tomb) ==
  ApplyDeletedCommentIDs(MergeDiskComments(mem, onDisk, tomb), tomb)

(* Did disk contribute a comment that memory lacks?                        *)
DiskAdds(mem, onDisk, tomb) == DOMAIN onDisk \ (DOMAIN mem \cup tomb) # {}

(* An id already seen on disk and no longer there was drained by a push.   *)
ReconcileDeletes(queue, onDisk, loaded) ==
  {id \in queue : id \in onDisk \/ id \notin loaded}

(* addNewRepliesLocked for every comment in both: adopt replies memory     *)
(* lacks and the reviewer did not delete; with them the resolved state     *)
(* unless the reviewer changed it since the last write.                    *)
AddNewReplies(mem, onDisk, gone, dirty) ==
  LET New(c) == IF c \in DOMAIN onDisk
                THEN onDisk[c].replies \ (mem[c].replies \cup gone)
                ELSE {}
  IN [c \in DOMAIN mem |->
        [replies |-> mem[c].replies \cup New(c),
         resolved |-> IF New(c) # {} /\ c \notin dirty
                      THEN onDisk[c].resolved ELSE mem[c].resolved,
         github |-> mem[c].github]]

(* mergeExternalCritJSON: disk decides which comments exist and whether    *)
(* they are resolved; replies are united; everything else of a comment in  *)
(* both stays as memory has it.                                            *)
MergeFromDisk(mem, onDisk) ==
  [c \in DOMAIN onDisk |->
     IF c \in DOMAIN mem
     THEN [replies |-> mem[c].replies \cup onDisk[c].replies,
           resolved |-> onDisk[c].resolved, github |-> mem[c].github]
     ELSE onDisk[c]]

(* carryForward: every comment of the round that ended, and after it those *)
(* made since the signal.                                                  *)
CarryForward(mem, previous) == Override(previous, mem)
=============================================================================
