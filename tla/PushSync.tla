------------------------------- MODULE PushSync -------------------------------
(***************************************************************************)
(* crit push and crit pull: comments go to a pull request and come back    *)
(* while the daemon keeps its own copy of them and saves it.  A push works *)
(* on a copy of review.json read once, talks to GitHub, and writes back    *)
(* what GitHub answered in short locked updates; a pull merges what it     *)
(* fetched in one.                                                         *)
(***************************************************************************)
EXTENDS Naturals, FiniteSets, Functions

CONSTANTS
  Root, Reply,  \* this review's comments and replies
  Import,       \* comments pulled in
  ParentOf,     \* comment each reply answers
  PlaceOf,      \* file and end line of this review's comments
  Alike,        \* texts of a reply in the file and as sent that crit takes for one
  MaxRemote,    \* bound: comments on GitHub
  MaxActs       \* bound: edits, outages and lost answers

ASSUME PushAssumption ==
  /\ Root \cap Reply = {} /\ Import \cap (Root \cup Reply) = {}
  /\ {"peer", "none"} \cap (Root \cup Reply \cup Import) = {}
  /\ ParentOf \in [Reply -> Root \cup Import]
  /\ IsFiniteSet(Root) /\ MaxRemote \in Nat /\ Cardinality(Root) <= MaxRemote
  /\ MaxActs \in Nat

VARIABLES
  disk,    \* review.json: items and pending GitHub deletes
  mem,     \* the daemon's copy
  saving,  \* what a save in progress will write; it holds the review lock
  remote,  \* comments on the pull request
  github,  \* "ok", "down", or "auth": the token is refused
  push,    \* the push in progress
  pull,    \* the pull in progress: what it fetched
  lost,    \* items GitHub accepted whose number crit did not keep
  drift,   \* items whose recorded text is not what GitHub got
  wanted,  \* numbers of pushed items the reviewer deleted
  slipped, \* those deleted while a save was writing, deleted again, or the
           \* last of a review: see DeleteNotLost
  acts

vars == <<disk, mem, saving, remote, github, push, pull, lost, drift, wanted, slipped, acts>>
ghosts == <<lost, drift, wanted, slipped>>

Item == Root \cup Reply \cup Import
Comment == Root \cup Import
RemoteId == 1..MaxRemote
Body == 1..2
Absent == [body |-> 0, gh |-> 0, hash |-> 0, resolved |-> FALSE]
Written(b) == [Absent EXCEPT !.body = b]
Pushed(g) == [body |-> 1, gh |-> g, hash |-> 1, resolved |-> FALSE]
Parent(x) == IF x \in Reply THEN ParentOf[x] ELSE x
Here(items, x) == items[x].body # 0
NoItems(file) == \A x \in Item : ~Here(file.item, x)  \* there is no such file
Act == acts < MaxActs /\ acts' = acts + 1

NoRemote == [from |-> "none", body |-> 0, parent |-> 0, live |-> FALSE, resolved |-> FALSE]
Used == {g \in RemoteId : remote[g].body # 0}
Live(g) == remote[g].live
Items == [Item -> [body : 0..2, gh : 0..MaxRemote, hash : 0..2, resolved : BOOLEAN]]
File == [item : Items, pending : SUBSET RemoteId]
NoFile == [item |-> [x \in Item |-> Absent], pending |-> {}]
NoSave == [NoFile EXCEPT !.pending = {0}]
NoIds == [x \in Item |-> 0]
NoPush == [at |-> "off", ctx |-> NoFile, ids |-> NoIds, patched |-> {}, drained |-> {},
           auth |-> FALSE]
NoPull == [on |-> FALSE, seen |-> [g \in RemoteId |-> NoRemote]]

(* Some comments have been pushed before.                                  *)
Given(f) ==
  /\ disk = [item |-> [x \in Item |-> IF x \in DOMAIN f THEN Pushed(f[x])
                                     ELSE IF x \in Root THEN Written(1) ELSE Absent],
             pending |-> {}]
  /\ remote = [g \in RemoteId |-> IF \E x \in DOMAIN f : f[x] = g
       THEN [from |-> CHOOSE x \in DOMAIN f : f[x] = g, body |-> 1, parent |-> 0, live |-> TRUE,
             resolved |-> FALSE]
       ELSE NoRemote]
Init ==
  /\ \E known \in SUBSET Root : \E f \in Injection(known, 1..Cardinality(known)) : Given(f)
  /\ mem = [item |-> disk.item, pending |-> {}, loaded |-> {}, tomb |-> {}, dirty |-> FALSE]
  /\ saving = NoSave
  /\ github = "ok"
  /\ push = NoPush /\ pull = NoPull
  /\ lost = {} /\ drift = {} /\ wanted = {} /\ slipped = {} /\ acts = 0
-----------------------------------------------------------------------------
(* The daemon: the reviewer's changes are in memory until a save.          *)

Edit(x) ==
  /\ Act /\ Here(mem.item, x)
  /\ mem' = [mem EXCEPT !.item[x].body = 3 - @, !.dirty = TRUE]
  /\ UNCHANGED <<disk, saving, remote, github, push, pull, ghosts>>

Resolve(x) ==
  /\ Act /\ Here(mem.item, x) /\ x \in Comment
  /\ mem' = [mem EXCEPT !.item[x].resolved = ~@, !.dirty = TRUE]
  /\ UNCHANGED <<disk, saving, remote, github, push, pull, ghosts>>

(* DeleteComment, DeleteReply: replies go with their comment; a pushed     *)
(* item is queued for deletion on GitHub.                                  *)
QueueDelete(g) == mem.pending \cup ({g} \ {0})
Delete(x) ==
  LET gone == {y \in Item : y = x \/ Parent(y) = x}
      g == mem.item[x].gh
  IN
  /\ Act /\ Here(mem.item, x)
  /\ mem' = [mem EXCEPT !.item = [y \in Item |-> IF y \in gone THEN Absent ELSE @[y]],
                        !.pending = QueueDelete(g), !.tomb = @ \cup gone, !.dirty = TRUE]
  /\ wanted' = wanted \cup ({g} \ {0})
  /\ slipped' = slipped \cup IF saving = NoSave /\ g \notin mem.loaded THEN {} ELSE {g} \ {0}
  /\ UNCHANGED <<disk, saving, remote, github, push, pull, lost, drift>>

(* An item that is new has a name not in use.                              *)
Fresh(x) ==
  /\ ~Here(disk.item, x) /\ ~Here(mem.item, x) /\ x \notin mem.tomb
  /\ \A g \in RemoteId : remote[g].from # x

(* An agent replies through review.json.                                   *)
AgentReply(r) ==
  /\ Act /\ saving = NoSave /\ Here(disk.item, ParentOf[r]) /\ Fresh(r)
  /\ disk' = [disk EXCEPT !.item[r] = Written(1)]
  /\ UNCHANGED <<mem, saving, remote, github, push, pull, ghosts>>

(* The copy that a save or a reload makes of an item: memory wins, and     *)
(* what only the file has is kept unless it was deleted here.              *)
NewReply(x) == x \in Reply /\ Here(mem.item, ParentOf[x]) /\ ~Here(mem.item, x)
               /\ x \notin mem.tomb
NewComment(x) == ~Here(mem.item, Parent(x)) /\ {x, Parent(x)} \cap mem.tomb = {}
Merged(x) == IF NewReply(x) \/ NewComment(x) THEN disk.item[x] ELSE mem.item[x]
(* reconcilePendingGHDeletes: a number loaded before and gone from the     *)
(* file has been drained by a push.  The mutant trusts memory.             *)
KeepPending == mem.pending
ReconcilePending == {g \in mem.pending : g \in disk.pending \/ g \notin mem.loaded}

SaveStarts ==
  /\ mem.dirty /\ saving = NoSave
  /\ saving' = [item |-> [x \in Item |-> Merged(x)], pending |-> ReconcilePending]
  /\ mem' = [mem EXCEPT !.dirty = FALSE, !.tomb = {},
               !.item = [x \in Item |-> IF NewReply(x) THEN disk.item[x] ELSE @[x]]]
  /\ lost' = lost \cup {x \in Item : Here(mem.item, x) /\ mem.item[x].gh = 0
                                       /\ disk.item[x].gh # 0}
  /\ drift' = drift \cup {x \in Item : Here(mem.item, x) /\ mem.item[x].hash # disk.item[x].hash}
  /\ UNCHANGED <<disk, remote, github, push, pull, wanted, slipped, acts>>

(* After the write memory takes the pending deletes that were written.  A  *)
(* review without a comment has no file, whatever is queued: the save      *)
(* removes it, and the queue goes from both (markEmptyWritten).            *)
SaveEnds ==
  LET queue == IF NoItems(saving) THEN {} ELSE saving.pending IN
  /\ saving # NoSave
  /\ disk' = [saving EXCEPT !.pending = queue] /\ saving' = NoSave
  /\ mem' = [mem EXCEPT !.pending = queue, !.loaded = queue]
  /\ slipped' = slipped \cup (saving.pending \ queue)
  /\ UNCHANGED <<remote, github, push, pull, lost, drift, wanted, acts>>

(* The watcher takes in another writer's comments, replies and resolutions *)
(* and drops what the file no longer has; a comment both have keeps its    *)
(* text and number.                                                        *)
Reloaded(x) ==
  IF ~Here(disk.item, Parent(x)) THEN Absent
  ELSE IF ~Here(mem.item, x) THEN disk.item[x]
  ELSE [mem.item[x] EXCEPT !.resolved = disk.item[x].resolved]
Reload ==
  /\ ~mem.dirty /\ saving = NoSave /\ ~NoItems(disk)
  /\ mem' = [mem EXCEPT !.item = [x \in Item |-> Reloaded(x)], !.tomb = {}]
  /\ mem' # mem
  /\ UNCHANGED <<disk, saving, remote, github, push, pull, ghosts, acts>>

(* A daemon started anew reads everything.                                 *)
Restart ==
  /\ Act /\ ~mem.dirty /\ saving = NoSave
  /\ mem' = [item |-> disk.item, pending |-> disk.pending, loaded |-> disk.pending,
             tomb |-> {}, dirty |-> FALSE]
  /\ mem' # mem
  /\ UNCHANGED <<disk, saving, remote, github, push, pull, ghosts>>
-----------------------------------------------------------------------------
(* GitHub and the people on it.                                            *)

PeerComments ==
  /\ Act /\ Used # RemoteId
  /\ \E parent \in {0} \cup {g \in RemoteId : Live(g) /\ remote[g].parent = 0} :
       remote' = [remote EXCEPT ![CHOOSE g \in RemoteId \ Used : TRUE] =
         [from |-> "peer", body |-> 1, parent |-> parent, live |-> TRUE, resolved |-> FALSE]]
  /\ UNCHANGED <<disk, mem, saving, github, push, pull, ghosts>>
PeerResolves(g) ==
  /\ Act /\ Live(g) /\ remote[g].parent = 0 /\ ~remote[g].resolved
  /\ remote' = [remote EXCEPT ![g].resolved = TRUE]
  /\ UNCHANGED <<disk, mem, saving, github, push, pull, ghosts>>
Outage(status) ==
  /\ Act /\ github = "ok" /\ github' = status
  /\ UNCHANGED <<disk, mem, saving, remote, push, pull, ghosts>>
Recovers ==
  /\ github # "ok" /\ github' = "ok"
  /\ UNCHANGED <<disk, mem, saving, remote, push, pull, ghosts, acts>>

(* Calls made while the token expires: some succeed.                       *)
Answered(calls) ==
  CASE github = "ok" -> {calls}
    [] github = "down" -> {{}}
    [] github = "auth" -> SUBSET calls \ {calls}
Refused(calls) == github = "auth" /\ calls # {}
-----------------------------------------------------------------------------
(* A push.                                                                 *)

local == <<disk, mem, saving, github, pull>>

(* loadPushReview: the file is read once; without one there is no push.    *)
PushStarts ==
  /\ push.at = "off" /\ ~NoItems(disk)
  /\ push' = [NoPush EXCEPT !.at = "post", !.ctx = disk]
  /\ UNCHANGED <<local, remote, ghosts, acts>>

(* bucketCommentsForPush, outside a range review.                          *)
Postable == {x \in Comment : LET c == push.ctx.item[x] IN c.body # 0 /\ c.gh = 0 /\ ~c.resolved}
Numberings(xs) == Injection(xs, RemoteId \ Used)
Room(xs) == Numberings(xs) # {}
Numbers(xs) == CHOOSE f \in Numberings(xs) : TRUE
Add(f) == [g \in RemoteId |->
  IF \E x \in DOMAIN f : f[x] = g
  THEN LET x == CHOOSE x \in DOMAIN f : f[x] = g IN
       [from |-> x, body |-> push.ctx.item[x].body, live |-> TRUE, resolved |-> FALSE,
        parent |-> IF x \in Reply THEN push.ctx.item[ParentOf[x]].gh ELSE 0]
  ELSE remote[g]]
Ids(f) == [x \in Item |-> IF x \in DOMAIN f THEN f[x] ELSE push.ids[x]]

(* createGHReview: all comments in one call, which GitHub may refuse; a    *)
(* second call tells their numbers.                                        *)
(* Mutant: a push with no new comment ends at once.                        *)
PostNothingEnds ==
  /\ push.at = "post" /\ Postable = {} /\ push' = NoPush
  /\ UNCHANGED <<local, remote, ghosts, acts>>
PostNothing ==
  /\ push.at = "post" /\ Postable = {}
  /\ push' = [push EXCEPT !.at = "replies"]
  /\ UNCHANGED <<local, remote, ghosts, acts>>
PostReview ==
  /\ push.at = "post" /\ Postable # {} /\ github = "ok" /\ Room(Postable)
  /\ remote' = Add(Numbers(Postable))
  /\ push' = [push EXCEPT !.at = "replies", !.ids = Ids(Numbers(Postable))]
  /\ UNCHANGED <<local, ghosts, acts>>
NumbersUnknown ==
  /\ Act /\ push.at = "post" /\ Postable # {} /\ github = "ok" /\ Room(Postable)
  /\ remote' = Add(Numbers(Postable)) /\ lost' = lost \cup Postable
  /\ push' = [push EXCEPT !.at = "replies"]
  /\ UNCHANGED <<local, drift, wanted, slipped>>
(* The review was created and the answer was lost: the post has failed.    *)
AnswerLost ==
  /\ Act /\ push.at = "post" /\ Postable # {} /\ github = "ok" /\ Room(Postable)
  /\ remote' = Add(Numbers(Postable)) /\ lost' = lost \cup Postable
  /\ push' = [push EXCEPT !.at = "edits"]
  /\ UNCHANGED <<local, drift, wanted, slipped>>
PostFails ==
  /\ push.at = "post" /\ Postable # {} /\ (github # "ok" \/ ~Room(Postable))
  /\ push' = IF github = "auth" THEN NoPush ELSE [push EXCEPT !.at = "edits"]
  /\ UNCHANGED <<local, remote, ghosts, acts>>

(* collectNewRepliesForPush, postPushReplies.                              *)
NewReplies ==
  {r \in Reply : LET i == push.ctx.item IN
     i[r].body # 0 /\ i[r].gh = 0 /\ i[ParentOf[r]].gh # 0}
PostReplies ==
  /\ push.at = "replies"
  /\ \E xs \in IF Room(NewReplies) THEN Answered(NewReplies) ELSE {{}} :
       /\ remote' = Add(Numbers(xs))
       /\ push' = [push EXCEPT !.at = "ids", !.ids = Ids(Numbers(xs)),
                               !.auth = Refused(NewReplies)]
  /\ UNCHANGED <<local, ghosts, acts>>

(* updateCritJSONWithGitHubIDs: what has no number is looked up among the  *)
(* posted, a comment by its place, a reply by the number it answers and    *)
(* the start of its text, although what was sent is the text rewritten.    *)
(* What shares its key with another shares the number of one of them.      *)
AfterIds == IF push.auth THEN NoPush ELSE [push EXCEPT !.at = "edits"]
SamePlace(x, y) == {x, y} \subseteq Root /\ PlaceOf[x] = PlaceOf[y]
SameAnswer(x, y) ==
  /\ {x, y} \subseteq Reply
  /\ disk.item[ParentOf[x]].gh = push.ctx.item[ParentOf[y]].gh
  /\ <<disk.item[x].body, push.ctx.item[y].body>> \in Alike
Matches(x) == {y \in Item : push.ids[y] # 0 /\ (SamePlace(x, y) \/ SameAnswer(x, y))}
Found(x) == Here(disk.item, x) /\ disk.item[x].gh = 0 /\ Matches(x) # {}
FoundId(x) == push.ids[CHOOSE y \in Matches(x) : TRUE]
Unkept(found) == {x \in Item : push.ids[x] # 0} \ found
RecordIds ==
  LET found == {x \in Item : Found(x)} IN
  /\ push.at = "ids" /\ saving = NoSave
  /\ disk' = [disk EXCEPT !.item = [x \in Item |->
       IF x \in found THEN [@[x] EXCEPT !.gh = FoundId(x), !.hash = disk.item[x].body] ELSE @[x]]]
  /\ lost' = lost \cup Unkept(found)
  /\ drift' = drift \cup {x \in found : disk.item[x].body # push.ctx.item[x].body}
  /\ push' = AfterIds
  /\ UNCHANGED <<mem, saving, remote, github, pull, wanted, slipped, acts>>

(* collectEditedForPush, pushEditedBodies.                                 *)
Edited ==
  {x \in Item : LET i == push.ctx.item IN
     i[x].gh # 0 /\ i[x].body # 0 /\ ~i[Parent(x)].resolved /\ i[x].hash # i[x].body}
Patching(items, sent, g) == {y \in sent : items[y].gh = g}
Text(items, sent, g) == items[CHOOSE y \in Patching(items, sent, g) : TRUE].body
PatchEdits ==
  /\ push.at = "edits"
  /\ \E xs \in Answered(Edited) :
       LET items == push.ctx.item
           sent == {x \in xs : Live(items[x].gh)}
       IN
       /\ remote' = [g \in RemoteId |-> IF Patching(items, sent, g) = {} THEN remote[g]
                                       ELSE [remote[g] EXCEPT !.body = Text(items, sent, g)]]
       /\ push' = [push EXCEPT !.at = "hashes", !.patched = sent, !.auth = Refused(Edited)]
  /\ UNCHANGED <<local, ghosts, acts>>

(* updateCritJSONWithEditedBodies stamps the text that was sent.           *)
Sent(x) == Patching(push.ctx.item, push.patched, disk.item[x].gh)
AfterHashes == IF push.auth THEN NoPush ELSE [push EXCEPT !.at = "deletes"]
RecordHashes ==
  /\ push.at = "hashes" /\ saving = NoSave
  /\ disk' = [disk EXCEPT !.item = [x \in Item |->
       IF Sent(x) = {} THEN @[x]
       ELSE [@[x] EXCEPT !.hash = Text(push.ctx.item, push.patched, disk.item[x].gh)]]]
  /\ push' = AfterHashes
  /\ UNCHANGED <<mem, saving, remote, github, pull, ghosts, acts>>

(* pushDeletedComments: what is gone, was gone, or is another's and cannot *)
(* be deleted is drained; the rest is tried again.                         *)
DeleteRemote ==
  /\ push.at = "deletes"
  /\ \E gs \in Answered(push.ctx.pending) :
       \E others \in SUBSET {g \in gs : remote[g].from = "peer"} :
         /\ remote' = [g \in RemoteId |->
              IF g \in gs \ others THEN [remote[g] EXCEPT !.live = FALSE] ELSE remote[g]]
         /\ wanted' = wanted \ others
         /\ push' = [push EXCEPT !.at = "drain", !.drained = gs]
  /\ UNCHANGED <<local, lost, drift, slipped, acts>>
(* Mutant: whatever was asked for is taken for done.                       *)
DrainAsked ==
  /\ push.at = "drain" /\ saving = NoSave
  /\ disk' = [disk EXCEPT !.pending = @ \ push.ctx.pending] /\ push' = NoPush
  /\ UNCHANGED <<mem, saving, remote, github, pull, ghosts, acts>>
RecordDeletes ==
  /\ push.at = "drain" /\ saving = NoSave
  /\ disk' = [disk EXCEPT !.pending = @ \ push.drained] /\ push' = NoPush
  /\ UNCHANGED <<mem, saving, remote, github, pull, ghosts, acts>>

(* An update of the file fails: a warning, and the push goes on.           *)
UpdateFails ==
  /\ Act /\ saving = NoSave
  /\ \/ /\ push.at = "ids" /\ push' = AfterIds
        /\ lost' = lost \cup Unkept({}) /\ drift' = drift
     \/ /\ push.at = "hashes" /\ push' = AfterHashes
        /\ drift' = drift \cup {x \in Item : Sent(x) # {}} /\ lost' = lost
     \/ /\ push.at = "drain" /\ push' = NoPush
        /\ UNCHANGED <<lost, drift>>
  /\ UNCHANGED <<local, remote, wanted, slipped>>

PushDies ==
  /\ Act /\ push.at # "off" /\ push' = NoPush
  /\ lost' = IF push.at \in {"replies", "ids"} THEN lost \cup Unkept({}) ELSE lost
  /\ drift' = IF push.at = "hashes" THEN drift \cup {x \in Item : Sent(x) # {}} ELSE drift
  /\ UNCHANGED <<local, remote, wanted, slipped>>
-----------------------------------------------------------------------------
(* A pull: fetched without the lock, merged under it.                      *)

Fetch ==
  /\ Act /\ ~pull.on /\ github = "ok"
  /\ \E threads \in BOOLEAN :  \* without them no comment counts as resolved
       pull' = [on |-> TRUE, seen |-> [g \in RemoteId |->
         IF Live(g) THEN [remote[g] EXCEPT !.resolved = @ /\ threads] ELSE NoRemote]]
  /\ UNCHANGED <<disk, mem, saving, remote, github, push, ghosts>>

Seen(g) == pull.seen[g].body # 0 /\ g \notin disk.pending
SeenRoot(g) == Seen(g) /\ pull.seen[g].parent = 0
Known(g) == {x \in Comment : disk.item[x].gh = g}
FirstKnown(x, g) == Known(g) # {} /\ x = CHOOSE y \in Known(g) : TRUE
(* mergeRootComment: a comment known by its number may only become         *)
(* resolved; one whose deletion is pending stays out, with its replies; a  *)
(* new one is added as it is on GitHub, unless its author, place and text  *)
(* are those of one that is here (the names of authors may not agree).     *)
Resolves(x) ==
  LET g == disk.item[x].gh IN
  g \in RemoteId /\ SeenRoot(g) /\ pull.seen[g].resolved /\ FirstKnown(x, g)
NewRoot(x, g) == x \in Import /\ SeenRoot(g) /\ Known(g) = {}
LooksKnown(g) ==
  LET from == pull.seen[g].from IN
  \E x \in Comment :
    /\ disk.item[x].body = pull.seen[g].body
    /\ x \in Import \/ (from \in Root /\ PlaceOf[x] = PlaceOf[from])
(* appendNewGHReplies, mergeOrphanReplies: a reply joins the comment that  *)
(* has the number it answers, old or new, unless it is there.              *)
DeletePending(p) == pull.seen[p].body # 0 /\ pull.seen[p].parent = 0 /\ p \in disk.pending
AddedReply(f, x, g) ==
  LET p == pull.seen[g].parent
      c == ParentOf[x]
  IN
  /\ x \in Reply /\ Seen(g) /\ p # 0 /\ ~DeletePending(p)
  /\ (c \in DOMAIN f /\ f[c] = p) \/ FirstKnown(c, p)
  /\ \A y \in Reply : ParentOf[y] = c => disk.item[y].gh # g
Joins(f, x, g) == Fresh(x) /\ (NewRoot(x, g) \/ AddedReply(f, x, g))
(* The numbers of what a pull adds: all there is, while the names last.    *)
Additions ==
  {f \in UNION {Injection(xs, RemoteId) : xs \in SUBSET (Import \cup Reply)} :
     /\ \A x \in DOMAIN f : Joins(f, x, f[x])
     /\ \A x \in Item, g \in RemoteId :
          Joins(f, x, g) => x \in DOMAIN f \/ g \in Range(f) \/ (x \in Import /\ LooksKnown(g))}
MergedItem(f, x) ==
  IF x \in DOMAIN f
  THEN LET c == pull.seen[f[x]] IN
       [body |-> c.body, gh |-> f[x], hash |-> c.body, resolved |-> c.resolved]
  ELSE [disk.item[x] EXCEPT !.resolved = @ \/ Resolves(x)]
MergePull ==
  /\ pull.on /\ saving = NoSave /\ pull' = NoPull
  /\ \E f \in Additions : disk' = [disk EXCEPT !.item = [x \in Item |-> MergedItem(f, x)]]
  /\ UNCHANGED <<mem, saving, remote, github, push, ghosts, acts>>

PushStep ==
  \/ PostNothing \/ PostReview \/ PostFails \/ PostReplies \/ RecordIds
  \/ PatchEdits \/ RecordHashes \/ DeleteRemote \/ RecordDeletes
DaemonStep == SaveStarts \/ SaveEnds \/ Reload

Next ==
  \/ \E x \in Item : Edit(x) \/ Resolve(x) \/ Delete(x)
  \/ \E r \in Reply : AgentReply(r)
  \/ DaemonStep \/ Restart
  \/ PeerComments \/ (\E g \in RemoteId : PeerResolves(g))
  \/ (\E status \in {"down", "auth"} : Outage(status)) \/ Recovers
  \/ PushStarts \/ PushStep \/ NumbersUnknown \/ AnswerLost
  \/ UpdateFails \/ PushDies
  \/ Fetch \/ MergePull

(* The daemon saves, GitHub recovers and the reviewer pushes again.        *)
Spec == Init /\ [][Next]_vars
FairSpec ==
  /\ Spec
  /\ WF_vars(DaemonStep) /\ WF_vars(Recovers)
  /\ WF_vars(PushStarts) /\ WF_vars(PushStep)
-----------------------------------------------------------------------------
TypeOK ==
  /\ disk \in File
  /\ mem.item \in Items /\ mem.pending \cup mem.loaded \subseteq RemoteId
  /\ mem.tomb \subseteq Item /\ mem.dirty \in BOOLEAN
  /\ saving = NoSave \/ saving \in File
  /\ github \in {"ok", "down", "auth"} /\ push.ctx \in File
  /\ push.at \in {"off", "post", "replies", "ids", "edits", "hashes", "deletes", "drain"}
  /\ lost \cup drift \subseteq Item /\ wanted \cup slipped \subseteq RemoteId

(* Pushing again posts nothing twice, unless crit did not keep the number  *)
(* GitHub gave: the answer was lost, the push died, its update of the file *)
(* failed, the text of a reply was edited meanwhile or rewritten for       *)
(* GitHub, or the daemon, which does not learn numbers from the file,      *)
(* saved its own copy over them.                                           *)
PushIsIdempotent ==
  \A g, h \in Used : g # h /\ remote[g].from = remote[h].from
                       => remote[g].from \in lost \cup {"peer"}

(* An item whose recorded text is the one it has needs no push: GitHub has *)
(* that text, where the number it has is its own (comments at one place    *)
(* get the number of one of them).  Not so for what was edited while it    *)
(* was first posted, after a push that sent an edit and did not record it, *)
(* and when the daemon, which does not learn what a push recorded, saved   *)
(* its own copy.                                                           *)
InSync ==
  \A x \in Item \ drift : LET c == disk.item[x] IN
    /\ c.gh # 0 /\ c.body # 0 /\ c.hash = c.body /\ push.at # "hashes"
    /\ Live(c.gh) /\ remote[c.gh].from = x
    => remote[c.gh].body = c.body

(* A pushed comment that the reviewer deletes is deleted on GitHub, or is  *)
(* still queued where the next save and the next push find it.  Not so for *)
(* one deleted while a save was writing, nor for one deleted again after a *)
(* push drained its first deletion (it was another's and could not be      *)
(* deleted) and a pull brought it back: until its next save the daemon     *)
(* takes the number for the one it has loaded, and the save drops it.  Nor *)
(* is there a queue once the review's last comment is gone: the save that  *)
(* finds no comment removes review.json and forgets what was queued,       *)
(* although DeleteComment queues it for the next push (session.go:1690).   *)
DeleteNotLost ==
  \A g \in wanted \ slipped :
    ~Live(g) \/ g \in disk.pending \/ g \in mem.pending \ mem.loaded
             \/ (saving # NoSave /\ g \in saving.pending)

(* A save brings back to the queue no number that the daemon had loaded    *)
(* from it before: a push has drained it.                                  *)
DrainedStaysDrained ==
  [][\A g \in disk'.pending \ disk.pending : g \notin mem.loaded]_vars

(* After GitHub has refused the token a push sends nothing more.           *)
RefusedPushStops == [][push.auth /\ remote' # remote => push' = push]_vars

(* What was resolved here a pull does not reopen, and it changes no text.  *)
PullKeepsOurs ==
  [][pull.on /\ ~pull'.on => \A x \in Item : Here(disk.item, x) =>
       /\ disk'.item[x].body = disk.item[x].body
       /\ disk.item[x].resolved => disk'.item[x].resolved]_vars

(* Deletions reach GitHub, whatever else a push has to send, until none is *)
(* left, but for those that DeleteNotLost names.                           *)
DeletesDrain == []<>(\A g \in wanted \ slipped : ~Live(g))

(* The file and the pull request agree in every state, up to the named     *)
(* exceptions: nothing is there twice, what counts as pushed was pushed,   *)
(* and no delete is forgotten.                                             *)
RemoteInStep == TypeOK /\ PushIsIdempotent /\ InSync /\ DeleteNotLost

(* What no step does: bring a drained delete back, go on with a refused    *)
(* token, or undo by a pull what was done here.                            *)
StepsAreSound == DrainedStaysDrained /\ RefusedPushStops /\ PullKeepsOurs
=============================================================================
