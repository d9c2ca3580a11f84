--------------------------- MODULE PushSyncProofs ---------------------------
(***************************************************************************)
(* That review.json and the pull request keep in step, for any comments,   *)
(* replies, numbers and steps: PushSync's RemoteInStep and StepsAreSound.  *)
(*                                                                         *)
(* The properties speak of the file and of GitHub.  What keeps them is     *)
(* what the daemon's copy and the push have of both: memory has no other   *)
(* number than the file, so a save takes a number away only where that is  *)
(* counted; what a push has posted or sent is noted in the push until it   *)
(* is noted in the file; what it is about to post is not on GitHub; and    *)
(* the file's queue of deletes is contained in what memory loaded and has  *)
(* queued, so a save brings back nothing and drops nothing.                *)
(***************************************************************************)
EXTENDS PushSync, FiniteSetTheorems, TLAPS

From == Root \cup Reply \cup {"peer", "none"}
RemoteComment ==
  [from : From, body : 0..2, parent : 0..MaxRemote, live : BOOLEAN, resolved : BOOLEAN]
Phase == {"off", "post", "replies", "ids", "edits", "hashes", "deletes", "drain"}

DiskType == disk \in File
MemType ==
  mem \in [item : Items, pending : SUBSET RemoteId, loaded : SUBSET RemoteId,
           tomb : SUBSET Item, dirty : BOOLEAN]
SavingType == saving \in File \cup {NoSave}
RemoteType ==
  /\ remote \in [RemoteId -> RemoteComment]
  /\ \A g \in RemoteId : /\ remote[g].body = 0 <=> remote[g].from = "none"
                         /\ remote[g].live => remote[g].body # 0
PushType ==
  push \in [at : Phase, ctx : File, ids : [Item -> 0..MaxRemote], patched : SUBSET Item,
            drained : SUBSET RemoteId, auth : BOOLEAN]
PullType ==
  /\ pull \in [on : BOOLEAN, seen : [RemoteId -> RemoteComment]]
  /\ \A g \in RemoteId : pull.seen[g].body # 0 => g \in Used
GhostType ==
  /\ github \in {"ok", "down", "auth"}
  /\ lost \in SUBSET Item /\ drift \in SUBSET Item
  /\ wanted \in SUBSET Used /\ slipped \in SUBSET RemoteId
Type == DiskType /\ MemType /\ SavingType /\ RemoteType /\ PushType /\ PullType /\ GhostType

(* An item without a text is not there; one with a number has a recorded   *)
(* text, and its number is that of a comment on GitHub; what a pull        *)
(* brought in has a number.                                                *)
Plain(c, imported, used) ==
  /\ c.body = 0 => c = Absent
  /\ c.gh = 0 <=> c.hash = 0
  /\ c.gh # 0 => c.gh \in used
  /\ imported /\ c.body # 0 => c.gh # 0
AllPlain(items) == \A x \in Item : Plain(items[x], x \in Import, Used)
PlainItems ==
  AllPlain(disk.item) /\ AllPlain(mem.item) /\ AllPlain(saving.item) /\ AllPlain(push.ctx.item)

(* The queue of deletes.                                                   *)
Queue ==
  /\ disk.pending \subseteq mem.loaded
  /\ disk.pending \subseteq mem.pending
  /\ ~mem.dirty /\ saving = NoSave => mem.pending \subseteq mem.loaded
  /\ saving # NoSave =>
       /\ disk.pending \subseteq saving.pending
       /\ saving.pending \subseteq disk.pending \cup (mem.pending \ mem.loaded)
       /\ mem.pending \ mem.loaded \subseteq saving.pending \cup slipped
  /\ push.at # "off" => push.ctx.pending \subseteq disk.pending \cup slipped
  /\ push.at = "drain" =>
       /\ push.drained \subseteq push.ctx.pending
       /\ \A g \in push.drained : g \in wanted => ~Live(g) \/ g \in slipped

(* Memory has no other number than the file.                               *)
SameNumber ==
  \A x \in Item :
    /\ mem.item[x].gh # 0 => disk.item[x].gh = mem.item[x].gh
    /\ saving # NoSave =>
         /\ mem.item[x].gh # 0 => saving.item[x].gh = mem.item[x].gh
         /\ saving.item[x].gh # 0 => /\ saving.item[x].gh = disk.item[x].gh
                                     /\ x \in drift \/ saving.item[x].hash = disk.item[x].hash

Noting == push.at \in {"replies", "ids"}
Turns ==
  /\ push.auth => push.at \in {"ids", "hashes"}
  /\ push.at = "post" => push.ids = NoIds
  /\ push.at = "hashes" => \A y \in push.patched : push.ctx.item[y].gh # 0

(* GitHub has the text that the file records.                              *)
TextKnown ==
  \A x \in Item \ drift :
    /\ disk.item[x].gh # 0 /\ remote[disk.item[x].gh].from = x
    /\ push.at = "hashes" => Sent(x) = {}
    => remote[disk.item[x].gh].body = disk.item[x].hash
TextSent ==
  push.at = "hashes" =>
    \A g \in RemoteId : Patching(push.ctx.item, push.patched, g) # {}
      => remote[g].body = Text(push.ctx.item, push.patched, g)
TextPosted ==
  Noting => \A x \in Item : push.ids[x] # 0 =>
    /\ remote[push.ids[x]].from = x
    /\ remote[push.ids[x]].body = push.ctx.item[x].body

(* What is on GitHub is noted: by the push under way, or in the file.      *)
NotedIn(c, x) == c.gh # 0 \/ (c.body = 0 /\ ~Here(mem.item, x))
Noted(x) ==
  \/ Noting /\ push.ids[x] # 0
  \/ NotedIn(disk.item[x], x) /\ (saving # NoSave => NotedIn(saving.item[x], x))
PostedIsNoted == \A g \in RemoteId : remote[g].from \in Item \ lost => Noted(remote[g].from)
PostedOnce ==
  \A g, h \in RemoteId : remote[g].from \in Item \ lost /\ remote[g].from = remote[h].from => g = h
NotPosted(x) == \A g \in RemoteId : remote[g].from # x
ToPost ==
  \A x \in Item \ lost :
    /\ push.ctx.item[x].body # 0 /\ push.ctx.item[x].gh = 0
    /\ push.at = "post" \/ (push.at = "replies" /\ x \in Reply)
    => NotPosted(x)

Inv == /\ Type /\ PlainItems /\ Queue /\ DeleteNotLost /\ SameNumber /\ Turns
       /\ TextKnown /\ TextSent /\ TextPosted /\ PostedIsNoted /\ PostedOnce /\ ToPost

Copy == [body : 0..2, gh : 0..MaxRemote, hash : 0..2, resolved : BOOLEAN]

(* Facts about single items and about the values that stand for nothing    *)
(* being under way.                                                        *)
LEMMA Blank ==
  ASSUME PushAssumption
  PROVE  /\ Items = [Item -> Copy] /\ Absent \in Copy /\ Written(1) \in Copy
         /\ NoSave.item = [x \in Item |-> Absent] /\ NoSave \notin File
         /\ NoFile \in File /\ NoIds \in [Item -> 0..MaxRemote]
         /\ \A x \in Item : Parent(x) \in Item
<1>0. 0 \in 0..MaxRemote
  BY DEF PushAssumption
<1>a. FALSE \in BOOLEAN
  OBVIOUS
<1>b. Absent \in Copy
  BY <1>0, <1>a DEF Copy, Absent
<1>1. Absent \in Copy /\ Written(1) \in Copy
  BY <1>b DEF Copy, Written
<1>2. Items = [Item -> Copy]
  BY DEF Items, Copy
<1>3. NoSave.item = [x \in Item |-> Absent] /\ NoSave.pending = {0}
  BY DEF NoSave, NoFile
<1>4. NoFile \in File
  BY <1>1, <1>2 DEF NoFile, File
<1>5. NoIds \in [Item -> 0..MaxRemote]
  BY DEF NoIds, PushAssumption
<1>6. NoSave \notin File
  BY <1>3 DEF File, RemoteId
<1>7. \A x \in Item : Parent(x) \in Item
  BY DEF PushAssumption, Parent, Item
<1> QED
  BY <1>1, <1>2, <1>3, <1>4, <1>5, <1>6, <1>7

(* The text sent to a number is that of one of the items that have the     *)
(* number.                                                                 *)
LEMMA TextIsOneOfThem ==
  ASSUME NEW items, NEW sent, NEW g, Patching(items, sent, g) # {}
  PROVE  \E y \in Patching(items, sent, g) : Text(items, sent, g) = items[y].body
  BY DEF Text

(* The number that is looked up for an item is one that this push was      *)
(* given, for the item or for one that looks the same.                     *)
LEMMA FoundIsPosted ==
  ASSUME PushAssumption, PushType, NEW x \in Item, Found(x)
  PROVE  \E y \in Item : /\ push.ids[y] # 0 /\ push.ids[y] \in RemoteId
                         /\ FoundId(x) = push.ids[y]
<1> PICK y \in Matches(x) : FoundId(x) = push.ids[y]
  BY DEF Found, FoundId
<1>1. y \in Item /\ push.ids[y] # 0 /\ push.ids[y] \in 0..MaxRemote
  BY DEF Matches, PushType
<1> QED
  BY <1>1 DEF RemoteId, PushAssumption

(* What a pull adds is in no copy and not on GitHub under its own name, and *)
(* its number is that of a comment the pull has seen.                      *)
LEMMA AddedWasSeen ==
  ASSUME NEW f \in Additions, NEW x \in DOMAIN f
  PROVE  /\ x \in Item /\ f[x] \in RemoteId /\ pull.seen[f[x]].body # 0 /\ Fresh(x)
<1>1. Joins(f, x, f[x]) /\ x \in Import \cup Reply /\ f[x] \in RemoteId
  BY DEF Additions, Injection
<1> QED
  BY <1>1 DEF Joins, NewRoot, SeenRoot, AddedReply, Seen, Item

(* A merge: what is added is a copy of what the pull has seen, the rest    *)
(* keeps its text, number and recorded text, and stays resolved.           *)
LEMMA MergeShape ==
  ASSUME PushAssumption, DiskType, PullType, MergePull
  PROVE  \E f \in Additions :
           /\ disk' = [disk EXCEPT !.item = [x \in Item |-> MergedItem(f, x)]]
           /\ disk'.item = [x \in Item |-> MergedItem(f, x)]
           /\ \A x \in Item : MergedItem(f, x) \in Copy
           /\ \A x \in DOMAIN f :
                 /\ x \in Item /\ MergedItem(f, x).gh = f[x]
                 /\ MergedItem(f, x).body = pull.seen[f[x]].body
                 /\ MergedItem(f, x).hash = pull.seen[f[x]].body
           /\ \A x \in Item \ DOMAIN f :
                 /\ MergedItem(f, x).gh = disk.item[x].gh
                 /\ MergedItem(f, x).body = disk.item[x].body
                 /\ MergedItem(f, x).hash = disk.item[x].hash
                 /\ disk.item[x].resolved => MergedItem(f, x).resolved
<1> PICK f \in Additions : disk' = [disk EXCEPT !.item = [x \in Item |-> MergedItem(f, x)]]
  BY DEF MergePull
<1>1. disk.item \in [Item -> Copy] /\ disk \in File
  BY Blank DEF DiskType, File
<1>2. disk'.item = [x \in Item |-> MergedItem(f, x)]
  BY <1>1 DEF File
<1>3. ASSUME NEW x \in DOMAIN f
      PROVE  /\ x \in Item /\ MergedItem(f, x) \in Copy /\ MergedItem(f, x).gh = f[x]
             /\ MergedItem(f, x).body = pull.seen[f[x]].body
             /\ MergedItem(f, x).hash = pull.seen[f[x]].body
  <2>1. x \in Item /\ f[x] \in RemoteId
    BY AddedWasSeen
  <2>2. pull.seen[f[x]].body \in 0..2 /\ pull.seen[f[x]].resolved \in BOOLEAN
    BY <2>1 DEF PullType, RemoteComment
  <2>3. f[x] \in 0..MaxRemote
    BY <2>1 DEF RemoteId, PushAssumption
  <2> QED
    BY <2>1, <2>2, <2>3 DEF MergedItem, Copy
<1>4. ASSUME NEW x \in Item \ DOMAIN f
      PROVE  /\ MergedItem(f, x) \in Copy /\ MergedItem(f, x).gh = disk.item[x].gh
             /\ MergedItem(f, x).body = disk.item[x].body
             /\ MergedItem(f, x).hash = disk.item[x].hash
             /\ disk.item[x].resolved => MergedItem(f, x).resolved
  <2>1. disk.item[x] \in Copy
    BY <1>1
  <2>2. (disk.item[x].resolved \/ Resolves(x)) \in BOOLEAN
    BY DEF Resolves
  <2>3. MergedItem(f, x) = [disk.item[x] EXCEPT !.resolved = disk.item[x].resolved \/ Resolves(x)]
    BY <1>4 DEF MergedItem
  <2> QED
    BY <2>1, <2>2, <2>3 DEF Copy
<1> QED
  BY <1>2, <1>3, <1>4

(* What is here, or on GitHub under its own name, a merge leaves as it is; *)
(* it may become resolved.                                                 *)
LEMMA MergeKeeps ==
  ASSUME PushAssumption, DiskType, PullType, MergePull, NEW x \in Item,
         Here(disk.item, x) \/ \E g \in RemoteId : remote[g].from = x
  PROVE  /\ disk'.item[x].gh = disk.item[x].gh
         /\ disk'.item[x].body = disk.item[x].body
         /\ disk'.item[x].hash = disk.item[x].hash
         /\ disk.item[x].resolved => disk'.item[x].resolved
<1> PICK f \in Additions :
       /\ disk'.item = [y \in Item |-> MergedItem(f, y)]
       /\ \A y \in Item \ DOMAIN f :
             /\ MergedItem(f, y).gh = disk.item[y].gh
             /\ MergedItem(f, y).body = disk.item[y].body
             /\ MergedItem(f, y).hash = disk.item[y].hash
             /\ disk.item[y].resolved => MergedItem(f, y).resolved
  BY MergeShape
<1>1. x \notin DOMAIN f
  BY AddedWasSeen DEF Fresh
<1> QED
  BY <1>1

(* An update of the file that fails changes only what the push goes on     *)
(* with and what is counted as lost or in drift.                           *)
LEMMA FailShape ==
  ASSUME UpdateFails
  PROVE  /\ UNCHANGED <<disk, mem, saving, remote, github, pull, wanted, slipped>>
         /\ saving = NoSave /\ lost \subseteq lost' /\ drift \subseteq drift'
         /\ \/ /\ push.at \in {"ids", "hashes", "drain"} /\ push' = NoPush
            \/ /\ push.at = "ids" /\ ~push.auth /\ push' = [push EXCEPT !.at = "edits"]
            \/ /\ push.at = "hashes" /\ ~push.auth /\ push' = [push EXCEPT !.at = "deletes"]
         /\ push.at = "ids" => Unkept({}) \subseteq lost'
         /\ push.at = "hashes" => \A x \in Item \ drift' : Sent(x) = {}
  BY DEF UpdateFails, AfterIds, AfterHashes, local

(* review.json stays well-formed, whoever writes it.                       *)
LEMMA DiskTypeStep ==
  ASSUME PushAssumption, Type, Next
  PROVE  DiskType'
<1> USE DEF DiskType
<1>a. disk \in File
  BY DEF Type, DiskType
<1>b. disk.item \in [Item -> Copy]
  BY <1>a, Blank DEF File
<1>c. ASSUME NEW g, Patching(push.ctx.item, push.patched, g) # {}
      PROVE  Text(push.ctx.item, push.patched, g) \in 0..2
  <2>1. push.patched \in SUBSET Item /\ push.ctx.item \in [Item -> Copy]
    BY Blank DEF Type, PushType, File
  <2>2. PICK y \in Patching(push.ctx.item, push.patched, g) :
          Text(push.ctx.item, push.patched, g) = push.ctx.item[y].body
    BY <1>c, TextIsOneOfThem
  <2>3. push.ctx.item[y] \in Copy
    BY <2>1 DEF Patching
  <2> QED
    BY <2>2, <2>3 DEF Copy
<1>1. CASE UNCHANGED <<disk>>
  BY <1>1 DEF Type, DiskType
<1>2. CASE \E r \in Reply : AgentReply(r)
  <2>1. disk'.item \in [Item -> Copy] /\ disk' = [disk EXCEPT !.item = disk'.item]
    BY <1>2, <1>b, <1>a, Blank DEF AgentReply, File, Item
  <2> QED
    BY <2>1, <1>a, Blank DEF File
<1>3. CASE SaveEnds
  <2>1. saving \in File
    BY <1>3 DEF SaveEnds, Type, SavingType
  <2> QED
    BY <1>3, <2>1 DEF SaveEnds, File
<1>4. CASE RecordIds
  <2> DEFINE kept(x) == [disk.item[x] EXCEPT !.gh = FoundId(x), !.hash = disk.item[x].body]
  <2>0. \A x \in Item : Found(x) => FoundId(x) \in 0..MaxRemote
    BY FoundIsPosted DEF Type, RemoteId, PushAssumption
  <2>2. \A x \in Item : Found(x) => kept(x) \in Copy
    BY <2>0, <1>b DEF Copy
  <2>3. disk' = [disk EXCEPT !.item = [x \in Item |->
                  IF x \in {y \in Item : Found(y)} THEN kept(x) ELSE disk.item[x]]]
    BY <1>4, <1>a, <1>b DEF RecordIds
  <2> HIDE DEF kept
  <2>1. disk'.item \in [Item -> Copy] /\ disk' = [disk EXCEPT !.item = disk'.item]
    BY <2>2, <2>3, <1>a, <1>b DEF File
  <2> QED
    BY <2>1, <1>a, Blank DEF File
<1>5. CASE RecordHashes
  <2>1. disk'.item \in [Item -> Copy] /\ disk' = [disk EXCEPT !.item = disk'.item]
    BY <1>5, <1>b, <1>a, <1>c DEF RecordHashes, File, Copy, Sent
  <2> QED
    BY <2>1, <1>a, Blank DEF File
<1>6. CASE RecordDeletes
  BY <1>6, <1>a DEF RecordDeletes, File
<1>7. CASE MergePull
  <2> PICK f \in Additions :
         /\ disk' = [disk EXCEPT !.item = [x \in Item |-> MergedItem(f, x)]]
         /\ \A x \in Item : MergedItem(f, x) \in Copy
    BY <1>7, MergeShape DEF Type
  <2>1. [x \in Item |-> MergedItem(f, x)] \in Items
    BY Blank
  <2> QED
    BY <2>1, <1>a DEF File
<1> QED
   BY <1>1, <1>2, <1>3, <1>4, <1>5, <1>6, <1>7 DEF Next, DaemonStep,
     PushStep, local, ghosts, vars, Edit, Resolve, Delete, SaveStarts, Reload,
     Restart, PeerComments, PeerResolves, Outage, Recovers, PushStarts,
     PostNothing, PostReview, PostFails, PostReplies, PatchEdits,
     DeleteRemote, NumbersUnknown, AnswerLost, PushDies, Fetch,
     UpdateFails

(* The daemon's copy stays well-formed: its edits, its saves and what it   *)
(* reloads.                                                                *)
LEMMA MemTypeStep ==
  ASSUME PushAssumption, Type, Next
  PROVE  MemType'
<1> USE DEF MemType
<1>a. mem \in [item : Items, pending : SUBSET RemoteId, loaded : SUBSET RemoteId,
               tomb : SUBSET Item, dirty : BOOLEAN]
  BY DEF Type, MemType
<1>b. mem.item \in [Item -> Copy]
  BY <1>a, Blank
<1>c. disk.item \in [Item -> Copy]
  BY Blank DEF Type, DiskType, File
<1>1. CASE UNCHANGED <<mem>>
  BY <1>1 DEF Type, MemType
<1>2. CASE \E x \in Item : Edit(x)
  <2>1. mem'.item \in [Item -> Copy] /\ mem' = [mem EXCEPT !.item = mem'.item, !.dirty = TRUE]
    BY <1>2, <1>a, <1>b DEF Edit, Here, Copy
  <2> QED
    BY <2>1, <1>a, Blank
<1>3. CASE \E x \in Item : Resolve(x)
  <2> PICK x \in Item : Resolve(x)
    BY <1>3
  <2>1. mem.item[x] \in Copy /\ mem.item[x].resolved \in BOOLEAN
    BY <1>b DEF Copy
  <2>2. [mem.item[x] EXCEPT !.resolved = ~@] \in Copy
    BY <2>1 DEF Copy
  <2>3. mem'.item \in [Item -> Copy] /\ mem' = [mem EXCEPT !.item = mem'.item, !.dirty = TRUE]
    BY <2>2, <1>a, <1>b DEF Resolve
  <2> QED
    BY <2>3, <1>a, Blank
<1>4. CASE \E x \in Item : Delete(x)
  <2> PICK x \in Item : Delete(x)
    BY <1>4
  <2>1. mem.item[x].gh \in 0..MaxRemote
    BY <1>b DEF Copy
  <2>2. QueueDelete(mem.item[x].gh) \in SUBSET RemoteId
    BY <2>1, <1>a DEF QueueDelete, RemoteId, PushAssumption
  <2>3. \E items \in [Item -> Copy], gone \in SUBSET Item :
           mem' = [mem EXCEPT !.item = items, !.pending = QueueDelete(mem.item[x].gh),
                              !.tomb = @ \cup gone, !.dirty = TRUE]
    <3> DEFINE out == {y \in Item : y = x \/ Parent(y) = x}
               items == [y \in Item |-> IF y \in out THEN Absent ELSE mem.item[y]]
    <3>1. items \in [Item -> Copy] /\ out \in SUBSET Item
      BY <1>b, Blank
    <3>2. mem' = [mem EXCEPT !.item = items, !.pending = QueueDelete(mem.item[x].gh),
                             !.tomb = @ \cup out, !.dirty = TRUE]
      BY <1>a DEF Delete
    <3> QED
      BY <3>1, <3>2
  <2> PICK items \in [Item -> Copy], gone \in SUBSET Item :
         mem' = [mem EXCEPT !.item = items, !.pending = QueueDelete(mem.item[x].gh),
                            !.tomb = @ \cup gone, !.dirty = TRUE]
    BY <2>3
  <2>4. items \in Items /\ mem.tomb \cup gone \in SUBSET Item
    BY <1>a, Blank
  <2> QED
    BY <2>2, <2>4, <1>a
<1>5. CASE SaveStarts
  <2>1. mem'.item \in [Item -> Copy]
        /\ mem' = [mem EXCEPT !.item = mem'.item, !.dirty = FALSE, !.tomb = {}]
    BY <1>5, <1>a, <1>b, <1>c DEF SaveStarts
  <2> QED
    BY <2>1, <1>a, Blank
<1>6. CASE SaveEnds
  <2>1. saving.pending \in SUBSET RemoteId
    BY <1>6 DEF SaveEnds, Type, SavingType, File
  <2> QED
    BY <1>6, <2>1, <1>a, Blank DEF SaveEnds
<1>7. CASE Reload
  <2>1. mem'.item \in [Item -> Copy]
    BY <1>7, <1>a, <1>b, <1>c, Blank DEF Reload, Reloaded, Copy
  <2>2. mem' = [mem EXCEPT !.item = mem'.item, !.tomb = {}]
    BY <1>7, <1>a DEF Reload
  <2> QED
    BY <2>1, <2>2, <1>a, Blank
<1>8. CASE Restart
  BY <1>8, <1>c, Blank DEF Restart, Type, DiskType, File
<1> QED
   BY <1>1, <1>2, <1>3, <1>4, <1>5, <1>6, <1>7, <1>8 DEF Next, DaemonStep,
     PushStep, local, ghosts, vars, AgentReply, PeerComments, PeerResolves,
     Outage, Recovers, PushStarts, PostNothing, PostReview, PostFails,
     PostReplies, RecordIds, PatchEdits, RecordHashes, DeleteRemote,
     RecordDeletes, NumbersUnknown, AnswerLost, PushDies, Fetch, MergePull,
     UpdateFails

(* What a save writes is a well-formed file.                               *)
LEMMA SavingTypeStep ==
  ASSUME PushAssumption, Type, Next
  PROVE  SavingType'
<1> USE DEF SavingType
<1>1. CASE UNCHANGED <<saving>>
  BY <1>1 DEF Type, SavingType
<1>2. CASE SaveStarts
  <2>1. ReconcilePending \in SUBSET RemoteId
    BY DEF ReconcilePending, Type, MemType
  <2>2. [x \in Item |-> Merged(x)] \in Items
    BY Blank DEF Merged, Type, MemType, DiskType, File
  <2> QED
    BY <1>2, <2>1, <2>2 DEF SaveStarts, File
<1>3. CASE SaveEnds
  BY <1>3 DEF SaveEnds
<1> QED
   BY <1>1, <1>2, <1>3 DEF Next, DaemonStep, PushStep, local, ghosts, vars,
     Edit, Resolve, Delete, AgentReply, Reload, Restart, PeerComments,
     PeerResolves, Outage, Recovers, PushStarts, PostNothing, PostReview,
     PostFails, PostReplies, RecordIds, PatchEdits, RecordHashes,
     DeleteRemote, RecordDeletes, NumbersUnknown, AnswerLost, PushDies, Fetch,
     MergePull, UpdateFails

(* What a push that posts does to GitHub: comments xs get unused numbers f *)
(* and the texts the push has of them.                                     *)
Posting(xs, f) ==
  /\ xs \subseteq Root \cup Reply
  /\ f \in [xs -> RemoteId \ Used] /\ \A x, y \in xs : f[x] = f[y] => x = y
  /\ \A x \in xs : push.ctx.item[x].body # 0 /\ push.ctx.item[x].gh = 0
  /\ remote' \in [RemoteId -> RemoteComment]
  /\ \A x \in xs : /\ remote'[f[x]].from = x /\ remote'[f[x]].body = push.ctx.item[x].body
                   /\ remote'[f[x]].live
  /\ \A g \in RemoteId : remote'[g] = remote[g] \/ \E x \in xs : g = f[x]

(* Posting to the pull request gives each comment a number of its own that *)
(* was not in use, and changes no other comment there.                     *)
LEMMA AddPosts ==
  ASSUME PushAssumption, Type, NEW xs \in SUBSET (Root \cup Reply), Room(xs),
         \A x \in xs : push.ctx.item[x].body # 0 /\ push.ctx.item[x].gh = 0,
         remote' = Add(Numbers(xs))
  PROVE  Posting(xs, Numbers(xs))
<1> DEFINE f == Numbers(xs)
           n(x) == [from |-> x, body |-> push.ctx.item[x].body, live |-> TRUE, resolved |-> FALSE,
                    parent |-> IF x \in Reply THEN push.ctx.item[ParentOf[x]].gh ELSE 0]
<1>1. f \in Injection(xs, RemoteId \ Used)
  BY DEF Room, Numbers, Numberings
<1>2. f \in [xs -> RemoteId \ Used] /\ \A x, y \in xs : f[x] = f[y] => x = y
  BY <1>1 DEF Injection, IsInjective
<1> HIDE DEF f
<1>3. \A x \in xs : n(x) \in RemoteComment
  <2> TAKE x \in xs
  <2>1. \A y \in Item : push.ctx.item[y] \in Copy
    BY Blank DEF Type, PushType, File
  <2>2. push.ctx.item[x].body \in 0..2 /\ x \in From
    BY <2>1 DEF Copy, From, Item
  <2>3. n(x).parent \in 0..MaxRemote
    BY <2>1 DEF Copy, PushAssumption, Item
  <2>4. TRUE \in BOOLEAN /\ FALSE \in BOOLEAN
    OBVIOUS
  <2> QED
    BY <2>2, <2>3, <2>4 DEF RemoteComment
<1>4. \A x \in xs : f[x] \in RemoteId /\ Add(f)[f[x]] = n(x)
  <2> TAKE x \in xs
  <2>1. f[x] \in RemoteId /\ \E y \in DOMAIN f : f[y] = f[x]
    BY <1>2
  <2>2. (CHOOSE y \in DOMAIN f : f[y] = f[x]) = x
    BY <1>2
  <2> QED
    BY <2>1, <2>2 DEF Add
<1>5. \A g \in RemoteId : (\E x \in xs : g = f[x]) \/ Add(f)[g] = remote[g]
  BY <1>2 DEF Add
<1>6. remote \in [RemoteId -> RemoteComment]
  BY DEF Type, RemoteType
<1>7. Add(f) \in [RemoteId -> RemoteComment]
  <2>1. Add(f) = [g \in RemoteId |-> Add(f)[g]]
    BY DEF Add
  <2>2. ASSUME NEW g \in RemoteId PROVE Add(f)[g] \in RemoteComment
    <3>1. CASE Add(f)[g] = remote[g]
      BY <3>1, <1>6
    <3>2. ASSUME NEW x \in xs, g = f[x] PROVE Add(f)[g] \in RemoteComment
      <4>1. Add(f)[g] = n(x) /\ n(x) \in RemoteComment
        BY <3>2, <1>3, <1>4
      <4> HIDE DEF n
      <4> QED
        BY <4>1
    <3> QED
      BY <3>1, <3>2, <1>5
  <2> QED
    BY <2>1, <2>2
<1>8. remote' = Add(f)
  BY DEF f
<1>9. \A x \in xs : /\ remote'[f[x]].from = x /\ remote'[f[x]].body = push.ctx.item[x].body
                    /\ remote'[f[x]].live
  <2> TAKE x \in xs
  <2>1. n(x).from = x /\ n(x).body = push.ctx.item[x].body /\ n(x).live
    OBVIOUS
  <2>2. remote'[f[x]] = n(x)
    BY <1>4, <1>8
  <2> HIDE DEF n
  <2> QED
    BY <2>1, <2>2
<1> QED
  BY <1>2, <1>5, <1>7, <1>8, <1>9 DEF Posting, f

(* Where all of a batch fit, some of it fits: GitHub may take part of the  *)
(* replies when the token expires.                                         *)
LEMMA RoomForFewer ==
  ASSUME NEW ys, NEW xs \in SUBSET ys, Room(ys)
  PROVE  Room(xs)
<1> PICK f \in Injection(ys, RemoteId \ Used) : TRUE
  BY DEF Room, Numberings
<1>1. [x \in xs |-> f[x]] \in Injection(xs, RemoteId \ Used)
  BY DEF Injection, IsInjective
<1> QED
  BY <1>1 DEF Room, Numberings

(* A push with no reply to send can always go on.                          *)
LEMMA NothingNeedsNoRoom == Room({})
<1>1. [x \in {} |-> x] \in Injection({}, RemoteId \ Used)
  BY DEF Injection, IsInjective
<1> QED
  BY <1>1 DEF Room, Numberings

(* What creating a review does on GitHub, whether its answer arrives,      *)
(* arrives without the numbers, or is lost.                                *)
LEMMA ReviewShape ==
  ASSUME PushAssumption, Type, PlainItems, PostReview \/ NumbersUnknown \/ AnswerLost
  PROVE  Posting(Postable, Numbers(Postable))
<1>1. Postable \in SUBSET (Root \cup Reply)
  BY DEF Postable, Comment, PlainItems, AllPlain, Plain, Item
<1>2. \A x \in Postable : push.ctx.item[x].body # 0 /\ push.ctx.item[x].gh = 0
  BY DEF Postable
<1>3. Room(Postable) /\ remote' = Add(Numbers(Postable))
  BY DEF PostReview, NumbersUnknown, AnswerLost
<1> QED
  BY <1>1, <1>2, <1>3, AddPosts

(* What posting the replies does: some of the new replies get numbers, and *)
(* the push has them.                                                      *)
LEMMA RepliesShape ==
  ASSUME PushAssumption, Type, PlainItems, PostReplies
  PROVE  \E xs \in SUBSET NewReplies :
           /\ Posting(xs, Numbers(xs)) /\ DOMAIN Numbers(xs) = xs
           /\ push' = [push EXCEPT !.at = "ids", !.ids = Ids(Numbers(xs)),
                                   !.auth = Refused(NewReplies)]
<1> PICK xs \in IF Room(NewReplies) THEN Answered(NewReplies) ELSE {{}} :
       /\ remote' = Add(Numbers(xs))
       /\ push' = [push EXCEPT !.at = "ids", !.ids = Ids(Numbers(xs)),
                               !.auth = Refused(NewReplies)]
  BY DEF PostReplies
<1>1. xs \in SUBSET NewReplies
  BY DEF Answered, Type, GhostType
<1>2. Room(xs)
  BY <1>1, RoomForFewer, NothingNeedsNoRoom
<1>3. xs \in SUBSET (Root \cup Reply)
      /\ \A x \in xs : push.ctx.item[x].body # 0 /\ push.ctx.item[x].gh = 0
  BY <1>1 DEF NewReplies
<1>4. Posting(xs, Numbers(xs))
  BY <1>2, <1>3, AddPosts
<1>5. DOMAIN Numbers(xs) = xs
  BY <1>4 DEF Posting
<1> QED
  BY <1>1, <1>4, <1>5

Sends(sent) ==
  /\ push' = [push EXCEPT !.at = "hashes", !.patched = sent, !.auth = Refused(Edited)]
  /\ \A g \in RemoteId : Patching(push.ctx.item, sent, g) # {}
                           => Live(g) /\ Text(push.ctx.item, sent, g) \in 1..2
  /\ remote' = [g \in RemoteId |->
       IF Patching(push.ctx.item, sent, g) = {} THEN remote[g]
       ELSE [remote[g] EXCEPT !.body = Text(push.ctx.item, sent, g)]]
(* Sending edits changes texts only, of comments that are there, to texts  *)
(* the push has.                                                           *)
LEMMA PatchShape ==
  ASSUME PushAssumption, Type, PatchEdits
  PROVE  \E sent \in SUBSET Edited : Sends(sent)
<1> PICK xs \in Answered(Edited) :
       LET sent == {x \in xs : Live(push.ctx.item[x].gh)} IN
       /\ remote' = [g \in RemoteId |->
            IF Patching(push.ctx.item, sent, g) = {} THEN remote[g]
            ELSE [remote[g] EXCEPT !.body = Text(push.ctx.item, sent, g)]]
       /\ push' = [push EXCEPT !.at = "hashes", !.patched = sent, !.auth = Refused(Edited)]
  BY DEF PatchEdits
<1> DEFINE sent == {x \in xs : Live(push.ctx.item[x].gh)}
<1>1. sent \in SUBSET Edited
  BY DEF Answered, Type, GhostType
<1>2. ASSUME NEW g \in RemoteId, Patching(push.ctx.item, sent, g) # {}
      PROVE  Live(g) /\ Text(push.ctx.item, sent, g) \in 1..2
  <2> PICK y \in Patching(push.ctx.item, sent, g) :
         Text(push.ctx.item, sent, g) = push.ctx.item[y].body
    BY <1>2, TextIsOneOfThem
  <2>1. y \in Edited /\ Live(push.ctx.item[y].gh) /\ push.ctx.item[y].gh = g
    BY <1>1 DEF Patching
  <2>3. push.ctx.item \in [Item -> Copy]
    BY Blank DEF Type, PushType, File
  <2>2. push.ctx.item[y] \in Copy /\ push.ctx.item[y].body # 0
    BY <2>1, <2>3 DEF Edited
  <2> QED
    BY <2>1, <2>2 DEF Copy
<1>3. /\ push' = [push EXCEPT !.at = "hashes", !.patched = sent, !.auth = Refused(Edited)]
      /\ remote' = [g \in RemoteId |->
           IF Patching(push.ctx.item, sent, g) = {} THEN remote[g]
           ELSE [remote[g] EXCEPT !.body = Text(push.ctx.item, sent, g)]]
  OBVIOUS
<1> HIDE DEF sent
<1> QED
  BY <1>1, <1>2, <1>3 DEF Sends

(* Sending deletes takes comments away or, for another's, drops the wish;  *)
(* the push drains the numbers asked for and answered.                     *)
LEMMA DeleteShape ==
  ASSUME PushAssumption, Type, DeleteRemote
  PROVE  \E gs \in SUBSET push.ctx.pending : \E others \in SUBSET gs :
           /\ remote' = [g \in RemoteId |->
                IF g \in gs \ others THEN [remote[g] EXCEPT !.live = FALSE] ELSE remote[g]]
           /\ wanted' = wanted \ others
           /\ push' = [push EXCEPT !.at = "drain", !.drained = gs]
<1>1. \A gs \in Answered(push.ctx.pending) : gs \in SUBSET push.ctx.pending
  BY DEF Answered, Type, GhostType
<1> QED
  BY <1>1 DEF DeleteRemote

(* The pull request stays well-formed: a comment in use has a text and an  *)
(* author.                                                                 *)
LEMMA RemoteTypeStep ==
  ASSUME PushAssumption, Type, PlainItems, Next
  PROVE  RemoteType'
<1> USE DEF RemoteType
<1>a. /\ remote \in [RemoteId -> RemoteComment]
      /\ \A g \in RemoteId : /\ remote[g].body = 0 <=> remote[g].from = "none"
                             /\ remote[g].live => remote[g].body # 0
  BY DEF Type
<1>b. ASSUME NEW xs, NEW f, Posting(xs, f) PROVE RemoteType'
  <2>1. remote' \in [RemoteId -> RemoteComment]
    BY <1>b DEF Posting
  <2>2. \A x \in xs : x # "none"
    BY <1>b DEF Posting, PushAssumption
  <2>3. ASSUME NEW g \in RemoteId
        PROVE  /\ remote'[g].body = 0 <=> remote'[g].from = "none"
               /\ remote'[g].live => remote'[g].body # 0
    <3>1. CASE remote'[g] = remote[g]
      BY <3>1, <1>a
    <3>2. ASSUME NEW x \in xs, g = f[x] PROVE remote'[g].body # 0 /\ remote'[g].from # "none"
      BY <3>2, <1>b, <2>2 DEF Posting
    <3> QED
      BY <3>1, <3>2, <1>b DEF Posting
  <2> QED
    BY <2>1, <2>3
<1>1. CASE UNCHANGED <<remote>>
  BY <1>1 DEF Type, RemoteType
<1>2. CASE PeerComments
  <2>4. PICK p \in {0} \cup {g \in RemoteId : Live(g) /\ remote[g].parent = 0} :
         remote' = [remote EXCEPT ![CHOOSE g \in RemoteId \ Used : TRUE] =
           [from |-> "peer", body |-> 1, parent |-> p, live |-> TRUE, resolved |-> FALSE]]
    BY <1>2 DEF PeerComments
  <2> DEFINE peer == [from |-> "peer", body |-> 1, parent |-> p, live |-> TRUE, resolved |-> FALSE]
  <2>1. TRUE \in BOOLEAN /\ FALSE \in BOOLEAN /\ p \in 0..MaxRemote /\ "peer" \in From
    BY DEF PushAssumption, From, RemoteId
  <2>2. peer \in RemoteComment /\ peer.from # "none" /\ peer.body # 0
    BY <2>1 DEF RemoteComment
  <2>3. PICK g \in RemoteId : remote' = [remote EXCEPT ![g] = peer]
    BY <1>2, <2>4 DEF PeerComments, Used
  <2> HIDE DEF peer
  <2> QED
    BY <2>2, <2>3, <1>a
<1>3. CASE \E g \in RemoteId : PeerResolves(g)
  <2> PICK g \in RemoteId : PeerResolves(g)
    BY <1>3
  <2>1. [remote[g] EXCEPT !.resolved = TRUE] \in RemoteComment
    BY <1>a DEF RemoteComment
  <2> QED
    BY <2>1, <1>a DEF PeerResolves, RemoteComment
<1>4. CASE PostReview
  BY <1>4, <1>b, ReviewShape
<1>5. CASE NumbersUnknown
  BY <1>5, <1>b, ReviewShape
<1>6. CASE AnswerLost
  BY <1>6, <1>b, ReviewShape
<1>7. CASE PostReplies
  BY <1>7, <1>b, RepliesShape
<1>8. CASE PatchEdits
  <2> PICK sent \in SUBSET Edited : Sends(sent)
    BY <1>8, PatchShape
  <2> USE DEF Sends
  <2> QED
    BY <1>a DEF RemoteComment, Live
<1>9. CASE DeleteRemote
  <2> PICK gs \in SUBSET push.ctx.pending : \E others \in SUBSET gs :
         remote' = [g \in RemoteId |->
            IF g \in gs \ others THEN [remote[g] EXCEPT !.live = FALSE] ELSE remote[g]]
    BY <1>9, DeleteShape
  <2> PICK others \in SUBSET gs :
         remote' = [g \in RemoteId |->
            IF g \in gs \ others THEN [remote[g] EXCEPT !.live = FALSE] ELSE remote[g]]
    OBVIOUS
  <2>1. FALSE \in BOOLEAN
    OBVIOUS
  <2>2. ASSUME NEW g \in RemoteId
        PROVE  /\ [remote[g] EXCEPT !.live = FALSE] \in RemoteComment
               /\ [remote[g] EXCEPT !.live = FALSE].body = remote[g].body
               /\ [remote[g] EXCEPT !.live = FALSE].from = remote[g].from
               /\ ~[remote[g] EXCEPT !.live = FALSE].live
    <3>1. remote[g] \in RemoteComment
      BY <1>a
    <3> QED
      BY <2>1, <3>1 DEF RemoteComment
  <2>3. remote' \in [RemoteId -> RemoteComment]
    BY <2>2, <1>a
  <2> QED
    BY <2>2, <2>3, <1>a
<1> QED
   BY <1>1, <1>2, <1>3, <1>4, <1>5, <1>6, <1>7, <1>8, <1>9 DEF Next,
     DaemonStep, PushStep, local, ghosts, vars, Edit, Resolve, Delete,
     AgentReply, SaveStarts, SaveEnds, Reload, Restart, Outage, Recovers,
     PushStarts, PostNothing, PostFails, RecordIds, RecordHashes,
     RecordDeletes, PushDies, Fetch, MergePull, UpdateFails

(* No number is given out anew: what was in use stays so, deleted or not.  *)
LEMMA UsedGrows ==
  ASSUME PushAssumption, Type, PlainItems, Next
  PROVE  Used \subseteq Used'
<1> USE DEF Used
<1>a. remote \in [RemoteId -> RemoteComment]
  BY DEF Type, RemoteType
<1>b. ASSUME NEW xs, NEW f, Posting(xs, f) PROVE Used \subseteq Used'
  BY <1>b DEF Posting
<1>1. CASE UNCHANGED <<remote>>
  BY <1>1 DEF Used
<1>2. CASE PeerComments
  BY <1>2, <1>a DEF PeerComments
<1>3. CASE \E g \in RemoteId : PeerResolves(g)
  BY <1>3, <1>a DEF PeerResolves, RemoteComment
<1>4. CASE PostReview
  BY <1>4, <1>b, ReviewShape
<1>5. CASE NumbersUnknown
  BY <1>5, <1>b, ReviewShape
<1>6. CASE AnswerLost
  BY <1>6, <1>b, ReviewShape
<1>7. CASE PostReplies
  BY <1>7, <1>b, RepliesShape
<1>8. CASE PatchEdits
  <2> PICK sent \in SUBSET Edited : Sends(sent)
    BY <1>8, PatchShape
  <2> USE DEF Sends
  <2> QED
    BY <1>a DEF RemoteComment, Live
<1>9. CASE DeleteRemote
  <2> PICK gs \in SUBSET push.ctx.pending : \E others \in SUBSET gs :
         remote' = [g \in RemoteId |->
            IF g \in gs \ others THEN [remote[g] EXCEPT !.live = FALSE] ELSE remote[g]]
    BY <1>9, DeleteShape
  <2> PICK others \in SUBSET gs :
         remote' = [g \in RemoteId |->
            IF g \in gs \ others THEN [remote[g] EXCEPT !.live = FALSE] ELSE remote[g]]
    OBVIOUS
  <2> QED
    BY <1>a DEF RemoteComment
<1> QED
   BY <1>1, <1>2, <1>3, <1>4, <1>5, <1>6, <1>7, <1>8, <1>9 DEF Next,
     DaemonStep, PushStep, local, ghosts, vars, Edit, Resolve, Delete,
     AgentReply, SaveStarts, SaveEnds, Reload, Restart, Outage, Recovers,
     PushStarts, PostNothing, PostFails, RecordIds, RecordHashes,
     RecordDeletes, PushDies, Fetch, MergePull, UpdateFails

(* The push stays well-formed through its phases.                          *)
LEMMA PushTypeStep ==
  ASSUME PushAssumption, Type, PlainItems, Next
  PROVE  PushType'
<1> USE DEF PushType
<1>a. push \in [at : Phase, ctx : File, ids : [Item -> 0..MaxRemote], patched : SUBSET Item,
                drained : SUBSET RemoteId, auth : BOOLEAN]
  BY DEF Type
<1>b. /\ NoPush.at = "off" /\ NoPush.auth = FALSE
      /\ NoPush \in [at : Phase, ctx : File, ids : [Item -> 0..MaxRemote], patched : SUBSET Item,
                     drained : SUBSET RemoteId, auth : BOOLEAN]
  BY Blank DEF NoPush, Phase
<1>c. ASSUME NEW xs, Posting(xs, Numbers(xs))
      PROVE  Ids(Numbers(xs)) \in [Item -> 0..MaxRemote]
  <2>1. Numbers(xs) \in [xs -> RemoteId]
    BY <1>c DEF Posting
  <2>2. \A x \in xs : Numbers(xs)[x] \in 0..MaxRemote
    BY <2>1 DEF RemoteId, PushAssumption
  <2> QED
    BY <2>1, <2>2, <1>a DEF Ids
<1>1. CASE UNCHANGED <<push>>
  BY <1>1 DEF Type, PushType
<1>2. CASE PushStarts
  <2>1. disk \in File
    BY DEF Type, DiskType
  <2> QED
    BY <1>2, <2>1, <1>b DEF PushStarts, Phase
<1>3. CASE PostNothing
  BY <1>3, <1>a DEF PostNothing, Phase
<1>4. CASE PostReview
  BY <1>4, <1>a, <1>c, ReviewShape DEF PostReview, Phase
<1>5. CASE NumbersUnknown
  BY <1>5, <1>a DEF NumbersUnknown, Phase
<1>6. CASE AnswerLost
  BY <1>6, <1>a DEF AnswerLost, Phase
<1>7. CASE PostFails
  BY <1>7, <1>a, <1>b DEF PostFails, Phase
<1>8. CASE PostReplies
  <2> PICK xs \in SUBSET NewReplies :
         /\ Posting(xs, Numbers(xs))
         /\ push' = [push EXCEPT !.at = "ids", !.ids = Ids(Numbers(xs)),
                                 !.auth = Refused(NewReplies)]
    BY <1>8, RepliesShape
  <2>1. Ids(Numbers(xs)) \in [Item -> 0..MaxRemote]
    BY <1>c
  <2>2. Refused(NewReplies) \in BOOLEAN
    BY DEF Refused
  <2> QED
    BY <1>a, <2>1, <2>2 DEF Phase
<1>9. CASE RecordIds
  BY <1>9, <1>a, <1>b DEF RecordIds, AfterIds, Phase
<1>10. CASE PatchEdits
  <2> PICK sent \in SUBSET Edited : Sends(sent)
    BY <1>10, PatchShape
  <2> USE DEF Sends
  <2>1. sent \in SUBSET Item /\ Refused(Edited) \in BOOLEAN
    BY DEF Edited, Refused
  <2> QED
    BY <1>a, <2>1 DEF Phase
<1>11. CASE RecordHashes
  BY <1>11, <1>a, <1>b DEF RecordHashes, AfterHashes, Phase
<1>12. CASE DeleteRemote
  <2> PICK gs \in SUBSET push.ctx.pending : push' = [push EXCEPT !.at = "drain", !.drained = gs]
    BY <1>12, DeleteShape
  <2>1. gs \in SUBSET RemoteId
    BY <1>a DEF File
  <2> QED
    BY <1>a, <2>1 DEF Phase
<1>13. CASE RecordDeletes
  BY <1>13, <1>b DEF RecordDeletes
<1>14. CASE PushDies
  BY <1>14, <1>b DEF PushDies
<1>15. CASE UpdateFails
  BY <1>15, <1>a, <1>b, FailShape DEF Phase
<1> QED
   BY <1>1, <1>2, <1>3, <1>4, <1>5, <1>6, <1>7, <1>8, <1>9, <1>10, <1>11,
     <1>12, <1>13, <1>14, <1>15 DEF Next, DaemonStep, PushStep, local, ghosts, vars,
     Edit, Resolve, Delete, AgentReply, SaveStarts, SaveEnds, Reload, Restart,
     PeerComments, PeerResolves, Outage, Recovers, Fetch, MergePull

(* A pull has seen only comments that were on the pull request.            *)
LEMMA PullTypeStep ==
  ASSUME PushAssumption, Type, PlainItems, Next
  PROVE  PullType'
<1> USE DEF PullType
<1>a. Used \subseteq Used'
  BY UsedGrows
<1>b. FALSE \in BOOLEAN /\ 0 \in 0..MaxRemote /\ "none" \in From
  BY DEF PushAssumption, From
<1>c. NoPull \in [on : BOOLEAN, seen : [RemoteId -> RemoteComment]]
      /\ \A g \in RemoteId : NoPull.seen[g].body = 0
  <2>1. NoRemote \in RemoteComment /\ NoRemote.body = 0
    BY <1>b DEF NoRemote, RemoteComment
  <2> QED
    BY <2>1 DEF NoPull
<1>1. CASE UNCHANGED <<pull>>
  BY <1>1, <1>a DEF Type, PullType
<1>2. CASE Fetch
  <2>1. NoRemote \in RemoteComment /\ NoRemote.body = 0
    BY <1>b DEF NoRemote, RemoteComment
  <2>5. PICK threads \in BOOLEAN :
         pull' = [on |-> TRUE, seen |-> [g \in RemoteId |->
           IF Live(g) THEN [remote[g] EXCEPT !.resolved = @ /\ threads] ELSE NoRemote]]
    BY <1>2 DEF Fetch
  <2> DEFINE copy(g) == [remote[g] EXCEPT !.resolved = @ /\ threads]
             fetched == [g \in RemoteId |-> IF Live(g) THEN copy(g) ELSE NoRemote]
  <2>4. \A g \in RemoteId : copy(g) \in RemoteComment /\ copy(g).body = remote[g].body
    <3> TAKE g \in RemoteId
    <3>1. remote[g] \in RemoteComment /\ (remote[g].resolved /\ threads) \in BOOLEAN
      BY DEF Type, RemoteType
    <3> QED
      BY <3>1 DEF RemoteComment
  <2>3. pull' = [on |-> TRUE, seen |-> fetched]
    BY <2>5
  <2> HIDE DEF copy
  <2>2. fetched \in [RemoteId -> RemoteComment]
        /\ \A g \in RemoteId : fetched[g].body # 0 => g \in Used
    BY <2>1, <2>4 DEF Type, RemoteType, Used
  <2> HIDE DEF fetched
  <2> QED
    BY <2>2, <2>3, <1>a
<1>3. CASE MergePull
  BY <1>3, <1>a, <1>c DEF MergePull
<1> QED
   BY <1>1, <1>2, <1>3 DEF Next, DaemonStep, PushStep, local, ghosts,
     vars, Edit, Resolve, Delete, AgentReply, SaveStarts, SaveEnds, Reload,
     Restart, PeerComments, PeerResolves, Outage, Recovers, PushStarts,
     PostNothing, PostReview, PostFails, PostReplies, RecordIds, PatchEdits,
     RecordHashes, DeleteRemote, RecordDeletes, NumbersUnknown, AnswerLost,
     PushDies, UpdateFails

(* The numbers the reviewer wants deleted are in use.                      *)
LEMMA GhostTypeStep ==
  ASSUME PushAssumption, Type, PlainItems, Next
  PROVE  GhostType'
<1> USE DEF GhostType
<1>a. Used \subseteq Used'
  BY UsedGrows
<1>b. GhostType
  BY DEF Type
<1>1. CASE UNCHANGED <<github, lost, drift, wanted, slipped>>
  BY <1>1, <1>a, <1>b
<1>2. CASE \E x \in Item : Delete(x)
  <2> PICK x \in Item : Delete(x)
    BY <1>2
  <2>1. {mem.item[x].gh} \ {0} \subseteq Used
    BY DEF PlainItems, AllPlain, Plain
  <2>2. Used \subseteq RemoteId
    BY DEF Used
  <2> QED
    BY <1>a, <1>b, <2>1, <2>2 DEF Delete
<1>3. CASE SaveStarts
  BY <1>3, <1>a, <1>b DEF SaveStarts
<1>4. CASE Recovers \/ \E status \in {"down", "auth"} : Outage(status)
  BY <1>4, <1>a, <1>b DEF Recovers, Outage, ghosts
<1>5. CASE NumbersUnknown \/ AnswerLost
  BY <1>5, <1>a, <1>b DEF NumbersUnknown, AnswerLost, Postable, local, Item, Comment
<1>6. CASE RecordIds
  BY <1>6, <1>a, <1>b DEF RecordIds, Unkept
<1>7. CASE DeleteRemote
  BY <1>7, <1>a, <1>b, DeleteShape DEF DeleteRemote, local
<1>8. CASE PushDies
  BY <1>8, <1>a, <1>b DEF PushDies, Unkept, local
<1>9. CASE SaveEnds
  <2>1. saving.pending \subseteq RemoteId
    BY <1>9 DEF SaveEnds, Type, SavingType, File
  <2> QED
    BY <1>9, <2>1, <1>a, <1>b DEF SaveEnds
<1>10. CASE UpdateFails
  BY <1>10, <1>a, <1>b DEF UpdateFails, Unkept, local
<1> QED
  BY <1>1, <1>2, <1>3, <1>4, <1>5, <1>6, <1>7, <1>8, <1>9, <1>10
     DEF Next, DaemonStep, PushStep, local, ghosts, Edit, Resolve, AgentReply, Reload,
         Restart, PeerComments, PeerResolves, PushStarts, PostNothing, PostReview, PostFails,
         PostReplies, PatchEdits, RecordHashes, RecordDeletes, Fetch, MergePull

(* Items of review.json keep the rules of a single item: numbers a push    *)
(* records are in use, texts it stamps were sent, what a pull brings has a *)
(* number.                                                                 *)
LEMMA PlainDisk ==
  ASSUME PushAssumption, Type, PlainItems, Turns, TextPosted, Next
  PROVE  AllPlain(disk.item)'
<1> USE DEF PlainItems
<1>a. Used \subseteq Used'
  BY UsedGrows
<1>b. AllPlain(disk.item) /\ disk \in File /\ disk.item \in [Item -> Copy]
  BY Blank DEF Type, DiskType, File
<1>c. \A x : Plain(Absent, x \in Import, Used')
  BY DEF Plain, Absent
<1>e. \A y \in Item : Plain(disk.item[y], y \in Import, Used')
  BY <1>a, <1>b DEF AllPlain, Plain
<1>1. CASE UNCHANGED <<disk>>
  BY <1>1, <1>e DEF AllPlain
<1>2. CASE \E r \in Reply : AgentReply(r)
  <2> PICK r \in Reply : AgentReply(r)
    BY <1>2
  <2>1. /\ disk'.item[r] = Written(1)
        /\ \A x \in Item : x # r => disk'.item[x] = disk.item[x]
    BY <1>b DEF AgentReply, File, Item
  <2>2. r \notin Import /\ Plain(Written(1), FALSE, Used')
    BY DEF PushAssumption, Plain, Written, Absent
  <2> QED
    BY <2>1, <2>2, <1>a, <1>b DEF AllPlain, Plain
<1>3. CASE SaveEnds
  <2>1. disk'.item = saving.item
    BY <1>3 DEF SaveEnds, Type, SavingType, File
  <2> QED
    BY <2>1, <1>a DEF AllPlain, Plain
<1>4. CASE RecordIds
  <2>1. ASSUME NEW x \in Item PROVE Plain(disk'.item[x], x \in Import, Used')
    <3>1. CASE Found(x)
      <4>0. disk'.item[x] = [disk.item[x] EXCEPT !.gh = FoundId(x), !.hash = disk.item[x].body]
        BY <1>4, <3>1, <1>b DEF RecordIds, File
      <4>1. /\ disk'.item[x].gh = FoundId(x) /\ disk'.item[x].hash = disk.item[x].body
            /\ disk'.item[x].body = disk.item[x].body
        BY <4>0, <1>b DEF Copy
      <4>2. PICK y \in Item : /\ push.ids[y] # 0 /\ push.ids[y] \in RemoteId
                              /\ FoundId(x) = push.ids[y]
        BY <3>1, FoundIsPosted DEF Type
      <4>5. remote[push.ids[y]].from = y
        BY <1>4, <4>2 DEF RecordIds, TextPosted, Noting
      <4>3. FoundId(x) \in Used /\ FoundId(x) # 0
        BY <4>2, <4>5 DEF Used, Type, RemoteType, PushAssumption, Item
      <4>4. disk.item[x].body # 0
        BY <3>1 DEF Found, Here
      <4> QED
        BY <4>1, <4>3, <4>4, <1>a, <1>e DEF Plain
    <3>2. CASE ~Found(x)
      <4>1. disk'.item[x] = disk.item[x]
        BY <1>4, <3>2, <1>b DEF RecordIds, File
      <4> QED
        BY <4>1, <1>a, <1>b DEF AllPlain, Plain
    <3> QED
      BY <3>1, <3>2
  <2> QED
    BY <2>1 DEF AllPlain
<1>5. CASE RecordHashes
  <2>1. ASSUME NEW x \in Item PROVE Plain(disk'.item[x], x \in Import, Used')
    <3>1. CASE Sent(x) # {}
      <4>1. /\ disk'.item[x].gh = disk.item[x].gh /\ disk'.item[x].body = disk.item[x].body
            /\ disk'.item[x].hash = Text(push.ctx.item, push.patched, disk.item[x].gh)
        BY <1>5, <3>1, <1>b DEF RecordHashes, Copy, File
      <4>2. PICK y \in Sent(x) :
              Text(push.ctx.item, push.patched, disk.item[x].gh) = push.ctx.item[y].body
        BY <3>1, TextIsOneOfThem DEF Sent
      <4>3. /\ y \in Item /\ push.ctx.item[y].gh = disk.item[x].gh /\ push.ctx.item[y].gh # 0
        BY <1>5 DEF Sent, Patching, Type, PushType, Turns, RecordHashes
      <4>4. push.ctx.item[y].body # 0
        BY <4>3 DEF AllPlain, Plain, Absent
      <4>5. disk.item[x].body # 0 /\ disk.item[x].gh \in Used
        BY <4>3, <1>b DEF AllPlain, Plain, Absent
      <4> QED
        BY <4>1, <4>2, <4>3, <4>4, <4>5, <1>a DEF Plain
    <3>2. CASE Sent(x) = {}
      <4>1. disk'.item[x] = disk.item[x]
        BY <1>5, <3>2, <1>b DEF RecordHashes, File
      <4> QED
        BY <4>1, <1>a, <1>b DEF AllPlain, Plain
    <3> QED
      BY <3>1, <3>2
  <2> QED
    BY <2>1 DEF AllPlain
<1>6. CASE RecordDeletes
  BY <1>6, <1>a, <1>b DEF RecordDeletes, File, AllPlain, Plain
<1>7. CASE MergePull
  <2> PICK f \in Additions :
         /\ disk'.item = [x \in Item |-> MergedItem(f, x)]
         /\ \A x \in DOMAIN f :
               /\ MergedItem(f, x).gh = f[x]
               /\ MergedItem(f, x).body = pull.seen[f[x]].body
               /\ MergedItem(f, x).hash = pull.seen[f[x]].body
         /\ \A x \in Item \ DOMAIN f :
               MergedItem(f, x) = [disk.item[x] EXCEPT !.resolved = @ \/ Resolves(x)]
    BY <1>7, MergeShape DEF Type, MergedItem
  <2>1. ASSUME NEW x \in DOMAIN f PROVE Plain(MergedItem(f, x), x \in Import, Used')
    <3>1. f[x] \in RemoteId /\ pull.seen[f[x]].body # 0
      BY AddedWasSeen
    <3>2. f[x] \in Used' /\ f[x] # 0
      BY <3>1, <1>a DEF Type, PullType, RemoteId
    <3> QED
      BY <3>1, <3>2 DEF Plain
  <2>2. ASSUME NEW x \in Item \ DOMAIN f PROVE Plain(MergedItem(f, x), x \in Import, Used')
    <3>1. Plain(disk.item[x], x \in Import, Used') /\ disk.item[x] \in Copy
      BY <1>b, <1>e
    <3>2. CASE disk.item[x].body = 0
      <4>1. disk.item[x] = Absent /\ ~Resolves(x)
        BY <3>1, <3>2 DEF Plain, Absent, Resolves, RemoteId
      <4>3. (disk.item[x].resolved \/ Resolves(x)) = FALSE
        BY <4>1 DEF Absent
      <4>4. MergedItem(f, x) = [Absent EXCEPT !.resolved = FALSE]
        BY <4>1, <4>3
      <4>2. MergedItem(f, x) = Absent
        BY <4>4 DEF Absent
      <4> QED
        BY <4>2, <1>c
    <3>3. CASE disk.item[x].body # 0
      BY <3>1, <3>3 DEF Plain, Copy
    <3> QED
      BY <3>2, <3>3
  <2> QED
    BY <2>1, <2>2 DEF AllPlain
<1> QED
   BY <1>1, <1>2, <1>3, <1>4, <1>5, <1>6, <1>7 DEF Next, DaemonStep,
     PushStep, local, ghosts, vars, Edit, Resolve, Delete, SaveStarts, Reload,
     Restart, PeerComments, PeerResolves, Outage, Recovers, PushStarts,
     PostNothing, PostReview, PostFails, PostReplies, PatchEdits,
     DeleteRemote, NumbersUnknown, AnswerLost, PushDies, Fetch,
     UpdateFails

(* Items of the daemon's copy keep them.                                   *)
LEMMA PlainMem ==
  ASSUME PushAssumption, Type, PlainItems, Turns, TextPosted, Next
  PROVE  AllPlain(mem.item)'
<1> USE DEF PlainItems
<1>a. Used \subseteq Used'
  BY UsedGrows
<1>b. AllPlain(disk.item) /\ disk \in File /\ disk.item \in [Item -> Copy]
  BY Blank DEF Type, DiskType, File
<1>c. \A x : Plain(Absent, x \in Import, Used')
  BY DEF Plain, Absent
<1>d. \A y \in Item : Plain(disk.item[y], y \in Import, Used')
  BY <1>a, <1>b DEF AllPlain, Plain
<1>e. \A y \in Item : Plain(mem.item[y], y \in Import, Used')
  BY <1>a DEF AllPlain, Plain
<1>f. /\ mem \in [item : Items, pending : SUBSET RemoteId, loaded : SUBSET RemoteId,
                  tomb : SUBSET Item, dirty : BOOLEAN]
      /\ mem.item \in [Item -> Copy]
  BY Blank DEF Type, MemType
<1>g. \A y \in Item : mem.item[y].body = 0 => mem.item[y] = Absent
  BY DEF AllPlain, Plain
<1>1. CASE UNCHANGED <<mem>>
  BY <1>1, <1>e DEF AllPlain
<1>2. CASE \E x \in Item : Edit(x)
  <2> PICK x \in Item : Edit(x)
    BY <1>2
  <2>1. /\ mem'.item[x].body \in 1..2 /\ mem'.item[x].gh = mem.item[x].gh
        /\ mem'.item[x].hash = mem.item[x].hash
        /\ \A y \in Item : y # x => mem'.item[y] = mem.item[y]
    BY <1>f DEF Edit, Here, Copy
  <2>2. Plain(mem'.item[x], x \in Import, Used')
    BY <2>1, <1>e DEF Edit, Here, Plain
  <2> QED
    BY <2>1, <2>2, <1>e DEF AllPlain
<1>3. CASE \E x \in Item : Resolve(x)
  <2> PICK x \in Item : Resolve(x)
    BY <1>3
  <2>1. /\ mem'.item[x].body = mem.item[x].body /\ mem'.item[x].gh = mem.item[x].gh
        /\ mem'.item[x].hash = mem.item[x].hash
        /\ \A y \in Item : y # x => mem'.item[y] = mem.item[y]
    BY <1>f DEF Resolve, Copy
  <2>2. Plain(mem'.item[x], x \in Import, Used')
    BY <2>1, <1>e DEF Resolve, Here, Plain
  <2> QED
    BY <2>1, <2>2, <1>e DEF AllPlain
<1>4. CASE \E x \in Item : Delete(x)
  <2> PICK x \in Item : Delete(x)
    BY <1>4
  <2>1. \A y \in Item : mem'.item[y] \in {Absent, mem.item[y]}
    BY <1>f DEF Delete
  <2> QED
    BY <2>1, <1>c, <1>e DEF AllPlain
<1>5. CASE SaveStarts
  <2>1. \A y \in Item : mem'.item[y] \in {disk.item[y], mem.item[y]}
    BY <1>5, <1>f DEF SaveStarts
  <2> QED
    BY <2>1, <1>d, <1>e DEF AllPlain
<1>6. CASE SaveEnds
  BY <1>6, <1>e, <1>f DEF AllPlain, SaveEnds
<1>7. CASE Reload
  <2>1. \A y \in Item : mem'.item[y] \notin {disk.item[y], Absent} =>
           /\ mem.item[y].body # 0 /\ mem'.item[y].body = mem.item[y].body
           /\ mem'.item[y].gh = mem.item[y].gh /\ mem'.item[y].hash = mem.item[y].hash
    BY <1>7, <1>f DEF Reload, Reloaded, Here, Copy
  <2> QED
    BY <2>1, <1>c, <1>d, <1>e DEF AllPlain, Plain
<1>8. CASE Restart
  BY <1>8, <1>d DEF AllPlain, Restart
<1> QED
   BY <1>1, <1>2, <1>3, <1>4, <1>5, <1>6, <1>7, <1>8 DEF Next, DaemonStep,
     PushStep, local, ghosts, vars, AgentReply, PeerComments, PeerResolves,
     Outage, Recovers, PushStarts, PostNothing, PostReview, PostFails,
     PostReplies, RecordIds, PatchEdits, RecordHashes, DeleteRemote,
     RecordDeletes, NumbersUnknown, AnswerLost, PushDies, Fetch, MergePull,
     UpdateFails

(* Items that a save writes keep them.                                     *)
LEMMA PlainSaving ==
  ASSUME PushAssumption, Type, PlainItems, Turns, TextPosted, Next
  PROVE  AllPlain(saving.item)'
<1> USE DEF PlainItems
<1>a. Used \subseteq Used'
  BY UsedGrows
<1>b. AllPlain(disk.item) /\ disk \in File /\ disk.item \in [Item -> Copy]
  BY Blank DEF Type, DiskType, File
<1>c. \A x : Plain(Absent, x \in Import, Used')
  BY DEF Plain, Absent
<1>d. \A y \in Item : Plain(disk.item[y], y \in Import, Used')
  BY <1>a, <1>b DEF AllPlain, Plain
<1>e. \A y \in Item : Plain(mem.item[y], y \in Import, Used')
  BY <1>a DEF AllPlain, Plain
<1>f. \A y \in Item : Plain(saving.item[y], y \in Import, Used')
  BY <1>a DEF AllPlain, Plain
<1>1. CASE UNCHANGED <<saving>>
  BY <1>1, <1>f DEF AllPlain
<1>2. CASE SaveStarts
  <2>1. \A y \in Item : saving'.item[y] \in {disk.item[y], mem.item[y]}
    BY <1>2 DEF SaveStarts, Merged
  <2> QED
    BY <2>1, <1>d, <1>e DEF AllPlain
<1>3. CASE SaveEnds
  <2>1. \A y \in Item : saving'.item[y] = Absent
    BY <1>3, Blank DEF SaveEnds
  <2> QED
    BY <2>1, <1>c DEF AllPlain
<1> QED
   BY <1>1, <1>2, <1>3 DEF Next, DaemonStep, PushStep, local, ghosts, vars,
     Edit, Resolve, Delete, AgentReply, Reload, Restart, PeerComments,
     PeerResolves, Outage, Recovers, PushStarts, PostNothing, PostReview,
     PostFails, PostReplies, RecordIds, PatchEdits, RecordHashes,
     DeleteRemote, RecordDeletes, NumbersUnknown, AnswerLost, PushDies, Fetch,
     MergePull, UpdateFails

(* Items that a push has read keep them.                                   *)
LEMMA PlainRead ==
  ASSUME PushAssumption, Type, PlainItems, Turns, TextPosted, Next
  PROVE  AllPlain(push.ctx.item)'
<1> USE DEF PlainItems
<1>a. Used \subseteq Used'
  BY UsedGrows
<1>b. AllPlain(disk.item) /\ disk \in File /\ disk.item \in [Item -> Copy]
  BY Blank DEF Type, DiskType, File
<1>c. \A x : Plain(Absent, x \in Import, Used')
  BY DEF Plain, Absent
<1>d. \A y \in Item : Plain(disk.item[y], y \in Import, Used')
  BY <1>a, <1>b DEF AllPlain, Plain
<1>e. \A y \in Item : Plain(push.ctx.item[y], y \in Import, Used')
  BY <1>a DEF AllPlain, Plain
<1>f. push \in [at : Phase, ctx : File, ids : [Item -> 0..MaxRemote], patched : SUBSET Item,
                drained : SUBSET RemoteId, auth : BOOLEAN]
  BY DEF Type, PushType
<1>1. push'.ctx = push.ctx \/ push'.ctx = NoFile \/ push'.ctx = disk
  <2>1. CASE UNCHANGED push
    BY <2>1
  <2>2. CASE PushStarts
    BY <2>2 DEF PushStarts, NoPush
  <2>5. NoPush.ctx = NoFile
    BY DEF NoPush
  <2>6. CASE push' = NoPush \/ \E at : push' = [push EXCEPT !.at = at]
    BY <2>5, <2>6, <1>f
  <2>3. CASE PostNothing \/ PostReview \/ NumbersUnknown \/ AnswerLost
    BY <2>3, <1>f DEF PostNothing, PostReview, NumbersUnknown, AnswerLost
  <2>4. CASE PostReplies \/ PatchEdits \/ DeleteRemote
    BY <2>4, <1>f, RepliesShape, PatchShape, DeleteShape DEF Sends
  <2>7. CASE UpdateFails
    BY <2>6, <2>7, FailShape
  <2> QED
    BY <2>1, <2>2, <2>3, <2>4, <2>6, <2>7
       DEF PostFails, RecordIds, AfterIds, RecordHashes, AfterHashes, RecordDeletes, PushDies, Next,
           DaemonStep, PushStep, local, ghosts, Edit, Resolve, Delete, AgentReply,
           SaveStarts, SaveEnds, Reload, Restart, PeerComments, PeerResolves, Outage, Recovers,
           Fetch, MergePull
<1>2. \A y \in Item : NoFile.item[y] = Absent
  BY DEF NoFile
<1> QED
  BY <1>1, <1>2, <1>c, <1>d, <1>e DEF AllPlain

(* All copies of the items keep the rules of a single item.                *)
LEMMA PlainStep ==
  ASSUME PushAssumption, Type, PlainItems, Turns, TextPosted, Next
  PROVE  PlainItems'
  BY PlainDisk, PlainMem, PlainSaving, PlainRead DEF PlainItems

(* A refused token is known only where the push is about to end; a push    *)
(* has no numbers before it has posted.                                    *)
LEMMA TurnsStep ==
  ASSUME PushAssumption, Type, PlainItems, Turns, TextPosted, Next
  PROVE  Turns'
<1>a. push \in [at : Phase, ctx : File, ids : [Item -> 0..MaxRemote], patched : SUBSET Item,
                drained : SUBSET RemoteId, auth : BOOLEAN]
  BY DEF Type, PushType
<1>b. /\ NoPush.at = "off" /\ NoPush.auth = FALSE /\ NoPush.ids = NoIds
      /\ NoPush.patched = {} /\ NoPush.drained = {} /\ NoPush.ctx = NoFile
  BY DEF NoPush
<1>c. Turns
  OBVIOUS
<1> USE DEF Turns
<1>1. CASE UNCHANGED <<push>>
  BY <1>1 DEF Turns
<1>2. CASE PushStarts
  <2>1. push'.at = "post" /\ push'.ids = NoIds /\ push'.auth = FALSE
    BY <1>2 DEF PushStarts, NoPush
  <2> QED
    BY <2>1
<1>3. CASE PostNothing
  BY <1>3, <1>a, <1>c DEF PostNothing
<1>4. CASE PostReview
  BY <1>4, <1>a, <1>c DEF PostReview
<1>5. CASE PostFails
  BY <1>5, <1>a, <1>b, <1>c DEF PostFails
<1>6. CASE PostReplies
  BY <1>6, <1>a, <1>c, RepliesShape
<1>7. CASE RecordIds
  <2>1. push' = NoPush \/ (~push.auth /\ push' = [push EXCEPT !.at = "edits"])
    BY <1>7 DEF RecordIds, AfterIds
  <2> QED
    BY <2>1, <1>a, <1>b
<1>8. CASE PatchEdits
  <2> PICK sent \in SUBSET Edited : Sends(sent)
    BY <1>8, PatchShape
  <2> USE DEF Sends
  <2> QED
    BY <1>a DEF Edited
<1>9. CASE RecordHashes
  <2>1. push' = NoPush \/ (~push.auth /\ push' = [push EXCEPT !.at = "deletes"])
    BY <1>9 DEF RecordHashes, AfterHashes
  <2> QED
    BY <2>1, <1>a, <1>b
<1>10. CASE DeleteRemote
  <2>1. \E gs : push' = [push EXCEPT !.at = "drain", !.drained = gs]
    BY <1>10, DeleteShape
  <2>2. push.at = "deletes"
    BY <1>10 DEF DeleteRemote
  <2> QED
    BY <2>1, <2>2, <1>a, <1>c
<1>11. CASE RecordDeletes
  BY <1>11, <1>b DEF RecordDeletes
<1>12. CASE NumbersUnknown
  BY <1>12, <1>a, <1>c DEF NumbersUnknown
<1>13. CASE AnswerLost
  BY <1>13, <1>a, <1>c DEF AnswerLost
<1>14. CASE PushDies
  BY <1>14, <1>b DEF PushDies
<1>15. CASE UpdateFails
  <2>1. push' = NoPush \/ \E at \in {"edits", "deletes"} :
          ~push.auth /\ push' = [push EXCEPT !.at = at]
    BY <1>15, FailShape
  <2> QED
    BY <2>1, <1>a, <1>b
<1> QED
   BY <1>1, <1>2, <1>3, <1>4, <1>5, <1>6, <1>7, <1>8, <1>9, <1>10, <1>11,
     <1>12, <1>13, <1>14, <1>15 DEF Next, DaemonStep, PushStep, local, ghosts, vars,
     Edit, Resolve, Delete, AgentReply, SaveStarts, SaveEnds, Reload, Restart,
     PeerComments, PeerResolves, Outage, Recovers, Fetch, MergePull

(* Until its numbers are recorded, what a push has posted has the text     *)
(* that the push read.                                                     *)
LEMMA TextPostedStep ==
  ASSUME PushAssumption, Type, PlainItems, Turns, TextPosted, Next
  PROVE  TextPosted'
<1>a. push \in [at : Phase, ctx : File, ids : [Item -> 0..MaxRemote], patched : SUBSET Item,
                drained : SUBSET RemoteId, auth : BOOLEAN]
  BY DEF Type, PushType
<1>b. /\ NoPush.at = "off" /\ NoPush.auth = FALSE /\ NoPush.ids = NoIds
      /\ NoPush.patched = {} /\ NoPush.drained = {} /\ NoPush.ctx = NoFile
  BY DEF NoPush
<1>c. remote \in [RemoteId -> RemoteComment]
      /\ \A g \in RemoteId : remote[g].body = 0 <=> remote[g].from = "none"
  BY DEF Type, RemoteType
<1>d. \A x \in Item : Noting /\ push.ids[x] # 0 => push.ids[x] \in Used
  <2> TAKE x \in Item
  <2> HAVE Noting /\ push.ids[x] # 0
  <2>1. push.ids[x] \in RemoteId
    BY <1>a DEF RemoteId, PushAssumption
  <2>2. remote[push.ids[x]].from # "none"
    BY DEF TextPosted, PushAssumption, Item
  <2> QED
    BY <2>1, <2>2, <1>c DEF Used
<1>1. CASE UNCHANGED <<push, remote>>
  BY <1>1 DEF TextPosted, Noting
<1>2. CASE PeerComments
  <2>1. \A g \in Used : remote'[g] = remote[g]
    BY <1>2, <1>c DEF PeerComments, Used
  <2> QED
    BY <1>2, <2>1, <1>d DEF PeerComments, TextPosted, Noting
<1>3. CASE \E g \in RemoteId : PeerResolves(g)
  <2>1. \A g \in RemoteId : remote'[g].from = remote[g].from /\ remote'[g].body = remote[g].body
    BY <1>3, <1>c DEF PeerResolves, RemoteComment
  <2> QED
    BY <1>3, <2>1, <1>d DEF PeerResolves, TextPosted, Noting, Used
<1>4. CASE PostReview
  <2>1. Posting(Postable, Numbers(Postable))
    BY <1>4, ReviewShape
  <2>2. push.ids = NoIds /\ push'.at = "replies" /\ push'.ids = Ids(Numbers(Postable))
        /\ push'.ctx = push.ctx
    BY <1>4, <1>a DEF PostReview, Turns
  <2>3. \A x \in Item : push'.ids[x] # 0 => x \in Postable /\ push'.ids[x] = Numbers(Postable)[x]
    BY <2>1, <2>2 DEF Ids, NoIds, Posting
  <2> QED
    BY <2>1, <2>2, <2>3 DEF TextPosted, Posting
<1>5. CASE PostNothing
  <2>1. push'.ids = NoIds
    BY <1>5, <1>a DEF PostNothing, Turns
  <2> QED
    BY <2>1 DEF TextPosted, NoIds
<1>6. CASE NumbersUnknown
  <2>1. push'.ids = NoIds
    BY <1>6, <1>a DEF NumbersUnknown, Turns
  <2> QED
    BY <2>1 DEF TextPosted, NoIds
<1>7. CASE PostReplies
  <2> PICK xs \in SUBSET NewReplies :
         /\ Posting(xs, Numbers(xs)) /\ DOMAIN Numbers(xs) = xs
         /\ push' = [push EXCEPT !.at = "ids", !.ids = Ids(Numbers(xs)),
                                 !.auth = Refused(NewReplies)]
    BY <1>7, RepliesShape
  <2>1. push'.ids = Ids(Numbers(xs)) /\ push'.ctx = push.ctx
    BY <1>a
  <2>2. ASSUME NEW x \in Item, push'.ids[x] # 0
        PROVE  remote'[push'.ids[x]].from = x /\ remote'[push'.ids[x]].body = push.ctx.item[x].body
    <3>1. CASE x \in xs
      BY <3>1, <2>1 DEF Ids, Posting
    <3>2. CASE x \notin xs
      <4>1. push'.ids[x] = push.ids[x]
        BY <3>2, <2>1 DEF Ids
      <4>2. push.at = "replies"
        BY <1>7 DEF PostReplies
      <4>3. push.ids[x] \in Used /\ remote[push.ids[x]].from = x
            /\ remote[push.ids[x]].body = push.ctx.item[x].body
        BY <4>1, <4>2, <2>2, <1>d DEF Noting, TextPosted
      <4>4. remote'[push.ids[x]] = remote[push.ids[x]]
        BY <4>3 DEF Posting, Used
      <4> QED
        BY <4>1, <4>3, <4>4
    <3> QED
      BY <3>1, <3>2
  <2> QED
    BY <2>1, <2>2 DEF TextPosted
<1>8. CASE PushStarts
  <2>1. push'.at \notin {"replies", "ids"}
    BY <1>8, <1>a, <1>b DEF PushStarts, NoPush
  <2> QED
    BY <2>1 DEF TextPosted, Noting
<1>9. CASE PostFails
  <2>1. push'.at \notin {"replies", "ids"}
    BY <1>9, <1>a, <1>b DEF PostFails, NoPush
  <2> QED
    BY <2>1 DEF TextPosted, Noting
<1>10. CASE RecordIds
  <2>1. push'.at \notin {"replies", "ids"}
    BY <1>10, <1>a, <1>b DEF RecordIds, NoPush, AfterIds
  <2> QED
    BY <2>1 DEF TextPosted, Noting
<1>11. CASE PatchEdits
  <2>1. push'.at \notin {"replies", "ids"}
    BY <1>11, <1>a, <1>b DEF PatchEdits, NoPush
  <2> QED
    BY <2>1 DEF TextPosted, Noting
<1>12. CASE RecordHashes
  <2>1. push'.at \notin {"replies", "ids"}
    BY <1>12, <1>a, <1>b DEF RecordHashes, AfterHashes, NoPush
  <2> QED
    BY <2>1 DEF TextPosted, Noting
<1>13. CASE DeleteRemote
  <2>1. push'.at \notin {"replies", "ids"}
    BY <1>13, <1>a, <1>b DEF DeleteRemote, NoPush
  <2> QED
    BY <2>1 DEF TextPosted, Noting
<1>14. CASE RecordDeletes
  <2>1. push'.at \notin {"replies", "ids"}
    BY <1>14, <1>a, <1>b DEF RecordDeletes, NoPush
  <2> QED
    BY <2>1 DEF TextPosted, Noting
<1>15. CASE AnswerLost
  <2>1. push'.at \notin {"replies", "ids"}
    BY <1>15, <1>a, <1>b DEF AnswerLost, NoPush
  <2> QED
    BY <2>1 DEF TextPosted, Noting
<1>16. CASE PushDies
  <2>1. push'.at \notin {"replies", "ids"}
    BY <1>16, <1>a, <1>b DEF PushDies, NoPush
  <2> QED
    BY <2>1 DEF TextPosted, Noting
<1>17. CASE UpdateFails
  <2>1. push'.at \notin {"replies", "ids"}
    BY <1>17, <1>a, <1>b, FailShape
  <2> QED
    BY <2>1 DEF TextPosted, Noting
<1> QED
   BY <1>1, <1>2, <1>3, <1>4, <1>5, <1>6, <1>7, <1>8, <1>9, <1>10, <1>11,
     <1>12, <1>13, <1>14, <1>15, <1>16, <1>17 DEF Next, DaemonStep, PushStep, local,
     ghosts, vars, Edit, Resolve, Delete, AgentReply, SaveStarts, SaveEnds,
     Reload, Restart, Outage, Recovers, Fetch, MergePull

(* Until its edits are recorded, what a push has sent is on GitHub.        *)
LEMMA TextSentStep ==
  ASSUME PushAssumption, Type, PlainItems, Turns, TextPosted, TextSent, Next
  PROVE  TextSent'
<1>a. push \in [at : Phase, ctx : File, ids : [Item -> 0..MaxRemote], patched : SUBSET Item,
                drained : SUBSET RemoteId, auth : BOOLEAN]
  BY DEF Type, PushType
<1>b. /\ NoPush.at = "off" /\ NoPush.auth = FALSE /\ NoPush.ids = NoIds
      /\ NoPush.patched = {} /\ NoPush.drained = {} /\ NoPush.ctx = NoFile
  BY DEF NoPush
<1>c. remote \in [RemoteId -> RemoteComment]
  BY DEF Type, RemoteType
<1>d. \A g \in RemoteId :
        push.at = "hashes" /\ Patching(push.ctx.item, push.patched, g) # {} => g \in Used
  BY <1>a DEF Patching, Turns, PlainItems, AllPlain, Plain
<1>1. CASE UNCHANGED <<push, remote>>
  BY <1>1 DEF TextSent
<1>2. CASE PeerComments
  <2>1. \A g \in Used : remote'[g] = remote[g]
    BY <1>2, <1>c DEF PeerComments, Used
  <2> QED
    BY <1>2, <2>1, <1>d DEF PeerComments, TextSent
<1>3. CASE \E g \in RemoteId : PeerResolves(g)
  <2>1. \A g \in RemoteId : remote'[g].body = remote[g].body
    BY <1>3, <1>c DEF PeerResolves, RemoteComment
  <2> QED
    BY <1>3, <2>1 DEF PeerResolves, TextSent
<1>4. CASE PatchEdits
  <2> PICK sent \in SUBSET Edited : Sends(sent)
    BY <1>4, PatchShape
  <2> USE DEF Sends
  <2>1. push'.patched = sent /\ push'.ctx = push.ctx
    BY <1>a
  <2>2. \A g \in RemoteId : Patching(push.ctx.item, sent, g) # {}
           => remote'[g].body = Text(push.ctx.item, sent, g)
    BY <1>c DEF RemoteComment
  <2> QED
    BY <2>1, <2>2 DEF TextSent
<1>5. CASE PushStarts
  <2>1. push'.at # "hashes"
    BY <1>5, <1>a, <1>b DEF PushStarts, NoPush
  <2> QED
    BY <2>1 DEF TextSent
<1>6. CASE PostNothing
  <2>1. push'.at # "hashes"
    BY <1>6, <1>a, <1>b DEF PostNothing, NoPush
  <2> QED
    BY <2>1 DEF TextSent
<1>7. CASE PostReview
  <2>1. push'.at # "hashes"
    BY <1>7, <1>a, <1>b DEF PostReview, NoPush
  <2> QED
    BY <2>1 DEF TextSent
<1>8. CASE PostFails
  <2>1. push'.at # "hashes"
    BY <1>8, <1>a, <1>b DEF PostFails, NoPush
  <2> QED
    BY <2>1 DEF TextSent
<1>9. CASE PostReplies
  <2>1. push'.at # "hashes"
    BY <1>9, <1>a, <1>b DEF PostReplies, NoPush
  <2> QED
    BY <2>1 DEF TextSent
<1>10. CASE RecordIds
  <2>1. push'.at # "hashes"
    BY <1>10, <1>a, <1>b DEF RecordIds, NoPush, AfterIds
  <2> QED
    BY <2>1 DEF TextSent
<1>11. CASE RecordHashes
  <2>1. push'.at # "hashes"
    BY <1>11, <1>a, <1>b DEF RecordHashes, AfterHashes, NoPush
  <2> QED
    BY <2>1 DEF TextSent
<1>12. CASE DeleteRemote
  <2>1. push'.at # "hashes"
    BY <1>12, <1>a, <1>b DEF DeleteRemote, NoPush
  <2> QED
    BY <2>1 DEF TextSent
<1>13. CASE RecordDeletes
  <2>1. push'.at # "hashes"
    BY <1>13, <1>a, <1>b DEF RecordDeletes, NoPush
  <2> QED
    BY <2>1 DEF TextSent
<1>14. CASE NumbersUnknown
  <2>1. push'.at # "hashes"
    BY <1>14, <1>a, <1>b DEF NumbersUnknown, NoPush
  <2> QED
    BY <2>1 DEF TextSent
<1>15. CASE AnswerLost
  <2>1. push'.at # "hashes"
    BY <1>15, <1>a, <1>b DEF AnswerLost, NoPush
  <2> QED
    BY <2>1 DEF TextSent
<1>16. CASE PushDies
  <2>1. push'.at # "hashes"
    BY <1>16, <1>a, <1>b DEF PushDies, NoPush
  <2> QED
    BY <2>1 DEF TextSent
<1>17. CASE UpdateFails
  <2>1. push'.at # "hashes"
    BY <1>17, <1>a, <1>b, FailShape
  <2> QED
    BY <2>1 DEF TextSent
<1> QED
   BY <1>1, <1>2, <1>3, <1>4, <1>5, <1>6, <1>7, <1>8, <1>9, <1>10, <1>11,
     <1>12, <1>13, <1>14, <1>15, <1>16, <1>17 DEF Next, DaemonStep, PushStep, local,
     ghosts, vars, Edit, Resolve, Delete, AgentReply, SaveStarts, SaveEnds,
     Reload, Restart, Outage, Recovers, Fetch, MergePull

(* The daemon's copy has the file's number or none, and what a save writes *)
(* has the file's number and recorded text or is counted in drift.         *)
LEMMA SameNumberStep ==
  ASSUME PushAssumption, Type, PlainItems, Turns, TextPosted, SameNumber, Next
  PROVE  SameNumber'
<1>a. /\ mem \in [item : Items, pending : SUBSET RemoteId, loaded : SUBSET RemoteId,
                  tomb : SUBSET Item, dirty : BOOLEAN]
      /\ mem.item \in [Item -> Copy]
  BY Blank DEF Type, MemType
<1>b. disk \in File /\ disk.item \in [Item -> Copy]
  BY Blank DEF Type, DiskType, File
<1>c. ASSUME saving = NoSave, saving' = saving, mem' = mem,
             \A x \in Item : disk.item[x].gh \in {0, disk'.item[x].gh}
      PROVE  SameNumber'
  BY <1>c DEF SameNumber
<1>d. ASSUME saving' = saving, disk' = disk, drift \subseteq drift',
             \A x \in Item : mem'.item[x].gh \in {0, mem.item[x].gh}
      PROVE  SameNumber'
  BY <1>d DEF SameNumber
<1>e. Absent.gh = 0 /\ Absent.body = 0 /\ Written(1).gh = 0
  BY DEF Absent, Written

<1>1. CASE UNCHANGED <<disk, mem, saving, drift>>
  BY <1>1 DEF SameNumber
<1>2. CASE \E x \in Item : Edit(x)
  <2>1. \A x \in Item : mem'.item[x].gh \in {0, mem.item[x].gh}
    BY <1>2, <1>a DEF Edit, Copy
  <2> QED
    BY <1>2, <2>1, <1>d DEF Edit, ghosts
<1>3. CASE \E x \in Item : Resolve(x)
  <2>1. \A x \in Item : mem'.item[x].gh \in {0, mem.item[x].gh}
    BY <1>3, <1>a DEF Resolve, Copy
  <2> QED
    BY <1>3, <2>1, <1>d DEF Resolve, ghosts
<1>4. CASE \E x \in Item : Delete(x)
  <2>1. \A x \in Item : mem'.item[x].gh \in {0, mem.item[x].gh}
    BY <1>4, <1>a, <1>e DEF Delete
  <2> QED
    BY <1>4, <2>1, <1>d DEF Delete
<1>5. CASE \E r \in Reply : AgentReply(r)
  <2> PICK r \in Reply : AgentReply(r)
    BY <1>5
  <2>1. disk.item[r].gh = 0 /\ \A x \in Item : x # r => disk'.item[x] = disk.item[x]
    BY <1>b, <1>e DEF AgentReply, Fresh, File, Item, Here, PlainItems, AllPlain, Plain
  <2> QED
    BY <2>1, <1>c DEF AgentReply
<1>6. CASE SaveStarts
  <2>1. \A x \in Item : saving'.item[x] = Merged(x) /\ Merged(x) \in {disk.item[x], mem.item[x]}
    BY <1>6 DEF SaveStarts, Merged
  <2>2. \A x \in Item : mem'.item[x] = IF NewReply(x) THEN disk.item[x] ELSE mem.item[x]
    BY <1>6, <1>a DEF SaveStarts
  <2>3. \A x \in Item : mem.item[x].gh # 0 => disk.item[x].gh = mem.item[x].gh
    BY DEF SameNumber
  <2>4. disk' = disk
    BY <1>6 DEF SaveStarts
  <2>5. ASSUME NEW x \in Item
        PROVE  /\ mem'.item[x].gh # 0 => disk.item[x].gh = mem'.item[x].gh
               /\ mem'.item[x].gh # 0 => saving'.item[x].gh = mem'.item[x].gh
               /\ saving'.item[x].gh # 0 => saving'.item[x].gh = disk.item[x].gh
    BY <2>1, <2>2, <2>3 DEF Merged
  <2>6. ASSUME NEW x \in Item \ drift', saving'.item[x].gh # 0
        PROVE  saving'.item[x].hash = disk.item[x].hash
    <3>1. CASE Merged(x) = disk.item[x]
      BY <3>1, <2>1
    <3>2. CASE Merged(x) = mem.item[x]
      <4>1. mem.item[x].body # 0
        BY <3>2, <2>1, <2>6, <1>e DEF PlainItems, AllPlain, Plain
      <4> QED
        BY <3>2, <4>1, <2>1, <1>6 DEF SaveStarts, Here
    <3> QED
      BY <3>1, <3>2, <2>1
  <2> QED
    BY <2>4, <2>5, <2>6 DEF SameNumber
<1>7. CASE SaveEnds
  <2>1. disk'.item = saving.item /\ mem'.item = mem.item /\ saving' = NoSave /\ saving # NoSave
    BY <1>7, <1>a DEF SaveEnds, Type, SavingType, File
  <2> QED
    BY <2>1 DEF SameNumber
<1>8. CASE Reload
  <2>1. \A x \in Item : mem'.item[x].gh \in {0, mem.item[x].gh, disk.item[x].gh}
    BY <1>8, <1>a, <1>e DEF Reload, Reloaded, Copy
  <2> QED
    BY <1>8, <2>1 DEF Reload, SameNumber
<1>9. CASE Restart
  BY <1>9 DEF Restart, SameNumber
<1>10. CASE RecordIds
  <2>1. \A x \in Item : disk.item[x].gh \in {0, disk'.item[x].gh}
    BY <1>10, <1>b DEF RecordIds, File, Found, Copy
  <2> QED
    BY <1>10, <2>1, <1>c DEF RecordIds
<1>11. CASE RecordHashes
  <2>1. \A x \in Item : disk.item[x].gh = disk'.item[x].gh
    BY <1>11, <1>b DEF RecordHashes, File, Copy
  <2> QED
    BY <1>11, <2>1, <1>c DEF RecordHashes
<1>12. CASE RecordDeletes
  BY <1>12, <1>b, <1>c DEF RecordDeletes, File
<1>13. CASE PushDies
  BY <1>13, <1>d DEF PushDies, local
<1>14. CASE MergePull
  <2> PICK f \in Additions :
         /\ disk'.item = [x \in Item |-> MergedItem(f, x)]
         /\ \A x \in Item \ DOMAIN f : MergedItem(f, x).gh = disk.item[x].gh
    BY <1>14, MergeShape DEF Type
  <2>2. \A x \in DOMAIN f : x \in Item /\ disk.item[x].gh = 0
    BY AddedWasSeen, <1>e DEF Fresh, Here, PlainItems, AllPlain, Plain
  <2>1. \A x \in Item : disk.item[x].gh \in {0, disk'.item[x].gh}
    BY <2>2
  <2> QED
    BY <1>14, <2>1, <1>c DEF MergePull
<1>15. CASE UpdateFails
  BY <1>15, <1>d, FailShape
<1> QED
   BY <1>1, <1>2, <1>3, <1>4, <1>5, <1>6, <1>7, <1>8, <1>9, <1>10, <1>11,
     <1>12, <1>13, <1>14, <1>15 DEF Next, DaemonStep, PushStep, local, ghosts,
     vars, PeerComments, PeerResolves, Outage, Recovers, PushStarts,
     PostNothing, PostReview, PostFails, PostReplies, PatchEdits,
     DeleteRemote, NumbersUnknown, AnswerLost, Fetch

(* GitHub has the recorded text of every item, but for those in drift and  *)
(* those whose edit is sent and not yet recorded.                          *)
LEMMA TextKnownStep ==
  ASSUME PushAssumption, Type, PlainItems, Turns, TextPosted, TextSent, SameNumber, TextKnown, Next
  PROVE  TextKnown'
<1>a. /\ mem \in [item : Items, pending : SUBSET RemoteId, loaded : SUBSET RemoteId,
                  tomb : SUBSET Item, dirty : BOOLEAN]
      /\ mem.item \in [Item -> Copy]
  BY Blank DEF Type, MemType
<1>b. disk \in File /\ disk.item \in [Item -> Copy]
  BY Blank DEF Type, DiskType, File
<1>p. push \in [at : Phase, ctx : File, ids : [Item -> 0..MaxRemote], patched : SUBSET Item,
                drained : SUBSET RemoteId, auth : BOOLEAN]
  BY DEF Type, PushType
<1>n. /\ NoPush.at = "off" /\ NoPush.auth = FALSE /\ NoPush.ids = NoIds
      /\ NoPush.patched = {} /\ NoPush.drained = {} /\ NoPush.ctx = NoFile
  BY DEF NoPush
<1>c. remote \in [RemoteId -> RemoteComment]
  BY DEF Type, RemoteType
<1>u. \A x \in Item :
        disk.item[x].gh # 0 => disk.item[x].gh \in Used /\ disk.item[x].gh \in RemoteId
  BY DEF PlainItems, AllPlain, Plain, Used
<1>d. ASSUME push'.at # "hashes", push.at # "hashes", disk' = disk, drift \subseteq drift',
             \A g \in Used : remote'[g].from = remote[g].from /\ remote'[g].body = remote[g].body
      PROVE  TextKnown'
  BY <1>d, <1>u DEF TextKnown
<1>e. ASSUME push' = push, remote' = remote, drift' = drift,
             \A x \in Item : disk'.item[x].gh # 0 /\ (\E g \in RemoteId : remote[g].from = x) =>
               disk'.item[x].gh = disk.item[x].gh /\ disk'.item[x].hash = disk.item[x].hash
      PROVE  TextKnown'
  <2>2. ASSUME NEW x \in Item \ drift, disk'.item[x].gh \in RemoteId,
               disk'.item[x].gh # 0, remote[disk'.item[x].gh].from = x,
               push.at = "hashes" => Sent(x)' = {}
        PROVE  remote[disk'.item[x].gh].body = disk'.item[x].hash
    BY <2>2, <1>e DEF TextKnown, Sent
  <2>3. \A x \in Item : disk'.item[x].gh # 0 => disk'.item[x].gh \in RemoteId
    BY PlainStep DEF PlainItems, AllPlain, Plain, Used
  <2> QED
    BY <2>2, <2>3, <1>e DEF TextKnown
<1>f. ASSUME NEW xs, NEW f, Posting(xs, f) PROVE \A g \in Used : remote'[g] = remote[g]
  BY <1>f DEF Posting, Used
<1>g. Absent.gh = 0 /\ Written(1).gh = 0
  BY DEF Absent, Written

<1>1. CASE UNCHANGED <<disk, remote, push, drift>>
  BY <1>1 DEF TextKnown, Sent
<1>2. CASE \E r \in Reply : AgentReply(r)
  <2>1. \A x \in Item : disk'.item[x].gh # 0 => disk'.item[x] = disk.item[x]
    BY <1>2, <1>b, <1>g DEF AgentReply, File, Item
  <2> QED
    BY <1>2, <2>1, <1>e DEF AgentReply, ghosts
<1>3. CASE SaveStarts
  BY <1>3 DEF SaveStarts, TextKnown, Sent
<1>4. CASE SaveEnds
  <2>1. \A x \in Item \ drift : disk'.item[x].gh # 0 =>
          disk'.item[x].gh = disk.item[x].gh /\ disk'.item[x].hash = disk.item[x].hash
    BY <1>4 DEF SaveEnds, SameNumber, Type, SavingType, File
  <2> QED
    BY <1>4, <2>1 DEF SaveEnds, ghosts, TextKnown, Sent
<1>5. CASE PeerComments
  <2>1. \A g \in Used : remote'[g] = remote[g]
    BY <1>5, <1>c DEF PeerComments, Used
  <2> QED
    BY <1>5, <2>1, <1>u DEF PeerComments, ghosts, TextKnown, Sent
<1>6. CASE \E g \in RemoteId : PeerResolves(g)
  <2>1. \A g \in RemoteId : remote'[g].body = remote[g].body /\ remote'[g].from = remote[g].from
    BY <1>6, <1>c DEF PeerResolves, RemoteComment
  <2> QED
    BY <1>6, <2>1, <1>u DEF PeerResolves, ghosts, TextKnown, Sent
<1>7. CASE PushStarts
  BY <1>7, <1>d, <1>p, <1>n DEF PushStarts, NoPush, local, ghosts
<1>8. CASE PostNothing
  BY <1>8, <1>d, <1>p, <1>n DEF PostNothing, NoPush, local, ghosts
<1>9. CASE PostFails
  BY <1>9, <1>d, <1>p, <1>n DEF PostFails, NoPush, local, ghosts
<1>10. CASE PostReview
  <2>1. \A g \in Used : remote'[g] = remote[g]
    BY <1>10, <1>f, ReviewShape
  <2> QED
    BY <1>10, <2>1, <1>d, <1>p, <1>n DEF PostReview, local, ghosts
<1>11. CASE NumbersUnknown
  <2>1. \A g \in Used : remote'[g] = remote[g]
    BY <1>11, <1>f, ReviewShape
  <2> QED
    BY <1>11, <2>1, <1>d, <1>p, <1>n DEF NumbersUnknown, local, ghosts
<1>12. CASE AnswerLost
  <2>1. \A g \in Used : remote'[g] = remote[g]
    BY <1>12, <1>f, ReviewShape
  <2> QED
    BY <1>12, <2>1, <1>d, <1>p, <1>n DEF AnswerLost, local, ghosts
<1>13. CASE PostReplies
  <2>1. (\A g \in Used : remote'[g] = remote[g]) /\ push'.at = "ids"
    BY <1>13, <1>f, <1>p, RepliesShape
  <2> QED
    BY <1>13, <2>1, <1>d DEF PostReplies, local, ghosts
<1>14. CASE RecordIds
  <2>1. push.at = "ids" /\ push'.at # "hashes" /\ remote' = remote
    BY <1>14, <1>p, <1>n DEF RecordIds, AfterIds
  <2>2. ASSUME NEW x \in Item \ drift', disk'.item[x].gh # 0, remote[disk'.item[x].gh].from = x
        PROVE  remote[disk'.item[x].gh].body = disk'.item[x].hash
    <3>1. CASE Found(x)
      <4>0. disk'.item[x] = [disk.item[x] EXCEPT !.gh = FoundId(x), !.hash = disk.item[x].body]
        BY <1>14, <3>1, <1>b DEF RecordIds, File
      <4>1. disk'.item[x].gh = FoundId(x) /\ disk'.item[x].hash = disk.item[x].body
        BY <4>0, <1>b DEF Copy
      <4>2. disk.item[x].body = push.ctx.item[x].body
        BY <1>14, <3>1, <2>2 DEF RecordIds
      <4>5. PICK y \in Item : push.ids[y] # 0 /\ FoundId(x) = push.ids[y]
        BY <3>1, FoundIsPosted DEF Type
      <4>6. y = x
        BY <4>1, <4>5, <2>1, <2>2 DEF TextPosted, Noting
      <4>3. remote[FoundId(x)].body = push.ctx.item[x].body
        BY <4>5, <4>6, <2>1 DEF TextPosted, Noting
      <4> QED
        BY <4>1, <4>2, <4>3
    <3>2. CASE ~Found(x)
      <4>1. disk'.item[x] = disk.item[x]
        BY <1>14, <3>2, <1>b DEF RecordIds, File
      <4>2. x \notin drift
        BY <1>14, <2>2 DEF RecordIds
      <4> QED
        BY <4>1, <4>2, <2>1, <2>2 DEF TextKnown
    <3> QED
      BY <3>1, <3>2
  <2> QED
    BY <2>1, <2>2 DEF TextKnown
<1>15. CASE PatchEdits
  <2> PICK sent \in SUBSET Edited : Sends(sent)
    BY <1>15, PatchShape
  <2> USE DEF Sends
  <2>1. push'.at = "hashes" /\ push'.patched = sent /\ push'.ctx = push.ctx /\ push.at = "edits"
    BY <1>15, <1>p DEF PatchEdits
  <2>2. disk' = disk /\ drift' = drift
    BY <1>15 DEF PatchEdits, local, ghosts
  <2>3. ASSUME NEW x \in Item \ drift, disk.item[x].gh # 0,
               remote'[disk.item[x].gh].from = x, Sent(x)' = {}
        PROVE  remote'[disk.item[x].gh].body = disk.item[x].hash
    <3>1. Patching(push.ctx.item, sent, disk.item[x].gh) = {}
      BY <2>1, <2>2, <2>3 DEF Sent
    <3>2. remote'[disk.item[x].gh] = remote[disk.item[x].gh]
      BY <3>1, <2>3, <1>u
    <3> QED
      BY <3>2, <2>1, <2>3 DEF TextKnown
  <2> QED
    BY <2>1, <2>2, <2>3 DEF TextKnown
<1>16. CASE RecordHashes
  <2>1. push.at = "hashes" /\ push'.at # "hashes" /\ remote' = remote /\ drift' = drift
    BY <1>16, <1>p, <1>n DEF RecordHashes, AfterHashes, ghosts
  <2>2. ASSUME NEW x \in Item \ drift, disk'.item[x].gh # 0, remote[disk'.item[x].gh].from = x
        PROVE  remote[disk'.item[x].gh].body = disk'.item[x].hash
    <3>1. CASE Sent(x) # {}
      <4>1. /\ disk'.item[x].gh = disk.item[x].gh
            /\ disk'.item[x].hash = Text(push.ctx.item, push.patched, disk.item[x].gh)
        BY <1>16, <3>1, <1>b DEF RecordHashes, Copy, File
      <4> QED
        BY <4>1, <2>1, <2>2, <3>1, <1>u DEF TextSent, Sent
    <3>2. CASE Sent(x) = {}
      <4>1. disk'.item[x] = disk.item[x]
        BY <1>16, <3>2, <1>b DEF RecordHashes, File
      <4> QED
        BY <4>1, <3>2, <2>2 DEF TextKnown
    <3> QED
      BY <3>1, <3>2
  <2> QED
    BY <2>1, <2>2 DEF TextKnown
<1>17. CASE DeleteRemote
  <2> PICK gs \in SUBSET push.ctx.pending : \E others \in SUBSET gs :
         /\ remote' = [g \in RemoteId |->
              IF g \in gs \ others THEN [remote[g] EXCEPT !.live = FALSE] ELSE remote[g]]
         /\ push' = [push EXCEPT !.at = "drain", !.drained = gs]
    BY <1>17, DeleteShape
  <2>1. push.at # "hashes" /\ push'.at # "hashes"
    BY <1>17, <1>p DEF DeleteRemote
  <2>2. \A g \in RemoteId : remote'[g].body = remote[g].body /\ remote'[g].from = remote[g].from
    BY <1>c DEF RemoteComment
  <2> QED
    BY <1>17, <2>1, <2>2, <1>d DEF DeleteRemote, local, Used
<1>18. CASE RecordDeletes
  <2>1. push.at # "hashes" /\ push'.at # "hashes" /\ disk'.item = disk.item
    BY <1>18, <1>b, <1>n DEF RecordDeletes, File
  <2> QED
    BY <1>18, <2>1 DEF RecordDeletes, ghosts, TextKnown
<1>19. CASE PushDies
  <2>1. push'.at # "hashes" /\ disk' = disk /\ remote' = remote /\ drift \subseteq drift'
    BY <1>19, <1>n DEF PushDies, local
  <2>2. push.at = "hashes" => \A x \in Item \ drift' : Sent(x) = {}
    BY <1>19 DEF PushDies
  <2> QED
    BY <2>1, <2>2 DEF TextKnown
<1>20. CASE MergePull
  <2>1. \A x \in Item : (\E g \in RemoteId : remote[g].from = x) =>
          disk'.item[x].gh = disk.item[x].gh /\ disk'.item[x].hash = disk.item[x].hash
    BY <1>20, MergeKeeps DEF Type
  <2> QED
    BY <1>20, <2>1, <1>e DEF MergePull, ghosts
<1>21. CASE UpdateFails
  <2>1. /\ push'.at # "hashes" /\ disk' = disk /\ remote' = remote /\ drift \subseteq drift'
        /\ push.at = "hashes" => \A x \in Item \ drift' : Sent(x) = {}
    BY <1>21, <1>n, <1>p, FailShape
  <2> QED
    BY <2>1 DEF TextKnown
<1> QED
   BY <1>1, <1>2, <1>3, <1>4, <1>5, <1>6, <1>7, <1>8, <1>9, <1>10, <1>11,
     <1>12, <1>13, <1>14, <1>15, <1>16, <1>17, <1>18, <1>19, <1>20, <1>21 DEF
     Next, DaemonStep, PushStep, local, ghosts, vars, Edit, Resolve, Delete,
     Reload, Restart, Outage, Recovers, Fetch

(* What crit has once lost track of stays counted.                         *)
LEMMA LostGrows == ASSUME Next PROVE lost \subseteq lost'
  BY DEF Next, DaemonStep, PushStep, local, ghosts, vars, Edit, Resolve, Delete, AgentReply,
     SaveStarts, SaveEnds, Reload, Restart, PeerComments, PeerResolves, Outage, Recovers,
     PushStarts, PostNothing, PostReview, PostFails, PostReplies, RecordIds, PatchEdits,
     RecordHashes, DeleteRemote, RecordDeletes, NumbersUnknown, AnswerLost, PushDies, Fetch,
     MergePull, UpdateFails

(* An item that GitHub has and crit has not lost stays noted: by the push  *)
(* that posted it until its number is recorded, by the file from then on,  *)
(* and by nothing only when it is gone from file and memory alike.         *)
LEMMA NotedStays ==
  ASSUME PushAssumption, Type, PlainItems, Turns, TextPosted, SameNumber, Next,
         NEW x \in Root \cup Reply, x \notin lost', \E g \in RemoteId : remote[g].from = x,
         Noted(x)
  PROVE  Noted(x)'
<1>a. /\ mem \in [item : Items, pending : SUBSET RemoteId, loaded : SUBSET RemoteId,
                  tomb : SUBSET Item, dirty : BOOLEAN]
      /\ mem.item \in [Item -> Copy]
  BY Blank DEF Type, MemType
<1>b. disk \in File /\ disk.item \in [Item -> Copy]
  BY Blank DEF Type, DiskType, File
<1>p. push \in [at : Phase, ctx : File, ids : [Item -> 0..MaxRemote], patched : SUBSET Item,
                drained : SUBSET RemoteId, auth : BOOLEAN]
  BY DEF Type, PushType
<1>n. /\ NoPush.at = "off" /\ NoPush.auth = FALSE /\ NoPush.ids = NoIds
      /\ NoPush.patched = {} /\ NoPush.drained = {} /\ NoPush.ctx = NoFile
  BY DEF NoPush
<1>g. /\ Absent.gh = 0 /\ Absent.body = 0
      /\ \A y \in Item : /\ disk.item[y].body = 0 => disk.item[y].gh = 0
                         /\ mem.item[y].body = 0 => mem.item[y].gh = 0
  BY DEF Absent, PlainItems, AllPlain, Plain
<1>h. x \in Item /\ x \notin Import /\ x \notin lost
  BY LostGrows DEF Item, PushAssumption
<1>i. ASSUME disk' = disk, saving' = saving, push' = push,
             mem.item[x].body = 0 => mem'.item[x].body = 0
      PROVE  Noted(x)'
  BY <1>i DEF Noted, NotedIn, Noting, Here
<1>j. ASSUME disk' = disk, saving' = saving, mem' = mem, ~(Noting /\ push.ids[x] # 0)
      PROVE  Noted(x)'
  BY <1>j DEF Noted, NotedIn, Here
<1>k. ASSUME saving = NoSave, saving' = saving, mem' = mem, push' = push \/ ~Noting,
             disk'.item[x].gh = disk.item[x].gh, disk'.item[x].body = disk.item[x].body
      PROVE  Noted(x)'
  BY <1>k DEF Noted, NotedIn, Noting, Here

<1>1. CASE UNCHANGED <<disk, mem, saving, push>>
  BY <1>1 DEF Noted, NotedIn, Noting, Here
<1>2. CASE \E y \in Item : Edit(y)
  <2>1. mem.item[x].body = 0 => mem'.item[x].body = 0
    BY <1>2, <1>a, <1>h DEF Edit, Here, Copy
  <2> QED
    BY <1>2, <2>1, <1>i DEF Edit
<1>3. CASE \E y \in Item : Resolve(y)
  <2>1. mem.item[x].body = 0 => mem'.item[x].body = 0
    BY <1>3, <1>a, <1>h DEF Resolve, Here, Copy
  <2> QED
    BY <1>3, <2>1, <1>i DEF Resolve
<1>4. CASE \E y \in Item : Delete(y)
  <2>1. mem.item[x].body = 0 => mem'.item[x].body = 0
    BY <1>4, <1>a, <1>g, <1>h DEF Delete
  <2> QED
    BY <1>4, <2>1, <1>i DEF Delete
<1>5. CASE \E r \in Reply : AgentReply(r)
  <2>1. disk'.item[x] = disk.item[x]
    BY <1>5, <1>b, <1>h DEF AgentReply, Fresh, File
  <2> QED
    BY <1>5, <2>1, <1>k DEF AgentReply
<1>6. CASE SaveStarts
  <2>1. /\ saving'.item[x] = Merged(x) /\ Merged(x) \in {disk.item[x], mem.item[x]}
        /\ mem'.item[x] = IF NewReply(x) THEN disk.item[x] ELSE mem.item[x]
        /\ disk' = disk /\ push' = push /\ saving = NoSave
    BY <1>6, <1>a, <1>h DEF SaveStarts, Merged
  <2>2. mem.item[x].body # 0 /\ disk.item[x].gh # 0 => mem.item[x].gh # 0
    BY <1>6, <1>h DEF SaveStarts, Here
  <2>3. CASE Noting /\ push.ids[x] # 0
    BY <2>1, <2>3 DEF Noted, Noting
  <2>4. CASE disk.item[x].gh # 0 /\ mem.item[x].body # 0
    BY <2>1, <2>2, <2>4 DEF Noted, NotedIn
  <2>5. CASE mem.item[x].body = 0 /\ disk.item[x].gh # 0
    <3>1. CASE Merged(x) = disk.item[x]
      BY <3>1, <2>1, <2>5 DEF Noted, NotedIn
    <3>2. CASE ~NewReply(x) /\ Merged(x) = mem.item[x]
      BY <3>2, <2>1, <2>5 DEF Noted, NotedIn, Here
    <3> QED
      BY <3>1, <3>2 DEF Merged
  <2>6. CASE mem.item[x].body = 0 /\ disk.item[x].body = 0
    BY <2>1, <2>6 DEF Noted, NotedIn, Here
  <2> QED
    BY <2>3, <2>4, <2>5, <2>6 DEF Noted, NotedIn, Here
<1>7. CASE SaveEnds
  <2>1. /\ disk'.item = saving.item /\ saving # NoSave /\ saving' = NoSave /\ mem'.item = mem.item
        /\ push' = push
    BY <1>7, <1>a DEF SaveEnds, Type, SavingType, File
  <2> QED
    BY <2>1 DEF Noted, NotedIn, Noting, Here
<1>8. CASE Reload
  <2>1. mem'.item[x] \in {Absent, disk.item[x]} \/ mem.item[x].body # 0
    BY <1>8, <1>a, <1>h DEF Reload, Reloaded, Here
  <2> QED
    BY <1>8, <2>1, <1>g, <1>h DEF Reload, Noted, NotedIn, Noting, Here
<1>9. CASE Restart
  BY <1>9, <1>g, <1>h DEF Restart, Noted, NotedIn, Noting, Here
<1>10. CASE PushStarts
  <2>1. ~Noting
    BY <1>10 DEF PushStarts, Noting
  <2> QED
    BY <1>10, <2>1, <1>j DEF PushStarts, local
<1>11. CASE PostNothing
  <2>1. ~Noting
    BY <1>11 DEF PostNothing, Noting
  <2> QED
    BY <1>11, <2>1, <1>j DEF PostNothing, local
<1>12. CASE PostReview
  <2>1. ~Noting
    BY <1>12 DEF PostReview, Noting
  <2> QED
    BY <1>12, <2>1, <1>j DEF PostReview, local
<1>13. CASE PostFails
  <2>1. ~Noting
    BY <1>13 DEF PostFails, Noting
  <2> QED
    BY <1>13, <2>1, <1>j DEF PostFails, local
<1>14. CASE NumbersUnknown
  <2>1. ~Noting
    BY <1>14 DEF NumbersUnknown, Noting
  <2> QED
    BY <1>14, <2>1, <1>j DEF NumbersUnknown, local
<1>15. CASE AnswerLost
  <2>1. ~Noting
    BY <1>15 DEF AnswerLost, Noting
  <2> QED
    BY <1>15, <2>1, <1>j DEF AnswerLost, local
<1>16. CASE PatchEdits
  <2>1. ~Noting
    BY <1>16 DEF PatchEdits, Noting
  <2> QED
    BY <1>16, <2>1, <1>j DEF PatchEdits, local
<1>17. CASE DeleteRemote
  <2>1. ~Noting
    BY <1>17 DEF DeleteRemote, Noting
  <2> QED
    BY <1>17, <2>1, <1>j DEF DeleteRemote, local
<1>18. CASE PostReplies
  <2>1. Noting'
    BY <1>18, <1>p, RepliesShape DEF Noting
  <2>2. push.ids[x] # 0 => push'.ids[x] # 0
    <3> PICK xs \in SUBSET NewReplies :
         /\ Posting(xs, Numbers(xs)) /\ DOMAIN Numbers(xs) = xs
         /\ push' = [push EXCEPT !.at = "ids", !.ids = Ids(Numbers(xs)),
                                 !.auth = Refused(NewReplies)]
      BY <1>18, RepliesShape
    <3>1. push'.ids = Ids(Numbers(xs))
      BY <1>p
    <3>2. \A y \in xs : Numbers(xs)[y] # 0
      BY DEF Posting, RemoteId
    <3> QED
      BY <3>1, <3>2, <1>h DEF Ids
  <2>3. disk' = disk /\ saving' = saving /\ mem' = mem
    BY <1>18 DEF PostReplies, local
  <2> QED
    BY <2>1, <2>2, <2>3 DEF Noted, NotedIn, Here
<1>19. CASE RecordIds
  <2>0. push.ids[x] # 0 => Found(x)
    BY <1>19, <1>h DEF RecordIds, Unkept
  <2>1. saving = NoSave /\ saving' = saving /\ mem' = mem
    BY <1>19 DEF RecordIds
  <2>2. CASE Found(x)
    <3>1. disk'.item[x].gh = FoundId(x)
      BY <1>19, <2>2, <1>b, <1>h DEF RecordIds, Copy, File
    <3>2. FoundId(x) # 0
      BY <2>2, <1>h, FoundIsPosted DEF Type
    <3> QED
      BY <3>1, <3>2, <2>1 DEF Noted, NotedIn
  <2>3. CASE ~Found(x)
    <3>1. disk'.item[x] = disk.item[x]
      BY <1>19, <2>3, <1>b, <1>h DEF RecordIds, File
    <3> QED
      BY <2>0, <2>3, <3>1, <2>1 DEF Noted, NotedIn, Here
  <2> QED
    BY <2>2, <2>3
<1>20. CASE RecordHashes
  <2>1. disk'.item[x].gh = disk.item[x].gh /\ disk'.item[x].body = disk.item[x].body
    BY <1>20, <1>b, <1>h DEF RecordHashes, File, Copy
  <2> QED
    BY <1>20, <2>1, <1>k DEF RecordHashes, Noting
<1>21. CASE RecordDeletes
  <2>1. disk'.item = disk.item
    BY <1>21, <1>b DEF RecordDeletes, File
  <2> QED
    BY <1>21, <2>1, <1>k DEF RecordDeletes, Noting
<1>22. CASE PushDies
  <2>1. ~(Noting /\ push.ids[x] # 0)
    BY <1>22, <1>h DEF PushDies, Noting, Unkept
  <2> QED
    BY <1>22, <2>1, <1>j DEF PushDies, local
<1>23. CASE MergePull
  <2>1. disk'.item[x].gh = disk.item[x].gh /\ disk'.item[x].body = disk.item[x].body
    BY <1>23, <1>h, MergeKeeps DEF Type
  <2> QED
    BY <1>23, <2>1, <1>k DEF MergePull
<1>24. CASE UpdateFails
  <2>1. ~(Noting /\ push.ids[x] # 0)
    BY <1>24, <1>h, FailShape DEF Noting, Unkept
  <2> QED
    BY <1>24, <2>1, <1>j, FailShape
<1> QED
   BY <1>1, <1>2, <1>3, <1>4, <1>5, <1>6, <1>7, <1>8, <1>9, <1>10, <1>11,
     <1>12, <1>13, <1>14, <1>15, <1>16, <1>17, <1>18, <1>19, <1>20, <1>21,
     <1>22, <1>23, <1>24 DEF Next, DaemonStep, PushStep, local, ghosts, vars,
     PeerComments, PeerResolves, Outage, Recovers, Fetch

(* A number that changes its author is one that this push has just given,  *)
(* to an item it found unnumbered; its answer has arrived.                 *)
LEMMA PostShape ==
  ASSUME PushAssumption, Type, PlainItems, Turns, TextPosted, Next, NEW g \in RemoteId,
         remote'[g].from # remote[g].from, remote'[g].from \in Item \ lost'
  PROVE  /\ PostReview \/ PostReplies
         /\ remote'[g].from \in Root \cup Reply
         /\ push'.at \in {"replies", "ids"} /\ push'.ids[remote'[g].from] = g
         /\ push.ctx.item[remote'[g].from].body # 0 /\ push.ctx.item[remote'[g].from].gh = 0
         /\ PostReview => push.at = "post"
         /\ PostReplies => push.at = "replies" /\ remote'[g].from \in Reply
<1>c. remote \in [RemoteId -> RemoteComment]
  BY DEF Type, RemoteType
<1>p. push \in [at : Phase, ctx : File, ids : [Item -> 0..MaxRemote], patched : SUBSET Item,
                drained : SUBSET RemoteId, auth : BOOLEAN]
  BY DEF Type, PushType
<1>1. CASE UNCHANGED remote
  BY <1>1
<1>2. CASE PeerComments
  <2>1. remote'[g] = remote[g] \/ remote'[g].from = "peer"
    BY <1>2, <1>c DEF PeerComments
  <2> QED
    BY <2>1 DEF PushAssumption, Item
<1>3. CASE \E h \in RemoteId : PeerResolves(h)
  BY <1>3, <1>c DEF PeerResolves, RemoteComment
<1>4. CASE PatchEdits
  <2> PICK sent \in SUBSET Edited : Sends(sent)
    BY <1>4, PatchShape
  <2> USE DEF Sends
  <2> QED
    BY <1>c DEF RemoteComment
<1>5. CASE DeleteRemote
  <2> PICK gs \in SUBSET push.ctx.pending : \E others \in SUBSET gs :
         remote' = [h \in RemoteId |->
              IF h \in gs \ others THEN [remote[h] EXCEPT !.live = FALSE] ELSE remote[h]]
    BY <1>5, DeleteShape
  <2> QED
    BY <1>c DEF RemoteComment
<1>6. CASE NumbersUnknown \/ AnswerLost
  <2>1. PICK x \in Postable : g = Numbers(Postable)[x] /\ remote'[g].from = x
    BY <1>6, ReviewShape DEF Posting
  <2> QED
    BY <2>1, <1>6 DEF NumbersUnknown, AnswerLost
<1>7. CASE PostReview
  <2>1. Posting(Postable, Numbers(Postable))
    BY <1>7, ReviewShape
  <2>2. PICK x \in Postable : g = Numbers(Postable)[x] /\ remote'[g].from = x
    BY <2>1 DEF Posting
  <2>3. push'.at = "replies" /\ push.at = "post" /\ push'.ids = Ids(Numbers(Postable))
    BY <1>7, <1>p DEF PostReview
  <2>4. push'.ids[x] = g
    BY <2>1, <2>2, <2>3 DEF Ids, Posting, Postable, Comment, Item
  <2> QED
    BY <1>7, <2>1, <2>2, <2>3, <2>4 DEF Posting, PostReplies
<1>8. CASE PostReplies
  <2> PICK xs \in SUBSET NewReplies :
         /\ Posting(xs, Numbers(xs)) /\ DOMAIN Numbers(xs) = xs
         /\ push' = [push EXCEPT !.at = "ids", !.ids = Ids(Numbers(xs)),
                                 !.auth = Refused(NewReplies)]
    BY <1>8, RepliesShape
  <2>2. PICK x \in xs : g = Numbers(xs)[x] /\ remote'[g].from = x
    BY DEF Posting
  <2>3. push'.at = "ids" /\ push.at = "replies" /\ push'.ids = Ids(Numbers(xs))
    BY <1>8, <1>p DEF PostReplies
  <2>5. x \in Reply /\ x \in Item
    BY DEF NewReplies, Item
  <2>4. push'.ids[x] = g
    BY <2>2, <2>3, <2>5 DEF Ids
  <2> QED
    BY <1>8, <2>2, <2>3, <2>4, <2>5 DEF Posting, PostReview
<1> QED
  BY <1>1, <1>2, <1>3, <1>4, <1>5, <1>6, <1>7, <1>8
     DEF Next, DaemonStep, PushStep, local, Edit, Resolve, Delete, AgentReply, SaveStarts,
         SaveEnds, Reload, Restart, Outage, Recovers, PushStarts, PostNothing, PostFails,
         RecordIds, RecordHashes, RecordDeletes, PushDies, Fetch, MergePull, UpdateFails

(* Whatever is on GitHub and not lost is noted.                            *)
LEMMA PostedIsNotedStep ==
  ASSUME PushAssumption, Type, PlainItems, Turns, TextPosted, SameNumber, PostedIsNoted, Next
  PROVE  PostedIsNoted'
<1> SUFFICES ASSUME NEW g \in RemoteId, NEW x \in Item \ lost', remote'[g].from = x
             PROVE  Noted(x)'
  BY DEF PostedIsNoted
<1>1. CASE remote[g].from = x
  <2>1. x \in Root \cup Reply
    BY <1>1 DEF Type, RemoteType, RemoteComment, From, PushAssumption, Item
  <2>2. Noted(x)
    BY <1>1, LostGrows DEF PostedIsNoted
  <2> QED
    BY <1>1, <2>1, <2>2, NotedStays
<1>2. CASE remote[g].from # x
  <2>1. push'.at \in {"replies", "ids"} /\ push'.ids[x] = g
    BY <1>2, PostShape
  <2> QED
    BY <2>1 DEF Noted, Noting, RemoteId
<1> QED
  BY <1>1, <1>2

(* What a push is about to post is not on GitHub yet: the file it has read *)
(* would have the number.                                                  *)
LEMMA ToPostStep ==
  ASSUME PushAssumption, Type, PlainItems, Turns, TextPosted, SameNumber, PostedIsNoted, ToPost,
         Next
  PROVE  ToPost'
<1> SUFFICES ASSUME NEW x \in Item \ lost', NEW g \in RemoteId, remote'[g].from = x,
                    push'.ctx.item[x].body # 0, push'.ctx.item[x].gh = 0,
                    push'.at = "post" \/ (push'.at = "replies" /\ x \in Reply)
             PROVE  FALSE
  BY DEF ToPost, NotPosted
<1>p. push \in [at : Phase, ctx : File, ids : [Item -> 0..MaxRemote], patched : SUBSET Item,
                drained : SUBSET RemoteId, auth : BOOLEAN]
  BY DEF Type, PushType
<1>l. x \notin lost
  BY LostGrows
<1>1. CASE PushStarts
  <2>1. push'.ctx = disk /\ remote' = remote /\ push.at = "off" /\ mem' = mem
    BY <1>1 DEF PushStarts, NoPush, local
  <2>2. Noted(x)
    BY <1>l, <2>1 DEF PostedIsNoted
  <2> QED
    BY <2>1, <2>2 DEF Noted, NotedIn, Noting
<1>2. CASE push'.at = push.at /\ push'.ctx = push.ctx
  <2>1. remote[g].from # x
    BY <1>l, <1>2 DEF ToPost, NotPosted
  <2>2. PostReview \/ PostReplies
    BY <2>1, PostShape
  <2> QED
    BY <1>2, <2>2, <1>p, RepliesShape DEF PostReview, PostReplies
<1>3. CASE PostNothing \/ PostReview \/ NumbersUnknown
  <2>1. push.at = "post" /\ push'.at = "replies" /\ push'.ctx = push.ctx
    BY <1>3, <1>p DEF PostNothing, PostReview, NumbersUnknown
  <2>2. remote[g].from # x
    BY <1>l, <2>1 DEF ToPost, NotPosted
  <2>3. PostReview
    BY <2>1, <2>2, PostShape DEF PostReplies
  <2>4. x \in Postable
    BY <2>2, <2>3, ReviewShape DEF Posting
  <2> QED
    BY <2>1, <2>4 DEF Postable, Comment, PushAssumption
<1>4. CASE push'.at \notin {"post", "replies"}
  BY <1>4
<1>5. CASE UNCHANGED push
  BY <1>2, <1>5
<1>6. CASE PostFails \/ RecordIds \/ RecordHashes \/ RecordDeletes \/ AnswerLost \/ PushDies
         \/ UpdateFails
  <2>1. push' = NoPush \/ \E at \in {"edits", "deletes"} : push' = [push EXCEPT !.at = at]
    BY <1>6, FailShape DEF PostFails, RecordIds, AfterIds, RecordHashes, AfterHashes, RecordDeletes,
       AnswerLost, PushDies
  <2> QED
    BY <2>1, <1>4, <1>p DEF NoPush
<1>7. CASE PostReplies \/ PatchEdits \/ DeleteRemote
  BY <1>7, <1>4, <1>p, RepliesShape, PatchShape, DeleteShape DEF Sends
<1> QED
  BY <1>1, <1>3, <1>5, <1>6, <1>7
     DEF Next, DaemonStep, PushStep, local, ghosts, Edit, Resolve, Delete, AgentReply, SaveStarts,
         SaveEnds, Reload, Restart, Outage, Recovers, PeerComments, PeerResolves, Fetch,
         MergePull

(* So nothing is posted twice.                                             *)
LEMMA PostedOnceStep ==
  ASSUME PushAssumption, Type, PlainItems, Turns, TextPosted, SameNumber, ToPost, PostedOnce, Next
  PROVE  PostedOnce'
<1> SUFFICES ASSUME NEW g \in RemoteId, NEW h \in RemoteId, remote'[g].from \in Item \ lost',
                    remote'[g].from = remote'[h].from
             PROVE  g = h
  BY DEF PostedOnce
<1>l. lost \subseteq lost'
  BY LostGrows
<1>1. CASE remote'[g].from = remote[g].from /\ remote'[h].from = remote[h].from
  BY <1>1, <1>l DEF PostedOnce
<1>2. ASSUME NEW a \in RemoteId, NEW b \in RemoteId, remote'[a].from = remote'[b].from,
             remote'[a].from \in Item \ lost', remote'[a].from # remote[a].from,
             remote'[b].from = remote[b].from
      PROVE  FALSE
  <2>1. /\ push.at = "post" \/ (push.at = "replies" /\ remote'[a].from \in Reply)
        /\ push.ctx.item[remote'[a].from].body # 0 /\ push.ctx.item[remote'[a].from].gh = 0
    BY <1>2, PostShape
  <2> QED
    BY <2>1, <1>2, <1>l DEF ToPost, NotPosted
<1>3. CASE remote'[g].from # remote[g].from /\ remote'[h].from # remote[h].from
  BY <1>3, PostShape
<1> QED
  BY <1>1, <1>2, <1>3

(* The queue of deletes: the file's is contained in what memory loaded and *)
(* in what memory has queued, so a save drops nothing from it; what memory *)
(* has queued since is in the next save; and a push drains only what is    *)
(* gone from GitHub or no longer wanted. Hence no delete is forgotten.     *)
LEMMA QueueStep ==
  ASSUME PushAssumption, Type, PlainItems, Turns, Queue, DeleteNotLost, Next
  PROVE  Queue' /\ DeleteNotLost'
<1>a. /\ mem \in [item : Items, pending : SUBSET RemoteId, loaded : SUBSET RemoteId,
                  tomb : SUBSET Item, dirty : BOOLEAN]
      /\ mem.item \in [Item -> Copy]
  BY Blank DEF Type, MemType
<1>b. disk \in File /\ disk.item \in [Item -> Copy]
  BY Blank DEF Type, DiskType, File
<1>p. push \in [at : Phase, ctx : File, ids : [Item -> 0..MaxRemote], patched : SUBSET Item,
                drained : SUBSET RemoteId, auth : BOOLEAN]
  BY DEF Type, PushType
<1>n. /\ NoPush.at = "off" /\ NoPush.auth = FALSE /\ NoPush.ids = NoIds
      /\ NoPush.patched = {} /\ NoPush.drained = {} /\ NoPush.ctx = NoFile
  BY DEF NoPush
<1>c. remote \in [RemoteId -> RemoteComment] /\ wanted \in SUBSET Used
  BY DEF Type, RemoteType, GhostType
<1>e. ASSUME mem'.pending = mem.pending, mem'.loaded = mem.loaded, disk'.pending = disk.pending,
             saving' = saving, push' = push, wanted' = wanted, slipped' = slipped,
             ~mem'.dirty /\ saving = NoSave => ~mem.dirty,
             \A g \in wanted : Live(g)' => Live(g)
      PROVE  Queue' /\ DeleteNotLost'
  BY <1>e DEF Queue, DeleteNotLost
<1>f. ASSUME mem' = mem, disk'.pending = disk.pending, saving' = saving, wanted' = wanted,
             slipped' = slipped, push'.at # "drain",
             push'.at # "off" => push'.ctx.pending \subseteq disk.pending \cup slipped,
             \A g \in wanted : Live(g)' => Live(g)
      PROVE  Queue' /\ DeleteNotLost'
  BY <1>f DEF Queue, DeleteNotLost
<1>g. ASSUME push'.at # "off", push'.ctx = push.ctx, push.at # "off"
      PROVE  push'.ctx.pending \subseteq disk.pending \cup slipped
  BY <1>g DEF Queue
<1>i. ASSUME NEW xs, NEW f, Posting(xs, f) PROVE \A g \in wanted : Live(g)' => Live(g)
  BY <1>i, <1>c DEF Posting, Used, Live

<1>1. CASE UNCHANGED <<disk, mem, saving, remote, push, wanted, slipped>>
  BY <1>1 DEF Queue, DeleteNotLost, Live
<1>2. CASE \E x \in Item : Edit(x)
  <2>1. mem'.pending = mem.pending /\ mem'.loaded = mem.loaded /\ mem'.dirty
    BY <1>2, <1>a DEF Edit
  <2> QED
    BY <1>2, <2>1, <1>e DEF Edit, ghosts, Live
<1>3. CASE \E x \in Item : Resolve(x)
  <2>1. mem'.pending = mem.pending /\ mem'.loaded = mem.loaded /\ mem'.dirty
    BY <1>3, <1>a DEF Resolve
  <2> QED
    BY <1>3, <2>1, <1>e DEF Resolve, ghosts, Live
<1>4. CASE \E x \in Item : Delete(x)
  <2> PICK x \in Item : Delete(x)
    BY <1>4
  <2> DEFINE g == mem.item[x].gh
  <2>1. /\ mem'.pending = mem.pending \cup ({g} \ {0}) /\ mem'.loaded = mem.loaded /\ mem'.dirty
        /\ wanted' = wanted \cup ({g} \ {0})
        /\ slipped' = slipped \cup IF saving = NoSave /\ g \notin mem.loaded THEN {} ELSE {g} \ {0}
        /\ disk' = disk /\ saving' = saving /\ push' = push /\ remote' = remote
    BY <1>a DEF Delete, QueueDelete, local
  <2> HIDE DEF g
  <2>2. disk.pending \subseteq mem.loaded /\ disk.pending \subseteq mem.pending
    BY DEF Queue
  <2>3. saving # NoSave =>
          /\ disk.pending \subseteq saving.pending
          /\ saving.pending \subseteq disk.pending \cup (mem'.pending \ mem.loaded)
          /\ mem'.pending \ mem.loaded \subseteq saving.pending \cup slipped'
    BY <2>1 DEF Queue
  <2>4. push.at = "drain" =>
          /\ push.drained \subseteq push.ctx.pending
          /\ \A h \in push.drained : h \in wanted' => ~Live(h) \/ h \in slipped'
    BY <2>1, <2>2 DEF Queue
  <2>5. push.at # "off" => push.ctx.pending \subseteq disk.pending \cup slipped'
    BY <2>1 DEF Queue
  <2>6. Queue'
    BY <2>1, <2>2, <2>3, <2>4, <2>5 DEF Queue, Live
  <2>7. DeleteNotLost'
    BY <2>1 DEF DeleteNotLost, Live
  <2> QED
    BY <2>6, <2>7
<1>5. CASE \E r \in Reply : AgentReply(r)
  BY <1>5, <1>b, <1>e DEF AgentReply, File, ghosts, Live
<1>6. CASE SaveStarts
  <2>1. /\ saving'.pending = ReconcilePending /\ saving = NoSave /\ mem.dirty
        /\ mem'.pending = mem.pending /\ mem'.loaded = mem.loaded
    BY <1>6, <1>a DEF SaveStarts
  <2>2. disk' = disk /\ push' = push /\ remote' = remote /\ wanted' = wanted /\ slipped' = slipped
    BY <1>6 DEF SaveStarts
  <2>3. saving' # NoSave
    <3>1. 0 \notin saving'.pending
      BY <2>1, <1>a DEF ReconcilePending, RemoteId
    <3> QED
      BY <3>1 DEF NoSave, NoFile
  <2>4. disk.pending \subseteq mem.loaded /\ disk.pending \subseteq mem.pending
    BY DEF Queue
  <2>5. /\ disk.pending \subseteq saving'.pending
        /\ saving'.pending \subseteq disk.pending \cup (mem.pending \ mem.loaded)
        /\ mem.pending \ mem.loaded \subseteq saving'.pending
    BY <2>1, <2>4 DEF ReconcilePending
  <2>6. Queue'
    BY <2>1, <2>2, <2>3, <2>4, <2>5 DEF Queue, Live
  <2>7. DeleteNotLost'
    BY <2>1, <2>2, <2>3, <2>5 DEF DeleteNotLost, Live
  <2> QED
    BY <2>6, <2>7
<1>7. CASE SaveEnds
  <2> DEFINE queue == IF NoItems(saving) THEN {} ELSE saving.pending
  <2>0. saving \in File /\ queue \subseteq saving.pending
    BY <1>7 DEF SaveEnds, Type, SavingType
  <2>1. /\ disk'.pending = queue /\ saving # NoSave /\ saving' = NoSave
        /\ mem'.pending = queue /\ mem'.loaded = queue /\ mem'.dirty = mem.dirty
        /\ push' = push /\ remote' = remote /\ wanted' = wanted
        /\ slipped' = slipped \cup (saving.pending \ queue)
    BY <1>7, <2>0, <1>a DEF SaveEnds, File
  <2> HIDE DEF queue
  <2>2. /\ disk.pending \subseteq saving.pending
        /\ mem.pending \ mem.loaded \subseteq saving.pending \cup slipped
    BY <2>1 DEF Queue
  <2>3. push.at # "off" => push.ctx.pending \subseteq queue \cup slipped'
    BY <2>1, <2>2 DEF Queue
  <2>4. push.at = "drain" =>
          /\ push.drained \subseteq push.ctx.pending
          /\ \A g \in push.drained : g \in wanted => ~Live(g) \/ g \in slipped'
    BY <2>1 DEF Queue
  <2>6. Queue'
    BY <2>1, <2>3, <2>4 DEF Queue, Live
  <2>7. DeleteNotLost'
    BY <2>0, <2>1, <2>2 DEF DeleteNotLost, Live
  <2> QED
    BY <2>6, <2>7
<1>8. CASE Reload
  <2>1. mem'.pending = mem.pending /\ mem'.loaded = mem.loaded /\ mem'.dirty = mem.dirty
    BY <1>8, <1>a DEF Reload
  <2> QED
    BY <1>8, <2>1, <1>e DEF Reload, ghosts, Live
<1>9. CASE Restart
  <2>1. /\ mem'.pending = disk.pending /\ mem'.loaded = disk.pending /\ saving = NoSave
        /\ mem.pending \subseteq mem.loaded /\ saving' = saving /\ disk' = disk
        /\ push' = push /\ remote' = remote /\ wanted' = wanted /\ slipped' = slipped
    BY <1>9 DEF Restart, ghosts, Queue
  <2>6. Queue'
    BY <2>1 DEF Queue, Live
  <2>7. DeleteNotLost'
    BY <2>1 DEF DeleteNotLost, Live
  <2> QED
    BY <2>6, <2>7
<1>10. CASE PeerComments
  <2>1. \A g \in wanted : remote'[g] = remote[g]
    BY <1>10, <1>c DEF PeerComments, Used
  <2> QED
    BY <1>10, <2>1, <1>e DEF PeerComments, ghosts, Live
<1>11. CASE \E g \in RemoteId : PeerResolves(g)
  <2>1. \A g \in wanted : remote'[g].live = remote[g].live
    BY <1>11, <1>c DEF PeerResolves, RemoteComment, Used
  <2> QED
    BY <1>11, <2>1, <1>e DEF PeerResolves, ghosts, Live
<1>12. CASE PushStarts
  BY <1>12, <1>f DEF PushStarts, NoPush, local, ghosts, Live
<1>13. CASE PostNothing
  <2>1. push'.at # "off" => push'.ctx = push.ctx /\ push.at # "off"
    BY <1>13, <1>p, <1>n DEF PostNothing
  <2>2. push'.at # "drain"
    BY <1>13, <1>p, <1>n DEF PostNothing
  <2>3. mem' = mem /\ saving' = saving /\ wanted' = wanted /\ slipped' = slipped /\ remote' = remote
        /\ disk'.pending = disk.pending
    BY <1>13, <1>b DEF PostNothing, local, ghosts, File
  <2> QED
    BY <2>1, <2>2, <2>3, <1>f, <1>g DEF Live
<1>14. CASE PostFails
  <2>1. push'.at # "off" => push'.ctx = push.ctx /\ push.at # "off"
    BY <1>14, <1>p, <1>n DEF PostFails
  <2>2. push'.at # "drain"
    BY <1>14, <1>p, <1>n DEF PostFails
  <2>3. mem' = mem /\ saving' = saving /\ wanted' = wanted /\ slipped' = slipped /\ remote' = remote
        /\ disk'.pending = disk.pending
    BY <1>14, <1>b DEF PostFails, local, ghosts, File
  <2> QED
    BY <2>1, <2>2, <2>3, <1>f, <1>g DEF Live
<1>15. CASE RecordIds
  <2>1. push'.at # "off" => push'.ctx = push.ctx /\ push.at # "off"
    BY <1>15, <1>p, <1>n DEF RecordIds, AfterIds
  <2>2. push'.at # "drain"
    BY <1>15, <1>p, <1>n DEF RecordIds, AfterIds
  <2>3. mem' = mem /\ saving' = saving /\ wanted' = wanted /\ slipped' = slipped /\ remote' = remote
        /\ disk'.pending = disk.pending
    BY <1>15, <1>b DEF RecordIds, local, ghosts, File
  <2> QED
    BY <2>1, <2>2, <2>3, <1>f, <1>g DEF Live
<1>16. CASE RecordHashes
  <2>1. push'.at # "off" => push'.ctx = push.ctx /\ push.at # "off"
    BY <1>16, <1>p, <1>n DEF RecordHashes, AfterHashes
  <2>2. push'.at # "drain"
    BY <1>16, <1>p, <1>n DEF RecordHashes, AfterHashes
  <2>3. mem' = mem /\ saving' = saving /\ wanted' = wanted /\ slipped' = slipped /\ remote' = remote
        /\ disk'.pending = disk.pending
    BY <1>16, <1>b DEF RecordHashes, local, ghosts, File
  <2> QED
    BY <2>1, <2>2, <2>3, <1>f, <1>g DEF Live
<1>17. CASE PushDies
  <2>1. push'.at # "off" => push'.ctx = push.ctx /\ push.at # "off"
    BY <1>17, <1>p, <1>n DEF PushDies
  <2>2. push'.at # "drain"
    BY <1>17, <1>p, <1>n DEF PushDies
  <2>3. mem' = mem /\ saving' = saving /\ wanted' = wanted /\ slipped' = slipped /\ remote' = remote
        /\ disk'.pending = disk.pending
    BY <1>17, <1>b DEF PushDies, local, ghosts, File
  <2> QED
    BY <2>1, <2>2, <2>3, <1>f, <1>g DEF Live
<1>18. CASE PostReview
  <2>1. push'.at # "off" /\ push'.at # "drain" /\ push'.ctx = push.ctx /\ push.at # "off"
    BY <1>18, <1>p DEF PostReview
  <2>2. \A g \in wanted : Live(g)' => Live(g)
    BY <1>18, <1>i, ReviewShape
  <2>3. mem' = mem /\ saving' = saving /\ wanted' = wanted /\ slipped' = slipped /\ disk' = disk
    BY <1>18 DEF PostReview, local, ghosts
  <2> QED
    BY <2>1, <2>2, <2>3, <1>f, <1>g
<1>19. CASE NumbersUnknown
  <2>1. push'.at # "off" /\ push'.at # "drain" /\ push'.ctx = push.ctx /\ push.at # "off"
    BY <1>19, <1>p DEF NumbersUnknown
  <2>2. \A g \in wanted : Live(g)' => Live(g)
    BY <1>19, <1>i, ReviewShape
  <2>3. mem' = mem /\ saving' = saving /\ wanted' = wanted /\ slipped' = slipped /\ disk' = disk
    BY <1>19 DEF NumbersUnknown, local, ghosts
  <2> QED
    BY <2>1, <2>2, <2>3, <1>f, <1>g
<1>20. CASE AnswerLost
  <2>1. push'.at # "off" /\ push'.at # "drain" /\ push'.ctx = push.ctx /\ push.at # "off"
    BY <1>20, <1>p DEF AnswerLost
  <2>2. \A g \in wanted : Live(g)' => Live(g)
    BY <1>20, <1>i, ReviewShape
  <2>3. mem' = mem /\ saving' = saving /\ wanted' = wanted /\ slipped' = slipped /\ disk' = disk
    BY <1>20 DEF AnswerLost, local, ghosts
  <2> QED
    BY <2>1, <2>2, <2>3, <1>f, <1>g
<1>21. CASE PostReplies
  <2>1. push'.at # "off" /\ push'.at # "drain" /\ push'.ctx = push.ctx /\ push.at # "off"
    BY <1>21, <1>p, RepliesShape DEF PostReplies
  <2>2. \A g \in wanted : Live(g)' => Live(g)
    BY <1>21, <1>i, RepliesShape
  <2>3. mem' = mem /\ saving' = saving /\ wanted' = wanted /\ slipped' = slipped /\ disk' = disk
    BY <1>21 DEF PostReplies, local, ghosts
  <2> QED
    BY <2>1, <2>2, <2>3, <1>f, <1>g
<1>22. CASE PatchEdits
  <2> PICK sent \in SUBSET Edited : Sends(sent)
    BY <1>22, PatchShape
  <2> USE DEF Sends
  <2>1. push'.at # "off" /\ push'.at # "drain" /\ push'.ctx = push.ctx /\ push.at # "off"
    BY <1>22, <1>p DEF PatchEdits
  <2>2. \A g \in wanted : Live(g)' => Live(g)
    BY <1>c DEF RemoteComment, Used, Live
  <2>3. mem' = mem /\ saving' = saving /\ wanted' = wanted /\ slipped' = slipped /\ disk' = disk
    BY <1>22 DEF PatchEdits, local, ghosts
  <2> QED
    BY <2>1, <2>2, <2>3, <1>f, <1>g
<1>23. CASE DeleteRemote
  <2> PICK gs \in SUBSET push.ctx.pending : \E others \in SUBSET gs :
         /\ remote' = [g \in RemoteId |->
              IF g \in gs \ others THEN [remote[g] EXCEPT !.live = FALSE] ELSE remote[g]]
         /\ wanted' = wanted \ others
         /\ push' = [push EXCEPT !.at = "drain", !.drained = gs]
    BY <1>23, DeleteShape
  <2> PICK others \in SUBSET gs :
         /\ remote' = [g \in RemoteId |->
              IF g \in gs \ others THEN [remote[g] EXCEPT !.live = FALSE] ELSE remote[g]]
         /\ wanted' = wanted \ others
    OBVIOUS
  <2>1. push'.at = "drain" /\ push'.drained = gs /\ push'.ctx = push.ctx /\ push.at # "off"
    BY <1>23, <1>p DEF DeleteRemote
  <2>2. disk' = disk /\ mem' = mem /\ saving' = saving /\ slipped' = slipped
    BY <1>23 DEF DeleteRemote, local
  <2>3. gs \subseteq RemoteId
    BY <1>p DEF File
  <2>4. \A g \in gs : g \in wanted' => ~Live(g)'
    BY <2>3, <1>c DEF Live, RemoteComment
  <2>5. \A g \in wanted : Live(g)' => Live(g)
    BY <1>c DEF Live, RemoteComment, Used
  <2>6. Queue'
    BY <2>1, <2>2, <2>4 DEF Queue
  <2>7. DeleteNotLost'
    BY <2>2, <2>5 DEF DeleteNotLost
  <2> QED
    BY <2>6, <2>7
<1>24. CASE RecordDeletes
  <2>1. push.at = "drain" /\ push'.at = "off" /\ disk'.pending = disk.pending \ push.drained
    BY <1>24, <1>b, <1>n DEF RecordDeletes, File
  <2>2. /\ mem' = mem /\ saving = NoSave /\ saving' = saving /\ wanted' = wanted
        /\ slipped' = slipped /\ remote' = remote
    BY <1>24 DEF RecordDeletes, ghosts
  <2>6. Queue'
    BY <2>1, <2>2 DEF Queue
  <2>7. DeleteNotLost'
    BY <2>1, <2>2 DEF Queue, DeleteNotLost, Live
  <2> QED
    BY <2>6, <2>7
<1>25. CASE MergePull
  BY <1>25, <1>b, <1>e DEF MergePull, File, ghosts, Live
<1>26. CASE UpdateFails
  <2>1. push'.at # "off" => push'.ctx = push.ctx /\ push.at # "off"
    BY <1>26, <1>p, <1>n, FailShape
  <2>2. push'.at # "drain"
    BY <1>26, <1>p, <1>n, FailShape
  <2> QED
    BY <1>26, <2>1, <2>2, <1>f, <1>g, FailShape DEF Live
<1> QED
   BY <1>1, <1>2, <1>3, <1>4, <1>5, <1>6, <1>7, <1>8, <1>9, <1>10, <1>11,
     <1>12, <1>13, <1>14, <1>15, <1>16, <1>17, <1>18, <1>19, <1>20, <1>21,
     <1>22, <1>23, <1>24, <1>25, <1>26 DEF Next, DaemonStep, PushStep, local,
     ghosts, vars, Outage, Recovers, Fetch

(* At the start nothing is under way and what counts as pushed is on       *)
(* GitHub.                                                                 *)
LEMMA InitInv ==
  ASSUME PushAssumption, Init
  PROVE  Inv
<1> PICK known \in SUBSET Root : \E f \in Injection(known, 1..Cardinality(known)) : Given(f)
  BY DEF Init
<1> PICK f \in Injection(known, 1..Cardinality(known)) : Given(f)
  OBVIOUS
<1>1. f \in [known -> RemoteId] /\ \A x, y \in known : f[x] = f[y] => x = y
  <2>1. IsFiniteSet(known) /\ Cardinality(known) \in Nat /\ Cardinality(known) <= Cardinality(Root)
        /\ Cardinality(Root) \in Nat
    BY FS_Subset, FS_CardinalityType DEF PushAssumption
  <2>2. \A n \in 1..Cardinality(known) : n \in RemoteId
    BY <2>1 DEF RemoteId, PushAssumption
  <2> QED
    BY <2>2 DEF Injection, IsInjective
<1>2. /\ disk.item = [x \in Item |-> IF x \in known THEN Pushed(f[x])
                                   ELSE IF x \in Root THEN Written(1) ELSE Absent]
      /\ disk = [item |-> disk.item, pending |-> {}]
  BY <1>1 DEF Given
<1> DEFINE own(x) == [from |-> x, body |-> 1, parent |-> 0, live |-> TRUE, resolved |-> FALSE]
<1>3. \A g \in RemoteId :
        IF \E x \in known : f[x] = g THEN \E x \in known : f[x] = g /\ remote[g] = own(x)
                                     ELSE remote[g] = NoRemote
  BY <1>1 DEF Given
<1>4. remote = [g \in RemoteId |-> remote[g]]
  BY DEF Given
<1> HIDE DEF Given
<1>5. ASSUME NEW g \in RemoteId PROVE Pushed(g) \in Copy
  BY <1>5 DEF Pushed, Copy, RemoteId, PushAssumption
<1>6. disk.item \in [Item -> Copy]
  BY <1>1, <1>2, <1>5, Blank
<1>7. DiskType
  BY <1>2, <1>6, Blank DEF DiskType, File
<1>8. MemType /\ mem.item = disk.item /\ mem.pending = {} /\ mem.loaded = {}
  BY <1>6, Blank DEF Init, MemType
<1>9. /\ NoRemote \in RemoteComment /\ NoRemote.body = 0 /\ NoRemote.from = "none" /\ ~NoRemote.live
      /\ \A x \in Root : /\ own(x) \in RemoteComment /\ own(x).from = x /\ own(x).body = 1
                         /\ x # "none"
  <2>1. FALSE \in BOOLEAN /\ TRUE \in BOOLEAN /\ 0 \in 0..MaxRemote /\ "none" \in From
        /\ \A x \in Root : x \in From /\ x # "none"
    BY DEF PushAssumption, From
  <2>2. NoRemote \in RemoteComment
    BY <2>1 DEF NoRemote, RemoteComment
  <2>3. \A x \in Root : own(x) \in RemoteComment
    BY <2>1 DEF RemoteComment
  <2> QED
    BY <2>1, <2>2, <2>3 DEF NoRemote
<1> HIDE DEF own
<1>10. remote \in [RemoteId -> RemoteComment]
  BY <1>3, <1>4, <1>9
<1>11. RemoteType
  BY <1>3, <1>9, <1>10 DEF RemoteType
<1>12. \A x \in Item : disk.item[x].gh # 0 =>
          /\ x \in known /\ disk.item[x].gh = f[x] /\ disk.item[x].hash = 1
          /\ remote[f[x]].from = x /\ remote[f[x]].body = 1
  BY <1>1, <1>2, <1>3, <1>9 DEF Absent, Written, Pushed
<1>13. \A g \in RemoteId : remote[g].from \in Item =>
          /\ remote[g].from \in known /\ f[remote[g].from] = g
          /\ disk.item[remote[g].from].gh = g
  BY <1>1, <1>2, <1>3, <1>9 DEF Pushed, PushAssumption, Item
<1>14. /\ saving = NoSave /\ push = NoPush /\ pull = NoPull /\ github = "ok"
       /\ lost = {} /\ drift = {} /\ wanted = {} /\ slipped = {}
  BY DEF Init
<1>15. Type
  <2>1. PushType
    BY <1>14, Blank DEF PushType, NoPush, Phase
  <2>2. PullType
    BY <1>9, <1>14 DEF PullType, NoPull
  <2> QED
    BY <1>7, <1>8, <1>11, <1>14, <2>1, <2>2 DEF Type, SavingType, GhostType
<1>16. PlainItems
  <2>1. \A x \in Item : NoSave.item[x] = Absent /\ NoPush.ctx.item[x] = Absent
    BY Blank DEF NoPush, NoFile
  <2>2. \A x : Plain(Absent, x \in Import, Used)
    BY DEF Plain, Absent
  <2>3. ASSUME NEW x \in Item PROVE Plain(disk.item[x], x \in Import, Used)
    <3>1. CASE x \in known
      BY <3>1, <1>1, <1>2, <1>12 DEF Plain, Pushed, Used, RemoteId, PushAssumption
    <3>2. CASE x \notin known /\ x \in Root
      BY <3>2, <1>2 DEF Plain, Written, Absent, PushAssumption
    <3>3. CASE x \notin Root
      BY <3>3, <2>2, <1>2
    <3> QED
      BY <3>1, <3>2, <3>3
  <2> QED
    BY <2>1, <2>2, <2>3, <1>8, <1>14 DEF PlainItems, AllPlain
<1>17. Queue /\ DeleteNotLost
  BY <1>2, <1>8, <1>14 DEF Queue, DeleteNotLost, NoPush
<1>18. SameNumber
  BY <1>8, <1>14 DEF SameNumber
<1>19. Turns /\ TextSent /\ TextPosted /\ ToPost
  BY <1>14 DEF Turns, TextSent, TextPosted, ToPost, Noting, NoPush
<1>20. TextKnown
  BY <1>12 DEF TextKnown
<1>21. PostedIsNoted
  BY <1>13, <1>14 DEF PostedIsNoted, Noted, NotedIn, RemoteId
<1>22. PostedOnce
  BY <1>13 DEF PostedOnce
<1> QED
  BY <1>15, <1>16, <1>17, <1>18, <1>19, <1>20, <1>21, <1>22 DEF Inv

(* Every step keeps the invariant.                                         *)
LEMMA NextInv ==
  ASSUME PushAssumption, Inv, [Next]_vars
  PROVE  Inv'
<1>1. CASE Next
  <2> USE <1>1 DEF Inv
  <2>1. Type'
    BY DiskTypeStep, MemTypeStep, SavingTypeStep, RemoteTypeStep, PushTypeStep, PullTypeStep,
       GhostTypeStep DEF Type
  <2> QED
    BY <2>1, PlainStep, QueueStep, SameNumberStep, TurnsStep, TextKnownStep, TextSentStep,
       TextPostedStep, PostedIsNotedStep, PostedOnceStep, ToPostStep
<1>2. CASE UNCHANGED vars
  <2> USE <1>2 DEF Inv, vars
  <2>1. Type'
    BY DEF Type, DiskType, MemType, SavingType, RemoteType, PushType, PullType, GhostType, Used
  <2>2. PlainItems'
    BY DEF PlainItems, AllPlain, Plain, Used
  <2>6. SameNumber' /\ Turns'
    BY DEF SameNumber, Turns
  <2>3. Queue' /\ DeleteNotLost'
    BY DEF Queue, DeleteNotLost, Live
  <2>4. TextKnown' /\ TextSent' /\ TextPosted'
    BY DEF TextKnown, Sent, TextSent, TextPosted, Noting
  <2>5. PostedIsNoted' /\ PostedOnce' /\ ToPost'
    BY DEF PostedIsNoted, Noted, NotedIn, Noting, Here, PostedOnce, ToPost, NotPosted
  <2> QED
    BY <2>1, <2>2, <2>3, <2>4, <2>5, <2>6
<1> QED
  BY <1>1, <1>2

(* The invariant is as strong as RemoteInStep.                             *)
LEMMA InvInStep ==
  ASSUME PushAssumption, Inv
  PROVE  RemoteInStep
<1> USE DEF Inv
<1>1. TypeOK
  <2>1. Used \subseteq RemoteId
    BY DEF Used
  <2> QED
    BY <2>1 DEF TypeOK, Type, DiskType, MemType, SavingType, PushType, GhostType, Phase
<1>2. PushIsIdempotent
  <2> SUFFICES ASSUME NEW g \in Used, NEW h \in Used, g # h, remote[g].from = remote[h].from,
                      remote[g].from # "peer", remote[g].from \notin lost
               PROVE  FALSE
    BY DEF PushIsIdempotent
  <2>1. g \in RemoteId /\ h \in RemoteId /\ remote[g].from \in From /\ remote[g].from # "none"
    BY DEF Used, Type, RemoteType, RemoteComment
  <2> QED
    BY <2>1 DEF PostedOnce, From, Item
<1>3. InSync
  BY DEF InSync, TextKnown
<1> QED
  BY <1>1, <1>2, <1>3 DEF RemoteInStep

(* In every state of every run, whatever the pull request, the reviewer,   *)
(* the agent and the daemon do: nothing is on the pull request twice, an   *)
(* item whose recorded text is its own has that text on GitHub, and no     *)
(* delete is forgotten, up to the exceptions that the properties name.     *)
THEOREM RemoteStaysInStep == Spec => []RemoteInStep
<1>1. Init => Inv
  BY InitInv, PushAssumption
<1>2. Inv /\ [Next]_vars => Inv'
  BY NextInv, PushAssumption
<1>3. Inv => RemoteInStep
  BY InvInStep, PushAssumption
<1> QED
  BY <1>1, <1>2, <1>3, PTL DEF Spec

(* What a save adds to the file's queue is not what the daemon had loaded  *)
(* from it.                                                                *)
LEMMA DrainedStep ==
  ASSUME PushAssumption, Inv, Next, NEW g \in disk'.pending \ disk.pending
  PROVE  g \notin mem.loaded
<1>b. disk \in File
  BY DEF Inv, Type, DiskType
<1>1. CASE SaveEnds
  <2>1. disk'.pending \subseteq saving.pending /\ saving # NoSave
    BY <1>1 DEF SaveEnds, Inv, Type, SavingType, File
  <2> QED
    BY <2>1 DEF Inv, Queue
<1>2. CASE \E r \in Reply : AgentReply(r)
  BY <1>2, <1>b DEF AgentReply, File
<1>3. CASE RecordIds \/ RecordHashes \/ RecordDeletes
  BY <1>3, <1>b DEF RecordIds, RecordHashes, RecordDeletes, File
<1>4. CASE MergePull
  BY <1>4, <1>b DEF MergePull, File
<1> QED
  BY <1>1, <1>2, <1>3, <1>4
     DEF Next, DaemonStep, PushStep, local, Edit, Resolve, Delete, SaveStarts, Reload, Restart,
         Outage, Recovers, PeerComments, PeerResolves, PushStarts, PostNothing, PostReview,
         PostFails, PostReplies, PatchEdits, DeleteRemote, NumbersUnknown, AnswerLost, PushDies,
         Fetch, UpdateFails

(* While a refused token is known, GitHub changes only by what others do.  *)
LEMMA RefusedStep ==
  ASSUME PushAssumption, Inv, Next, push.auth, remote' # remote
  PROVE  push' = push
<1>1. push.at \in {"ids", "hashes"}
  BY DEF Inv, Turns
<1> QED
  BY <1>1 DEF Next, DaemonStep, PushStep, local, ghosts, Edit, Resolve, Delete, AgentReply,
     SaveStarts, SaveEnds, Reload, Restart, Outage, Recovers, PeerComments, PeerResolves,
     PushStarts, PostNothing, PostReview, PostFails, PostReplies, RecordIds, PatchEdits,
     RecordHashes, DeleteRemote, RecordDeletes, NumbersUnknown, AnswerLost, PushDies, Fetch,
     MergePull, UpdateFails

(* A merge keeps the text of every comment that was there, and reopens     *)
(* none.                                                                   *)
LEMMA PullStep ==
  ASSUME PushAssumption, Inv, Next, pull.on, ~pull'.on, NEW x \in Item, Here(disk.item, x)
  PROVE  /\ disk'.item[x].body = disk.item[x].body
         /\ disk.item[x].resolved => disk'.item[x].resolved
<1>b. disk \in File /\ disk.item \in [Item -> Copy]
  BY Blank DEF Inv, Type, DiskType, File
<1>1. CASE MergePull
  BY <1>1, MergeKeeps DEF Inv, Type
<1>2. CASE UpdateFails
  BY <1>2, FailShape
<1>3. CASE Fetch
  BY <1>3 DEF Fetch
<1> QED
  BY <1>1, <1>2, <1>3
     DEF Next, DaemonStep, PushStep, local, Edit, Resolve, Delete, AgentReply, SaveStarts,
         SaveEnds, Reload, Restart, Outage, Recovers, PeerComments, PeerResolves, PushStarts,
         PostNothing, PostReview, PostFails, PostReplies, RecordIds, PatchEdits, RecordHashes,
         DeleteRemote, RecordDeletes, NumbersUnknown, AnswerLost, PushDies

(* No step brings a drained delete back to the queue, goes on sending with *)
(* a refused token, or undoes by a pull what was done here.                *)
THEOREM SyncStepsAreSound == Spec => StepsAreSound
<1>1. Init => Inv
  BY InitInv, PushAssumption
<1>2. Inv /\ [Next]_vars => Inv'
  BY NextInv, PushAssumption
<1>3. Inv /\ [Next]_vars => [\A g \in disk'.pending \ disk.pending : g \notin mem.loaded]_vars
  BY DrainedStep, PushAssumption
<1>4. Inv /\ [Next]_vars => [push.auth /\ remote' # remote => push' = push]_vars
  BY RefusedStep, PushAssumption
<1>5. Inv /\ [Next]_vars => [pull.on /\ ~pull'.on => \A x \in Item : Here(disk.item, x) =>
         /\ disk'.item[x].body = disk.item[x].body
         /\ disk.item[x].resolved => disk'.item[x].resolved]_vars
  BY PullStep, PushAssumption
<1> QED
  BY <1>1, <1>2, <1>3, <1>4, <1>5, PTL
     DEF Spec, StepsAreSound, DrainedStaysDrained, RefusedPushStops, PullKeepsOurs

==============================================================================
