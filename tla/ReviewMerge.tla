---------------------------- MODULE ReviewMerge -----------------------------
(* SaveCritJSONMerged (session/review_merge.go): mine and theirs, two      *)
(* edits of base, become one review.  A comment is a record with an id, a  *)
(* sequence of replies and fields; id 0 is that of old files without ids,  *)
(* and a field of the zero value is one that JSON leaves out.              *)
EXTENDS Integers, Sequences, SequencesExt

(* Theirs, with each field that mine changed taken from mine.              *)
MergeFields3(b, m, t) == [k \in DOMAIN t |-> IF m[k] = b[k] THEN t[k] ELSE m[k]]

(* The first item of an id, or none.                                       *)
IndexById(items, id) ==
  LET at == {i \in DOMAIN items : items[i].id = id}
  IN IF at = {} THEN {} ELSE {items[Min(at)]}

Unplaced(items, i) == items[i].id = 0 \/ \A j \in 1..(i - 1) : items[j].id # items[i].id

(* What becomes of an item mine has: b and t are its versions there, if    *)
(* any; none when theirs deleted what mine left alone.                     *)
MergeItem3(b, m, t, Both(_, _, _)) ==
  IF t = {} THEN (IF {m} = b THEN {} ELSE {m})
  ELSE IF b = {m} THEN t
  ELSE IF b = t THEN {m}
  ELSE {Both(b, m, CHOOSE x \in t : TRUE)}

TheirsOnly(base, mine, theirs) ==
  LET Keep(i) == LET t == theirs[i] IN
        IF t.id = 0 THEN ~Contains(mine, t) /\ ~Contains(base, t)
        ELSE /\ Unplaced(theirs, i) /\ IndexById(mine, t.id) = {}
             /\ IndexById(base, t.id) # {t}
      kept == SelectSeq([i \in DOMAIN theirs |-> i], Keep)
  IN [k \in DOMAIN kept |-> theirs[kept[k]]]

(* Items by id, in mine's order, then those only theirs added or edited.   *)
Merge3ById(base, mine, theirs, Both(_, _, _)) ==
  LET Place(out, i) ==
        LET m == mine[i]
            v == IF m.id = 0 \/ ~Unplaced(mine, i) THEN {m}
                 ELSE MergeItem3(IndexById(base, m.id), m, IndexById(theirs, m.id), Both)
        IN out \o SetToSeq(v)
  IN FoldLeft(Place, <<>>, [i \in DOMAIN mine |-> i]) \o TheirsOnly(base, mine, theirs)

NoReply == [id |-> 0, body |-> 0]
NoCommentYet == [id |-> 0, body |-> 0, resolved |-> FALSE, replies |-> <<>>]
Version(b, none) == IF b = {} THEN none ELSE CHOOSE x \in b : TRUE
BothReplies(b, m, t) == MergeFields3(Version(b, NoReply), m, t)
BothComments(b, m, t) ==
  LET base == Version(b, NoCommentYet)
  IN [MergeFields3(base, m, t) EXCEPT
        !.replies = Merge3ById(base.replies, m.replies, t.replies, BothReplies)]
MergeComments3(base, mine, theirs) == Merge3ById(base, mine, theirs, BothComments)

(* Files are kept while they have comments.                                *)
NoFileYet == [status |-> 0, hash |-> 0, comments |-> <<>>]
FileOf(files, p) == IF p \in DOMAIN files THEN files[p] ELSE NoFileYet
MergeFiles3(base, mine, theirs) ==
  LET Comments(p) == MergeComments3(FileOf(base, p).comments, FileOf(mine, p).comments,
                                    FileOf(theirs, p).comments)
      Merged(p) ==
        IF p \notin DOMAIN mine THEN theirs[p]
        ELSE IF p \notin DOMAIN theirs THEN mine[p]
        ELSE MergeFields3(FileOf(base, p), mine[p], theirs[p])
  IN [p \in {q \in DOMAIN base \cup DOMAIN mine \cup DOMAIN theirs : Comments(q) # <<>>} |->
        [Merged(p) EXCEPT !.comments = Comments(p)]]

(* Mutant: a delete that one side has carried out is owed again.           *)
MergeRefUnion(base, mine, theirs) == theirs \cup mine

(* Deletes owed to GitHub: theirs without what mine drained, and mine's.   *)
MergeRefSet3(base, mine, theirs) == (theirs \ (base \ mine)) \cup (mine \ base)

MergeCritJson3(base, mine, theirs) ==
  [top     |-> MergeFields3(base.top, mine.top, theirs.top),
   review  |-> MergeComments3(base.review, mine.review, theirs.review),
   files   |-> MergeFiles3(base.files, mine.files, theirs.files),
   pending |-> MergeRefSet3(base.pending, mine.pending, theirs.pending)]

(* Read and written under the review write lock; a review that was removed *)
(* is not made anew.                                                       *)
SaveCritJsonMerged(base, mine, disk) ==
  IF disk = {} THEN {}
  ELSE {MergeCritJson3(base, mine, CHOOSE theirs \in disk : TRUE)}
-----------------------------------------------------------------------------
Ids(items) == {items[i].id : i \in DOMAIN items}
At(items, id) == CHOOSE x \in Range(items) : x.id = id
Distinct(items) == 0 \notin Ids(items) /\ Cardinality(Ids(items)) = Len(items)

(* Nobody's work is lost: a side that changed nothing gets the other's     *)
(* review; each field and reply that mine changed is as mine has it, each  *)
(* that only theirs changed as theirs; a comment is gone only if one side  *)
(* deleted it and the other left it alone; none is there twice.            *)
MergeKeepsBoth(base, mine, theirs) ==
  LET out == MergeComments3(base, mine, theirs)
      Edited(side, id) == id \in Ids(side) /\ (id \in Ids(base) => At(side, id) # At(base, id))
  IN Distinct(base) /\ Distinct(mine) /\ Distinct(theirs) =>
       /\ Distinct(out)
       /\ base = mine => Range(out) = Range(theirs)
       /\ base = theirs => out = mine
       /\ mine = theirs => out = mine
       /\ \A id \in Ids(base) \cup Ids(mine) \cup Ids(theirs) :
            id \in Ids(out) <=> \/ id \in Ids(mine) \cap Ids(theirs)
                                \/ Edited(mine, id) \/ Edited(theirs, id)
       /\ \A id \in Ids(mine) \cap Ids(base) : \A k \in {"body", "resolved"} :
            At(mine, id)[k] # At(base, id)[k] => At(out, id)[k] = At(mine, id)[k]
       /\ \A id \in Ids(theirs) \cap Ids(base) \cap Ids(mine) : \A k \in {"body", "resolved"} :
            At(mine, id)[k] = At(base, id)[k] => At(out, id)[k] = At(theirs, id)[k]
       /\ \A id \in Ids(mine) \cap Ids(theirs) \cap Ids(base) :
            LET Replies(side) == At(side, id).replies
                Known == Ids(Replies(base)) IN
            (Ids(Replies(mine)) \cup Ids(Replies(theirs))) \ Known \subseteq Ids(Replies(out))

(* The same for a whole review: files come and go with their comments, a   *)
(* delete that was carried out is not owed again, and none is forgotten.   *)
SaveKeepsBoth(base, mine, disk) ==
  \A theirs \in disk : \A out \in SaveCritJsonMerged(base, mine, disk) :
    /\ base = mine => out = theirs
    /\ base = theirs => out = mine
    /\ \A p \in DOMAIN out.files : out.files[p].comments # <<>>
    /\ (mine.pending \cup theirs.pending) \ base.pending \subseteq out.pending
    /\ (base.pending \ mine.pending) \cap out.pending = {}
    /\ (base.pending \ theirs.pending) \cap out.pending = {}
=============================================================================
