---------------------------- MODULE CommentBatch ----------------------------
(* crit comment: comments, pins and replies an agent adds from the command *)
(* line, one at a time or in a batch, to the review found for it or, when  *)
(* it replies to comments of another review, to that one                   *)
(* (comment/comment_cli.go, run.go, pin.go, pin_html.go, list.go,          *)
(* review/review_file.go).  Each review is written under its own lock, so  *)
(* one section under a lock is one step; anybody may write in between.     *)
EXTENDS Integers, Sequences, FiniteSets, SequencesExt, FiniteSetsExt, Functions, Folds, TLC

CONSTANTS
  Primary, Other, \* the review found for the command, and those scanned
  None,           \* a file that is not there, a field that is not given
  Batches,        \* the entries an agent sends
  MaxActs         \* bound on what others write meanwhile

VARIABLES
  reviews,        \* identity -> the file: None, Garbled or a review
  job,            \* the command under way
  acts

vars == <<reviews, job, acts>>
Identities == {Primary} \cup Other
-----------------------------------------------------------------------------
(* Reviews.  files is keyed by path or, for pins, by the page's route,     *)
(* both sequences of names.                                                *)
Garbled == [kind |-> "garbled"]
Empty   == [kind |-> "git", top |-> <<>>, files |-> <<>>]
Missing == [failed |-> "not found"]
Several == [failed |-> "found in several files"]
Invalid == [failed |-> "invalid entry"]
Failed(r) == "failed" \in DOMAIN r

LoadCritJSON(file) == IF file = None THEN Empty ELSE IF file = Garbled THEN Invalid ELSE file
DomReview(cj) == cj.kind \in {"live", "preview"}

FileOf(cj, p) == IF p \in DOMAIN cj.files THEN cj.files[p] ELSE <<>>
Comments(cj)  == Range(cj.top) \cup UNION {Range(cj.files[p]) : p \in DOMAIN cj.files}
CJContainsCommentID(cj, id) == \E c \in Comments(cj) : c.id = id

NewComment(scope, e) ==
  [id |-> e.body, scope |-> scope, start |-> 0, end |-> 0, pin |-> 0, resolved |-> FALSE,
   replies |-> <<>>]
AppendTo(cj, p, c) == [cj EXCEPT !.files = (p :> Append(FileOf(cj, p), c)) @@ @]
AppendReviewComment(cj, e)  == [cj EXCEPT !.top = Append(@, NewComment("review", e))]
AppendFileComment(cj, p, e) == AppendTo(cj, p, NewComment("file", e))
AppendComment(cj, p, from, to, e) ==
  AppendTo(cj, p, [NewComment("line", e) EXCEPT !.start = from, !.end = to])

(* A reply resolves the comment or, if it does not, reopens it.            *)
Replied(c, e) == [c EXCEPT !.replies = Append(@, e.body), !.resolved = e.resolve]
AppendReply(cj, id, e, filter) ==
  LET tops  == {i \in DOMAIN cj.top : cj.top[i].id = id}
      paths == {p \in DOMAIN cj.files : filter \in {None, p}}
      spots == UNION {{<<p, i>> : i \in {k \in DOMAIN cj.files[p] : cj.files[p][k].id = id}} :
                        p \in paths}
  IN IF tops # {} THEN [cj EXCEPT !.top[Min(tops)] = Replied(@, e)]
     ELSE IF spots = {} THEN Missing
     ELSE IF Cardinality(spots) > 1 THEN Several
     ELSE LET s == CHOOSE x \in spots : TRUE
          IN [cj EXCEPT !.files[s[1]][s[2]] = Replied(@, e)]
-----------------------------------------------------------------------------
(* Pins of live and preview reviews.                                       *)
Content == <<"preview-content">>

NormalizePinRoute(cj, route) ==
  IF cj.kind = "preview"
    THEN IF route \in {None, <<>>} THEN Content
         ELSE IF IsPrefix(Content, route) THEN route ELSE Content \o route
  ELSE IF route = None THEN cj.origin ELSE route

NextPinNumber(cj) ==
  1 + Max({0} \cup UNION {{c.pin : c \in Range(cj.files[p])} : p \in DOMAIN cj.files})

(* A preview's element must be in its file; a live page may render later.  *)
EnrichPinAnchor(cj, selector, route) ==
  /\ selector # "malformed"
  /\ cj.kind = "preview" => selector = "in page" /\ ".." \notin Range(route)

AppendPin(cj, e) ==
  LET route == NormalizePinRoute(cj, e.route)
  IN IF DomReview(cj) /\ e.selector # None /\ EnrichPinAnchor(cj, e.selector, route)
     THEN AppendTo(cj, route, [NewComment("line", e) EXCEPT !.pin = NextPinNumber(cj)])
     ELSE Invalid

(* Text of selectors as sequences of characters.                           *)
LastCompound(s) ==
  LET Step(a, i) ==
        IF a.quote # "" THEN IF s[i] = a.quote /\ s[i - 1] # "\\" THEN [a EXCEPT !.quote = ""] ELSE a
        ELSE IF s[i] = "'" THEN [a EXCEPT !.quote = s[i]]
        ELSE IF s[i] \in {"(", "["} THEN [a EXCEPT !.depth = @ + 1]
        ELSE IF s[i] \in {")", "]"} THEN [a EXCEPT !.depth = Max({@ - 1, 0})]
        ELSE IF s[i] \in {">", " "} /\ a.depth = 0 THEN [a EXCEPT !.split = i]
        ELSE a
  IN SubSeq(s, FoldLeft(Step, [quote |-> "", depth |-> 0, split |-> 0],
                        [i \in DOMAIN s |-> i]).split + 1, Len(s))
LeafTagFromSelector(s) ==
  LET c    == LastCompound(s)
      tags == {n \in DOMAIN c : \A i \in 1..n : c[i] \in {"a", "b"}}
  IN SubSeq(c, 1, Max({0} \cup tags))
-----------------------------------------------------------------------------
(* One entry, and all of them: the first that fails fails the batch.       *)
Clean(p)   == SelectSeq(p, LAMBDA n : n # ".")
IsAbsoluteOrTraversal(p) == p[1] = "/" \/ Clean(p)[1] = ".."
HasLine(e) == e.line > 0 \/ e.spec # None
IsPin(e)   == e.selector # None \/ e.route # None
NoFile(e)  == e.file = None /\ e.path = None
(* A quote, or only where it is to be looked for.                          *)
HasQuote(e) == e.quote # "none"

ProcessBulkPinOrDOMReview(cj, e) ==
  IF IsPin(e) /\ NoFile(e) /\ ~HasLine(e) /\ ~HasQuote(e) THEN AppendPin(cj, e) ELSE Invalid

ProcessBulkReviewEntry(cj, e) ==
  IF HasLine(e) THEN Invalid ELSE AppendReviewComment(cj, e)

(* spec is a pair of lines, or empty: garbled.  Nobody asks end >= start. *)
ProcessBulkLineComment(cj, e, p) ==
  LET from == IF e.line = 0 THEN e.spec[1] ELSE e.line
      to   == IF e.line = 0 THEN e.spec[2] ELSE e.end
  IN IF (e.line = 0 /\ e.spec = <<>>) \/ from <= 0 \/ e.quote = "nowhere" THEN Invalid
     ELSE AppendComment(cj, p, from, IF to = 0 THEN from ELSE to, e)

ProcessBulkFileOrLineEntry(cj, e) ==
  LET p == IF e.file # None THEN e.file ELSE e.path
  IN IF p = None THEN Invalid
     ELSE IF IsAbsoluteOrTraversal(p) THEN Invalid
     ELSE IF e.scope = "file" \/ (~HasLine(e) /\ e.path # None /\ e.file = None)
       THEN IF HasQuote(e) THEN Invalid ELSE AppendFileComment(cj, Clean(p), e)
     ELSE IF ~HasLine(e) THEN Invalid ELSE ProcessBulkLineComment(cj, e, Clean(p))

ProcessBulkEntry(cj, e) ==
  IF e.body = None THEN Invalid
  ELSE IF e.replyTo # None
    THEN IF IsPin(e) THEN Invalid ELSE AppendReply(cj, e.replyTo, e, e.file)
  ELSE IF IsPin(e) \/ DomReview(cj) THEN ProcessBulkPinOrDOMReview(cj, e)
  ELSE IF e.scope = "review" \/ (NoFile(e) /\ ~HasLine(e))
    THEN IF HasQuote(e) THEN Invalid ELSE ProcessBulkReviewEntry(cj, e)
  ELSE ProcessBulkFileOrLineEntry(cj, e)

Apply(cj, entries) ==
  FoldLeft(LAMBDA r, e : IF Failed(r) THEN r ELSE ProcessBulkEntry(r, e), cj, entries)
-----------------------------------------------------------------------------
(* Which review a batch of replies belongs to: the one that holds what is  *)
(* replied to, if it is one review and no other holds it too.              *)
HoldersOf(id) ==
  {r \in Other : reviews[r] \notin {None, Garbled} /\ CJContainsCommentID(reviews[r], id)}

Targets(entries) == {entries[i].replyTo : i \in DOMAIN entries} \ {None}

ResolveBulkTarget(j, primary) ==
  LET missing == {id \in Targets(j.entries) : ~CJContainsCommentID(primary, id)}
      holders == {HoldersOf(id) : id \in missing}
  IN IF missing = {} THEN Primary
     ELSE IF missing # Targets(j.entries) \/ ~j.redirect \/ Cardinality(holders) > 1 THEN None
     ELSE LET h == CHOOSE x \in holders : TRUE
          IN IF Cardinality(h) = 1 THEN CHOOSE r \in h : TRUE ELSE None
-----------------------------------------------------------------------------
Init ==
  /\ job = [at |-> "idle"]
  /\ acts = 0

RunComment ==
  /\ job.at = "idle"
  /\ \E b \in Batches :
       job' = [at |-> "primary", entries |-> b.entries, redirect |-> b.redirect,
               reply |-> b.reply, target |-> Primary]
  /\ UNCHANGED <<reviews, acts>>

Finish(result, target) ==
  /\ reviews' = IF Failed(result) THEN reviews ELSE [reviews EXCEPT ![target] = result]
  /\ job' = [job EXCEPT !.at = IF Failed(result) THEN "failed" ELSE "done", !.target = target]

(* The batch, under the lock of the primary review.                        *)
BulkAddComments ==
  /\ job.at = "primary" /\ ~job.reply
  /\ LET primary == LoadCritJSON(reviews[Primary])
         target  == IF Failed(primary) THEN None ELSE ResolveBulkTarget(job, primary)
     IN IF target = Primary THEN Finish(Apply(primary, job.entries), Primary)
        ELSE IF target = None THEN Finish(Missing, Primary)
        ELSE /\ job' = [job EXCEPT !.at = "other", !.target = target]
             /\ UNCHANGED reviews
  /\ UNCHANGED acts

(* A single reply: --path may say the file, and only what is not found at  *)
(* all is looked for elsewhere.                                            *)
AddReply ==
  /\ job.at = "primary" /\ job.reply
  /\ LET primary == LoadCritJSON(reviews[Primary])
         e       == job.entries[1]
         result  == IF Failed(primary) THEN primary ELSE AppendReply(primary, e.replyTo, e, e.file)
     IN IF result = Missing /\ job.redirect /\ Cardinality(HoldersOf(e.replyTo)) = 1
        THEN /\ job' = [job EXCEPT !.at = "other", !.target = CHOOSE r \in HoldersOf(e.replyTo) : TRUE]
             /\ UNCHANGED reviews
        ELSE Finish(result, Primary)
  /\ UNCHANGED acts

(* Under the lock of the other review, which may have changed since.       *)
Redirected ==
  /\ job.at = "other"
  /\ LET cj == LoadCritJSON(reviews[job.target])
     IN Finish(IF Failed(cj) THEN cj ELSE Apply(cj, job.entries), job.target)
  /\ UNCHANGED acts

(* Other processes: a comment is deleted, or a review is cleared.          *)
Others ==
  /\ acts < MaxActs /\ acts' = acts + 1
  /\ \E r \in Identities :
       /\ reviews[r] \notin {None, Garbled}
       /\ \/ reviews' = [reviews EXCEPT ![r] = None]
          \/ \E p \in DOMAIN reviews[r].files :
               /\ reviews[r].files[p] # <<>>
               /\ reviews' = [reviews EXCEPT ![r].files[p] = Tail(@)]
  /\ UNCHANGED job

Next == RunComment \/ BulkAddComments \/ AddReply \/ Redirected \/ Others
-----------------------------------------------------------------------------
(* What crit comments lists: of the review, then by file, its file         *)
(* comments before those on lines, in the order of the lines.              *)
ListFile(cj, p, wanted) ==
  LET listed == {i \in DOMAIN cj.files[p] : cj.files[p][i] \in wanted}
      Before(i, k) == LET a == cj.files[p][i]  b == cj.files[p][k]
                      IN \/ a.scope = "file" /\ b.scope # "file"
                         \/ (a.scope = "file") = (b.scope = "file") /\ a.start < b.start
                         \/ (a.scope = "file") = (b.scope = "file") /\ a.start = b.start /\ i < k
  IN [n \in 1..Cardinality(listed) |->
        cj.files[p][CHOOSE i \in listed : Cardinality({k \in listed : Before(k, i)}) = n - 1]]
ListComments(cj, unresolvedOnly, paths) ==
  LET wanted == {c \in Comments(cj) : unresolvedOnly => ~c.resolved}
  IN SelectSeq(cj.top, LAMBDA c : c \in wanted)
     \o FoldLeft(LAMBDA acc, p : acc \o ListFile(cj, p, wanted), <<>>,
                 SelectSeq(paths, LAMBDA p : p \in DOMAIN cj.files))
-----------------------------------------------------------------------------
Written(r) ==
  IF reviews[r] \in {None, Garbled} THEN {}
  ELSE {c.id : c \in Comments(reviews[r])}
       \cup UNION {Range(c.replies) : c \in Comments(reviews[r])}
Sent == {job.entries[i].body : i \in DOMAIN job.entries} \ {None}

(* A batch is written whole or not at all: one that failed left nothing,   *)
(* in no review, one that is done is in one review with all its entries    *)
(* and nowhere else (unless others have removed some of it since); and no  *)
(* two pins of a review have one number.                                   *)
BatchIsWhole ==
  /\ job.at \notin {"idle", "done"} =>
       \A r \in Identities : Written(r) \cap Sent = {}
  /\ job.at = "done" =>
       /\ \A r \in Identities \ {job.target} : Written(r) \cap Sent = {}
       /\ acts = 0 => Sent \subseteq Written(job.target)
  /\ \A r \in Identities : reviews[r] \notin {None, Garbled} =>
       LET pins == {c \in Comments(reviews[r]) : c.pin # 0}
       IN Cardinality({c.pin : c \in pins}) = Cardinality({c.id : c \in pins})

(* The list has every comment once, and without the resolved ones just     *)
(* those an agent still has to see to.                                     *)
ListIsComplete(paths) ==
  \A r \in Identities : reviews[r] \notin {None, Garbled} =>
    \A only \in BOOLEAN : \A list \in {ListComments(reviews[r], only, paths)} :
      /\ Range(list) = {c \in Comments(reviews[r]) : only => ~c.resolved}
      /\ Len(list) = Cardinality({i \in DOMAIN reviews[r].top : only => ~reviews[r].top[i].resolved})
                     + FoldSet(LAMBDA p, n : n + Cardinality(
                          {i \in DOMAIN reviews[r].files[p] : only => ~reviews[r].files[p][i].resolved}),
                        0, DOMAIN reviews[r].files)

(* A command takes nothing from a review: what was there stays, as it was  *)
(* or with the command's replies, in its place and order; and a reply goes *)
(* to the comment it names, in the file it names.                          *)
Extends(c, d) ==
  /\ [d EXCEPT !.replies = c.replies, !.resolved = c.resolved] = c
  /\ IsPrefix(c.replies, d.replies)
  /\ \A i \in Len(c.replies) + 1 .. Len(d.replies) :
       \E e \in Range(job.entries) : e.body = d.replies[i] /\ e.replyTo = c.id
  /\ d.resolved # c.resolved => d.replies # c.replies
Longer(s, t) == Len(s) <= Len(t) /\ \A i \in DOMAIN s : Extends(s[i], t[i])
CommandsOnlyAdd ==
  acts' = acts => \A r \in Identities :
    \/ reviews'[r] = reviews[r]
    \/ reviews[r] = None
    \/ /\ reviews[r] # Garbled
       /\ Longer(reviews[r].top, reviews'[r].top)
       /\ \A p \in DOMAIN reviews[r].files :
            p \in DOMAIN reviews'[r].files /\ Longer(reviews[r].files[p], reviews'[r].files[p])

(* The tag read off a selector is that of the element it selects: the last *)
(* of the compounds it was put together from.                              *)
LeafTagIsLast(compounds, combinator) ==
  LeafTagFromSelector(FoldLeft(LAMBDA s, c : s \o combinator \o c.tag \o c.rest,
                               compounds[1].tag \o compounds[1].rest, Tail(compounds)))
    = Last(compounds).tag
=============================================================================
