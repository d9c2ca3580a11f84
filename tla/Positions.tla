----------------------------- MODULE Positions ------------------------------
(* Where a comment is after its file has changed (session/watch.go,        *)
(* snapshot_sync.go): through the line diff first, then by its anchor, the *)
(* text it was made on.  A line is a sequence of characters.               *)
EXTENDS LineDiff

CONSTANTS
  Break,      \* the character between two lines
  CutLength   \* anchors shorter than this are not matched by containment: 8

(* Text at lines from..to as one sequence of characters.                   *)
Joined(lines) ==
  FlattenSeq([i \in DOMAIN lines |-> IF i = 1 THEN lines[i] ELSE <<Break>> \o lines[i]])
Block(text, from, n) == Joined(SubSeq(text, from, from + n - 1))

(* oneMiddleCut: short is long without one run of characters.              *)
OneMiddleCut(short, long) ==
  /\ Len(short) < Len(long)
  /\ \E k \in 0..Len(short) :
       IsPrefix(SubSeq(short, 1, k), long) /\ IsSuffix(SubSeq(short, k + 1, Len(short)), long)

(* Edit distance, row by row; each is finished before the next is begun.   *)
Levenshtein(a, b) ==
  LET Next(prev, i) ==
        LET Extend(curr, j) ==
              Append(curr, Min({prev[j + 1] + 1, curr[j] + 1,
                                prev[j] + (IF a[i] = b[j] THEN 0 ELSE 1)}))
        IN FoldLeft(Extend, <<i>>, [j \in DOMAIN b |-> j])
      Row(prev, i) == CHOOSE row \in {Next(p, i) : p \in {prev}} : TRUE
  IN Last(FoldLeft(Row, [j \in 1..(Len(b) + 1) |-> j - 1], [i \in DOMAIN a |-> i]))

(* levenshteinRatio >= 0.7                                                 *)
Near(a, b) == 10 * Levenshtein(a, b) <= 3 * Max({Len(a), Len(b)})

AnchorSimilar(a, b) ==
  LET shorter == IF Len(b) < Len(a) THEN b ELSE a
      longer  == IF Len(b) < Len(a) THEN a ELSE b
  IN \/ a = b
     \/ /\ a # <<>> /\ b # <<>>
        /\ \/ /\ Len(shorter) >= CutLength
              /\ \/ \E i \in 0..(Len(longer) - Len(shorter)) :
                      SubSeq(longer, i + 1, i + Len(shorter)) = shorter
                 \/ OneMiddleCut(shorter, longer)
           \/ Near(a, b)

(* The place of the anchor nearest to where the diff expects it, 0 if none. *)
FindAnchorInLines(lines, anchor, preferred) ==
  LET found == {i \in 1..(Len(lines) - Len(anchor) + 1) :
                  SubSeq(lines, i, i + Len(anchor) - 1) = anchor}
      Away(i) == IF i >= preferred THEN i - preferred ELSE preferred - i
      best == {i \in found : \A j \in found : Away(i) <= Away(j)}
  IN IF found = {} THEN 0 ELSE Min(best)

VerifyAndCorrectPosition(lines, anchor, start, end) ==
  LET n     == Len(anchor)
      fits  == start >= 1 /\ start + n - 1 <= Len(lines)
      found == FindAnchorInLines(lines, anchor, start)
      At(s) == [start |-> s, end |-> s + n - 1, drifted |-> FALSE]
  IN IF fits /\ AnchorSimilar(Block(lines, start, n), Joined(anchor)) THEN At(start)
     ELSE IF found > 0 THEN At(found)
     ELSE [start |-> start, end |-> end, drifted |-> TRUE]

RemapLines(lineMap, oldStart, oldEnd, maxLine) ==
  LET To(o) == IF o \in DOMAIN lineMap /\ lineMap[o] # 0 THEN lineMap[o] ELSE o
      s == Max({1, Min({To(oldStart), maxLine})})
  IN <<s, Max({s, Min({To(oldEnd), maxLine})})>>

RemapCommentPosition(c, lineMap, lines, count) ==
  LET at == RemapLines(lineMap, c.start, c.end, count)
  IN IF c.anchor = <<>> THEN [start |-> at[1], end |-> at[2], drifted |-> FALSE]
     ELSE VerifyAndCorrectPosition(lines, c.anchor, at[1], at[2])

Moved(c, old, new) ==
  LET To(p) == [c EXCEPT !.start = p.start, !.end = p.end, !.drifted = p.drifted]
  IN To(RemapCommentPosition(c, MapOldLineToNew(ComputeLineDiff(old, new)), new,
                             Max({Len(new), 1})))

(* Comments on the file, on the old side and pins of a live page have no   *)
(* lines that move.                                                        *)
Stays(c) == c.kind \in {"file", "old", "live"}

(* A sync of the working tree; a comment without anchor keeps its mark.    *)
RemapCommentsToContent(comments, old, new) ==
  [i \in DOMAIN comments |->
     LET c == comments[i] IN
     IF Stays(c) \/ c.start = 0 THEN c
     ELSE IF c.anchor = <<>> THEN [Moved(c, old, new) EXCEPT !.drifted = c.drifted]
     ELSE Moved(c, old, new)]

(* A new round: a pin drops its mark, and all are marked as carried.       *)
CarryForwardComment(c) ==
  [c EXCEPT !.carried = TRUE, !.drifted = @ /\ c.kind # "live"]

CarryForwardFileComments(comments, previous, old, new) ==
  LET IsNew(c) == \A i \in DOMAIN previous : previous[i].id # c.id
      Carry(c) == IF Stays(c) THEN CarryForwardComment(c)
                  ELSE Moved(CarryForwardComment(c), old, new)
  IN IF previous = <<>> THEN comments
     ELSE SelectSeq(comments, IsNew) \o [i \in DOMAIN previous |-> Carry(previous[i])]

CarryForwardAllComments(comments, previous) ==
  IF previous = <<>> \/ \E i \in DOMAIN comments : comments[i].carried THEN comments
  ELSE comments \o [i \in DOMAIN previous |-> CarryForwardComment(previous[i])]

(* carryForwardComments takes the files that have a previous text, the     *)
(* second pass those that are left.                                        *)
CarryForward(comments, previous, old, new) ==
  CarryForwardAllComments(
    IF old = <<>> THEN comments ELSE CarryForwardFileComments(comments, previous, old, new),
    previous)
-----------------------------------------------------------------------------
(* Levenshtein is the least number of edits: nothing is away from itself,  *)
(* an edit changes the distance by at most one, and some edit lessens it.  *)
Edits(a, chars) ==
  {RemoveAt(a, i) : i \in DOMAIN a}
  \cup {ReplaceAt(a, i, c) : i \in DOMAIN a, c \in chars}
  \cup {InsertAt(a, i, c) : i \in 1..(Len(a) + 1), c \in chars}

DistanceIsLeast(a, b, chars) ==
  IF a = b THEN Levenshtein(a, b) = 0
  ELSE /\ \A e \in Edits(a, chars) : Levenshtein(a, b) <= Levenshtein(e, b) + 1
       /\ \E e \in Edits(a, chars) : Levenshtein(e, b) + 1 = Levenshtein(a, b)

(* A comment made on lines of old stays within the text and keeps the      *)
(* order of its ends; if its anchor is anywhere in new it is found, and if *)
(* it is not marked as drifted it is on text recognisable as its own.  A   *)
(* text that did not change moves nothing.                                 *)
RemapFollowsText(old, new, from, to) ==
  LET anchor == SubSeq(old, from, to)
      c == [id |-> 1, kind |-> "line", start |-> from, end |-> to, anchor |-> anchor,
            drifted |-> FALSE, carried |-> FALSE]
  IN \A d \in {Moved(c, old, new)} :
     /\ 1 <= d.start /\ d.start <= d.end /\ d.end <= Max({Len(new), 1})
     /\ FindAnchorInLines(new, anchor, 1) > 0 => ~d.drifted
     /\ ~d.drifted => AnchorSimilar(Block(new, d.start, d.end - d.start + 1), Joined(anchor))
     /\ old = new => d = c

(* A round takes every comment of the round before into the next, once,    *)
(* beside those made meanwhile, whether the file's text is known or not.   *)
EachCarriedOnce(comments, previous, old, new) ==
  \A after \in {CarryForward(comments, previous, old, new)} :
     \A id \in {c.id : c \in Range(comments) \cup Range(previous)} :
       Cardinality({i \in DOMAIN after : after[i].id = id}) = 1
=============================================================================
