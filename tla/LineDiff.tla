------------------------------ MODULE LineDiff ------------------------------
(* How crit compares two versions of a text line by line and groups what   *)
(* changed into hunks (diff/diff.go).  A text is a sequence of lines.      *)
EXTENDS Integers, Sequences, SequencesExt

Unchanged(text, o, n) == [type |-> "unchanged", old |-> o, new |-> n, text |-> text]
Added(text, n)        == [type |-> "added",     old |-> 0, new |-> n, text |-> text]
Removed(text, o)      == [type |-> "removed",   old |-> o, new |-> 0, text |-> text]

AllAdded(lines, off)   == [i \in DOMAIN lines |-> Added(lines[i], off + i)]
AllRemoved(lines, off) == [i \in DOMAIN lines |-> Removed(lines[i], off + i)]

(* One line against many: it stays at its first occurrence.                *)
DiffSingleOld(line, new, oldOff, newOff) ==
  LET hits == {i \in DOMAIN new : new[i] = line}
  IN IF hits = {} THEN <<Removed(line, oldOff + 1)>> \o AllAdded(new, newOff)
     ELSE [AllAdded(new, newOff) EXCEPT
             ![Min(hits)] = Unchanged(line, oldOff + 1, newOff + Min(hits))]

(* The last row of the table of longest common subsequences: row[k + 1] is *)
(* the length for the first k lines of new.                                *)
LcsForwardRow(old, new) ==
  LET Row(prev, line) ==
        LET Extend(curr, j) ==
              Append(curr, IF line = new[j] THEN prev[j] + 1
                           ELSE Max({prev[j + 1], curr[j]}))
        IN FoldLeft(Extend, <<0>>, [j \in DOMAIN new |-> j])
  IN FoldLeft(Row, [j \in 1..(Len(new) + 1) |-> 0], old)

LcsBackwardRow(old, new) == LcsForwardRow(Reverse(old), Reverse(new))

FirstBest(score) ==
  CHOOSE k \in DOMAIN score :
    \A j \in DOMAIN score : score[j] < score[k] \/ (score[j] = score[k] /\ k <= j)

(* Mutant: the rows of the second half are read from the wrong end.        *)
SplitPointMirrored(old, mid, new) ==
  LET Sums(top, bot) == [k \in 0..Len(new) |-> top[k + 1] + bot[k + 1]]
  IN FirstBest(Sums(LcsForwardRow(SubSeq(old, 1, mid), new),
                    LcsBackwardRow(SubSeq(old, mid + 1, Len(old)), new)))

(* Where new is cut when old is cut at mid: the first best place.          *)
SplitPoint(old, mid, new) ==
  LET Sums(top, bot) == [k \in 0..Len(new) |-> top[k + 1] + bot[Len(new) - k + 1]]
  IN FirstBest(Sums(LcsForwardRow(SubSeq(old, 1, mid), new),
                    LcsBackwardRow(SubSeq(old, mid + 1, Len(old)), new)))

RECURSIVE HirschbergDiff(_, _, _, _)
HirschbergDiff(old, new, oldOff, newOff) ==
  IF old = <<>> THEN AllAdded(new, newOff)
  ELSE IF new = <<>> THEN AllRemoved(old, oldOff)
  ELSE IF Len(old) = 1 THEN DiffSingleOld(old[1], new, oldOff, newOff)
  ELSE LET mid == Len(old) \div 2
           k   == SplitPoint(old, mid, new)
       IN HirschbergDiff(SubSeq(old, 1, mid), SubSeq(new, 1, k), oldOff, newOff)
          \o HirschbergDiff(SubSeq(old, mid + 1, Len(old)), SubSeq(new, k + 1, Len(new)),
                            oldOff + mid, newOff + k)

ComputeLineDiff(old, new) == HirschbergDiff(old, new, 0, 0)

(* Where each old line is now: an unchanged line where it is, a removed    *)
(* one at the next new line, and at none (0) after the last; the code's    *)
(* fallback for that case looks at a counter which is 0 only when there is *)
(* no new line at all.                                                     *)
MapOldLineToNew(entries) ==
  LET olds == {i \in DOMAIN entries : entries[i].old > 0}
      At(o) == CHOOSE i \in olds : entries[i].old = o
      Next(i) == LET later == {j \in i..Len(entries) : entries[j].new > 0}
                 IN IF later = {} THEN 0
                    ELSE entries[Min(later)].new
  IN [o \in {entries[i].old : i \in olds} |-> Next(At(o))]
-----------------------------------------------------------------------------
(* Hunks: changes further apart than twice the context are not together.   *)

ContextLines == 3

GroupChangedIndices(changed, context) ==
  LET Place(groups, c) ==
        LET last == groups[Len(groups)] IN
        IF c - last[2] > 2 * context THEN Append(groups, <<c, c>>)
        ELSE [groups EXCEPT ![Len(groups)] = <<last[1], c>>]
  IN FoldLeft(Place, <<<<Head(changed), Head(changed)>>>>, Tail(changed))

BuildHunkFromGroup(entries, group, context) ==
  LET from  == Max({group[1] - context, 1})
      to    == Min({group[2] + context, Len(entries)})
      lines == SubSeq(entries, from, to)
      olds  == {lines[i].old : i \in DOMAIN lines} \ {0}
      news  == {lines[i].new : i \in DOMAIN lines} \ {0}
      First(s) == IF s = {} THEN 1 ELSE Min(s)
  IN [oldStart |-> First(olds), oldCount |-> Cardinality(olds),
      newStart |-> First(news), newCount |-> Cardinality(news), lines |-> lines]

DiffEntriesToHunks(entries, context) ==
  LET changed == SelectSeq([i \in DOMAIN entries |-> i],
                           LAMBDA i : entries[i].type # "unchanged")
  IN IF changed = <<>> THEN <<>>
     ELSE [i \in DOMAIN GroupChangedIndices(changed, context) |->
             BuildHunkFromGroup(entries, GroupChangedIndices(changed, context)[i], context)]
-----------------------------------------------------------------------------
(* What a diff is: it spells out both texts in order, each line numbered   *)
(* as it comes, and keeps as many lines as the longest text that is part   *)
(* of both.                                                                *)
OldSide(entries) == SelectSeq(entries, LAMBDA e : e.type # "added")
NewSide(entries) == SelectSeq(entries, LAMBDA e : e.type # "removed")
Spells(side, text, Number(_)) ==
  /\ Len(side) = Len(text)
  /\ \A i \in DOMAIN text : side[i].text = text[i] /\ Number(side[i]) = i

IsDiff(entries, old, new) ==
  /\ Spells(OldSide(entries), old, LAMBDA e : e.old)
  /\ Spells(NewSide(entries), new, LAMBDA e : e.new)
Kept(entries) == Len(SelectSeq(entries, LAMBDA e : e.type = "unchanged"))
(* ComputeLineDiff, by halves and in linear space, returns a diff of the   *)
(* two texts, and a shortest one.                                          *)
DiffIsShortest(old, new) ==
  \A entries \in {ComputeLineDiff(old, new)} :
  /\ IsDiff(entries, old, new)
  /\ \A part \in AllSubSeqs(old) \cap AllSubSeqs(new) : Len(part) <= Kept(entries)

(* Hunks show every change once, with its context, and no hunk reaches     *)
(* into the next; each begins where it says.                               *)
HunksShowChanges(old, new, context) ==
  \A entries \in {ComputeLineDiff(old, new)} : \A hunks \in {DiffEntriesToHunks(entries, context)} :
  LET Shown(e) == {i \in DOMAIN hunks : \E j \in DOMAIN hunks[i].lines : hunks[i].lines[j] = e}
  IN /\ \A e \in Range(entries) :
          IF e.type = "unchanged" THEN Cardinality(Shown(e)) <= 1 ELSE Cardinality(Shown(e)) = 1
     /\ \A i, j \in DOMAIN hunks : i < j =>
          /\ hunks[i].oldStart + hunks[i].oldCount <= hunks[j].oldStart
          /\ hunks[i].newStart + hunks[i].newCount <= hunks[j].newStart
=============================================================================
