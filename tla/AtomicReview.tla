---------------------------- MODULE AtomicReview ----------------------------
(***************************************************************************)
(* What the review write lock is for: a read-modify-write of review.json   *)
(* happens at one moment, and so does clearing it.  The file is seen as    *)
(* the set of writers whose changes it holds.                              *)
(***************************************************************************)
CONSTANTS Writer, Clearer

VARIABLES
  review,   \* the changes in the file
  done      \* who has written or cleared it

vars == <<review, done>>

Init == review = {} /\ done = {}

Change(w) == w \notin done /\ review' = review \cup {w} /\ done' = done \cup {w}
Clear(c) == c \notin done /\ review' = {} /\ done' = done \cup {c}

Next == (\E w \in Writer : Change(w)) \/ (\E c \in Clearer : Clear(c))

Spec == Init /\ [][Next]_vars
=============================================================================
