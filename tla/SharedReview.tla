---------------------------- MODULE SharedReview ----------------------------
(***************************************************************************)
(* What review.json promises to the people and processes that share it,    *)
(* whatever happens in memory: it holds only comments that somebody made,  *)
(* and it loses one only when the reviewer deleted it or when the whole    *)
(* file is removed.                                                        *)
(***************************************************************************)
CONSTANT CommentId

VARIABLES
  made,       \* comments somebody made
  withdrawn,  \* comments the reviewer deleted
  file        \* comments in review.json

vars == <<made, withdrawn, file>>

Init == made \subseteq CommentId /\ file = made /\ withdrawn = {}

(* A comment is made in a daemon's memory, or written to the file at once. *)
Make(c) ==
  /\ c \in CommentId \ made
  /\ made' = made \cup {c}
  /\ file' \in {file, file \cup {c}}
  /\ UNCHANGED withdrawn

Withdraw(c) ==
  /\ c \in made
  /\ withdrawn' = withdrawn \cup {c}
  /\ UNCHANGED <<made, file>>

Save(new) ==
  /\ file \ withdrawn \subseteq new /\ new \subseteq made
  /\ file' = new
  /\ UNCHANGED <<made, withdrawn>>

Remove ==
  /\ file' = {}
  /\ UNCHANGED <<made, withdrawn>>

(* A crash takes back the deletions that had not reached the file.         *)
Crash ==
  /\ withdrawn' = withdrawn \ file
  /\ UNCHANGED <<made, file>>

Next ==
  \/ \E c \in CommentId : Make(c) \/ Withdraw(c)
  \/ \E new \in SUBSET made : Save(new)
  \/ Remove \/ Crash

Spec == Init /\ [][Next]_vars
=============================================================================
