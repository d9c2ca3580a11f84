---------------------------- MODULE MCReviewSync ----------------------------
(* Small instances of ReviewSync for TLC.                                  *)
EXTENDS ReviewSync, TLC

(* Sound for properties of states and steps: nothing tells replies apart.  *)
ReplySymmetry == Permutations(ReplyId)
=============================================================================
