--------------------------- MODULE MCReviewCycle ---------------------------
(* Small instances of ReviewCycle for TLC.                                 *)
EXTENDS ReviewCycle, TLC
=============================================================================
