---------------------------- MODULE MCReviewLock ----------------------------
(* A small instance of ReviewLock for TLC: there is always a lock file that *)
(* no process has open.                                                     *)
EXTENDS ReviewLock

ASSUME EnoughFiles == Cardinality(File) > Cardinality(Proc)
=============================================================================
