-------------------------- MODULE MCDaemonRegistry --------------------------
(* A small instance of DaemonRegistry for TLC. *)
EXTENDS DaemonRegistry, TLC

KeySymmetry == Permutations(Starter) \cup Permutations(Daemon)
=============================================================================
