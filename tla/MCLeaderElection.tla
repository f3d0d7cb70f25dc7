-------------------------- MODULE MCLeaderElection --------------------------
(* Small instances of leader election for TLC. *)
EXTENDS LeaderElection, TLC

CONSTANTS a, b

Symmetric == Permutations(Nodes)
=============================================================================
