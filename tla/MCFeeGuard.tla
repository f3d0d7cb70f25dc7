---------------------------- MODULE MCFeeGuard ----------------------------
(* Small instances of the fee guard for TLC. *)
EXTENDS FeeGuard, TLC

CONSTANTS s1, s2

Symmetric == Permutations(Sends)
=============================================================================
