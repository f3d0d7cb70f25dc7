---------------------------- MODULE MCVRFOracle ----------------------------
(* Small instances of the contract for TLC. *)
EXTENDS VRFOracle

CONSTANTS alice, bob, this, k1, k2, k3, kbad, e1, e2, ezero, ctx, longCtx
=============================================================================
