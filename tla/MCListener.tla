----------------------------- MODULE MCListener -----------------------------
(* Small instances of a worker with its listener for TLC. *)
EXTENDS Listener
=============================================================================
