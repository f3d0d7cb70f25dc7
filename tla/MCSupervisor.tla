---------------------------- MODULE MCSupervisor ----------------------------
(* Small instances of the supervised election for TLC. *)
EXTENDS Supervisor

CONSTANTS a, b
=============================================================================
