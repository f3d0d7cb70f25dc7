------------------------------ MODULE MCClient ------------------------------
(* Small instances of a program using the SDK for TLC. *)
EXTENDS Client
=============================================================================
