----------------------------- MODULE MCFileLock -----------------------------
(* Small instances of the single-host election for TLC. *)
EXTENDS FileLock

CONSTANTS a, b
=============================================================================
