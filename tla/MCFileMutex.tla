---------------------------- MODULE MCFileMutex ----------------------------
(* Small instances of the file mutex for TLC. *)
EXTENDS FileMutex

CONSTANTS a, b, c
=============================================================================
