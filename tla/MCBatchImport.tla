---------------------------- MODULE MCBatchImport ----------------------------
(* BatchImport for TLC. *)
EXTENDS BatchImport
=============================================================================
