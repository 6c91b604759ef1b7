-------------------------- MODULE MCPermissionCache --------------------------
(* PermissionCache for TLC. *)
EXTENDS PermissionCache
=============================================================================
