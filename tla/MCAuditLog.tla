----------------------------- MODULE MCAuditLog -----------------------------
(* Instances of AuditLog for TLC. *)
EXTENDS AuditLog

AllTears == {"unended", "prefix", "split"}
=============================================================================
