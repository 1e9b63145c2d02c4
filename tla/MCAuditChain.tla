----------------------------- MODULE MCAuditChain -----------------------------
(* TLC instances of the audit log. *)
EXTENDS AuditChain

CONSTANTS sA, sB
=============================================================================
