-------------------------- MODULE MCAuditSessions ---------------------------
(* TLC instance of AuditSessions.                                          *)
EXTENDS AuditSessions

=============================================================================
