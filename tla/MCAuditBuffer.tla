--------------------------- MODULE MCAuditBuffer ---------------------------
(* Small instances of AuditBuffer for TLC.                                 *)
EXTENDS AuditBuffer
=============================================================================
