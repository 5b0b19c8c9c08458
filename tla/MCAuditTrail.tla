---------------------------- MODULE MCAuditTrail ----------------------------
(* AuditTrail for TLC. *)
EXTENDS AuditTrail, TLC

\* Nothing tells two callers apart.
CallerSymmetry == Permutations(Caller)
=============================================================================
