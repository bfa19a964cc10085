----------------------------- MODULE MCAuditTrail -----------------------------
(* Instances of AuditTrail for TLC. *)
EXTENDS AuditTrail, TLC

Symmetry == Permutations(Requests) \cup Permutations(Tenants)
=============================================================================
