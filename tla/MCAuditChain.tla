----------------------------- MODULE MCAuditChain -----------------------------
(* Model values and symmetry for the audit chain. *)
EXTENDS AuditChain, TLC

Symmetry == Permutations(Writers)
=============================================================================
