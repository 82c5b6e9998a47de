----------------------------- MODULE MCAuditChain -----------------------------
(***************************************************************************)
(* AuditChain for TLC: transactions that differ in nothing but their name. *)
(***************************************************************************)
EXTENDS AuditChain, TLC

Symmetry == Permutations(Txns)
=============================================================================
