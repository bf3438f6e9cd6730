---------------------------- MODULE MCAuditStore ----------------------------
(* AuditStore on small instances.                                          *)
EXTENDS AuditStore, TLC

Symmetry == Permutations(Writers)
=============================================================================
