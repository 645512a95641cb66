---------------------------- MODULE MCAuditChain ----------------------------
(* AuditChain for TLC: workspaces and recorded actions are interchangeable. *)
EXTENDS AuditChain, TLC

Interchangeable == Permutations(Workspaces) \cup Permutations(Actions)
                       \cup Permutations(Appenders)
=============================================================================
