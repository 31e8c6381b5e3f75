---------------------------- MODULE MCAuditChain ----------------------------
(* AuditChain for TLC. Processes are interchangeable, and so are what events say. *)
EXTENDS AuditChain, TLC

Symmetric == Permutations(Procs) \cup Permutations(Bodies)
=============================================================================
