------------------------- MODULE MCDisasterRecovery -------------------------
(* DisasterRecovery for TLC. Commands are interchangeable, and so are workloads. *)
EXTENDS DisasterRecovery, TLC

Symmetric == Permutations(Runners) \cup Permutations(Workloads)
=============================================================================
