------------------------- MODULE MCManagementConfig -------------------------
(* ManagementConfig for TLC. The threads are interchangeable. *)
EXTENDS ManagementConfig, TLC

Symmetric == Permutations(Threads)
=============================================================================
