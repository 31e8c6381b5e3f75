------------------------- MODULE MCRestoreWorkflow -------------------------
(* RestoreWorkflow for TLC. Threads of a kind, and users, are alike: a run *)
(* that checks no liveness may use the symmetry, the others let one user   *)
(* make the requests.                                                      *)
EXTENDS RestoreWorkflow, TLC
Symmetry ==
    Permutations(Users) \cup Permutations(Approvers) \cup Permutations(Executors)
=============================================================================
