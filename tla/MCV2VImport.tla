---------------------------- MODULE MCV2VImport -----------------------------
(* V2VImport for TLC: executions and machine numbers are interchangeable. *)
EXTENDS V2VImport, TLC

Symmetric == Permutations(Imports) \cup Permutations(Vmids)
=============================================================================
