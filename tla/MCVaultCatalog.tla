--------------------------- MODULE MCVaultCatalog ---------------------------
(* VaultCatalog for TLC. Snapshot ids are interchangeable, and so are
   operators; the run with a liveness property uses no symmetry. *)
EXTENDS VaultCatalog, TLC

Symmetric == Permutations(Snaps) \cup Permutations(Holders)
=============================================================================
