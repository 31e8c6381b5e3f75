--------------------------- MODULE MCFlrSessions ----------------------------
(* FlrSessions for TLC: sessions and threads are interchangeable, which a
   run without a liveness property may use. *)
EXTENDS FlrSessions, TLC

Symmetric == Permutations(Ids) \cup Permutations(Threads)
=============================================================================
