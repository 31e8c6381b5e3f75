--------------------------- MODULE MCVmTransport ----------------------------
(* VmTransport for TLC: every transport, with and without fallback, and the
   consistency options that lead to different steps. *)
EXTENDS VmTransport, TLC

Consistency == {<<FALSE, FALSE, FALSE>>, <<FALSE, TRUE, TRUE>>,
                <<TRUE, TRUE, FALSE>>, <<TRUE, FALSE, FALSE>>}

Options(mode, strict, c) ==
    [mode |-> mode, strict |-> strict, fallback |-> ~strict,
     appStrict |-> c[1], quiesce |-> c[2], crash |-> c[3]]

AllSettings ==
    {Options("vddk-cbt", strict, c) : strict \in BOOLEAN, c \in Consistency}
      \cup {Options("hot-clone-export", FALSE, c) : c \in Consistency}
      \cup {Options(mode, FALSE, <<FALSE, FALSE, FALSE>>) :
              mode \in {"cold-export", "proxmox", "xcpng"}}

Symmetric == Permutations(Blocks)
=============================================================================
