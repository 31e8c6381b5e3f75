---------------------------- MODULE AtomicImport ----------------------------
(***************************************************************************)
(* What importing machines into a node promises to whoever looks at the    *)
(* node and at the results: an import makes one complete machine at a      *)
(* number nobody has, or none; what an import whose process died or whose  *)
(* cleanup was defeated leaves behind is one machine at such a number; and *)
(* no machine is ever changed or removed. V2VImport implements it.         *)
(***************************************************************************)
CONSTANTS
    Imports,
    Numbers,
    Whole,     \* the machine each import is to make
    Parts,     \* what an import may have made of its machine
    Strange,   \* a machine of another client
    Nothing

VARIABLES
    machine,   \* the machine under each number
    fate,      \* "running", "done", "failed" or "dead"
    defeated   \* imports with a timeout, a failed cleanup or a death

promised == <<machine, fate, defeated>>

Init ==
    /\ machine = [n \in Numbers |-> Nothing]
    /\ fate = [i \in Imports |-> "running"]
    /\ defeated = {}

Appears(n, m) ==
    /\ machine[n] = Nothing
    /\ machine' = [machine EXCEPT ![n] = m]

Ends(i, as) ==
    /\ fate[i] = "running"
    /\ fate' = [fate EXCEPT ![i] = as]

MayBeDefeated(i) == defeated' \in {defeated, defeated \cup {i}}

Succeed(i, n) ==
    /\ Ends(i, "done") /\ Appears(n, Whole[i])
    /\ MayBeDefeated(i)

(* Nothing of the import is seen, unless it was defeated.                  *)
Fail(i) ==
    /\ \/ Ends(i, "failed")
       \/ Ends(i, "dead") /\ i \in defeated'
    /\ MayBeDefeated(i) /\ UNCHANGED machine

Leave(i, n) ==
    /\ Ends(i, "failed") \/ Ends(i, "dead")
    /\ Appears(n, machine'[n]) /\ machine'[n] \in Parts[i]
    /\ MayBeDefeated(i) /\ i \in defeated'

(* A command times out or a cleanup fails, and the import goes on.         *)
Defeat(i) ==
    /\ fate[i] = "running"
    /\ defeated' = defeated \cup {i}
    /\ UNCHANGED <<machine, fate>>

OtherCreates(n) ==
    /\ Appears(n, Strange)
    /\ UNCHANGED <<fate, defeated>>

Next ==
    \/ \E i \in Imports :
         Fail(i) \/ Defeat(i) \/ \E n \in Numbers : Succeed(i, n) \/ Leave(i, n)
    \/ \E n \in Numbers : OtherCreates(n)

Spec == Init /\ [][Next]_promised
=============================================================================
