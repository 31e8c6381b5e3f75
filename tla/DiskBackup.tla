----------------------------- MODULE DiskBackup -----------------------------
(***************************************************************************)
(* What a backup of a virtual machine promises, whichever transport makes  *)
(* it: a recovery point is the disk as it was at one instant, a backup     *)
(* that fails adds none, and a restore makes a new machine that holds a    *)
(* point and replaces nothing. VmTransport implements it.                  *)
(***************************************************************************)
CONSTANTS
    Contents,  \* what a disk may hold
    Targets,   \* names and numbers a restored machine may have
    Nothing

VARIABLES
    disk,      \* the protected machine's disk
    snap,      \* the instant a running backup captured
    points,    \* the contents of the recovery points
    restored   \* the disk of each restored machine

absVars == <<disk, snap, points, restored>>

Init ==
    /\ disk \in Contents
    /\ snap = Nothing
    /\ points = {}
    /\ restored = [t \in Targets |-> Nothing]

Write ==
    /\ disk' \in Contents
    /\ UNCHANGED <<snap, points, restored>>

Capture ==
    /\ snap = Nothing
    /\ snap' = disk
    /\ UNCHANGED <<disk, points, restored>>

Publish ==
    /\ snap # Nothing
    /\ points' = points \cup {snap}
    /\ snap' = Nothing
    /\ UNCHANGED <<disk, restored>>

Abandon ==
    /\ snap' = Nothing
    /\ UNCHANGED <<disk, points, restored>>

Restore(t) ==
    /\ restored[t] = Nothing
    /\ \E p \in points : restored' = [restored EXCEPT ![t] = p]
    /\ UNCHANGED <<disk, snap, points>>

Next == Write \/ Capture \/ Publish \/ Abandon \/ \E t \in Targets : Restore(t)

Spec == Init /\ [][Next]_absVars
=============================================================================
