-------------------------- MODULE ImmutablePoints ---------------------------
(***************************************************************************)
(* What the catalogue and the vault promise together, whatever processes   *)
(* make, hold and expire points: a point that is listed has its data and   *)
(* keeps it through the window it was granted, a hold never ends before    *)
(* that window, and a point leaves the list only once the window is over   *)
(* and its data is gone. VaultCatalog implements it.                       *)
(***************************************************************************)
EXTENDS Naturals

CONSTANT Points

VARIABLES
    clock,
    data,    \* the points whose data is in the repository
    made,    \* the points whose data was ever there; ids are used once
    phase,   \* "none" until a point is listed, "live", "expired"
    window,  \* the end of the window each point was granted
    hold     \* the end of the immutability the catalogue shows

promised == <<clock, data, made, phase, window, hold>>

Init ==
    /\ clock = 0 /\ data = {} /\ made = {}
    /\ phase = [p \in Points |-> "none"]
    /\ window = [p \in Points |-> 0] /\ hold = [p \in Points |-> 0]

Tick ==
    /\ clock' = clock + 1
    /\ UNCHANGED <<data, made, phase, window, hold>>

Store(p) ==
    /\ p \notin made
    /\ data' = data \cup {p} /\ made' = made \cup {p}
    /\ UNCHANGED <<clock, phase, window, hold>>

(* A point is listed once, with its data in place. *)
List(p) ==
    /\ phase[p] = "none" /\ p \in data
    /\ phase' = [phase EXCEPT ![p] = "live"]
    /\ window' \in [Points -> Nat] /\ hold' \in [Points -> Nat]
    /\ hold'[p] = window'[p]
    /\ \A q \in Points \ {p} : window'[q] = window[q] /\ hold'[q] = hold[q]
    /\ UNCHANGED <<clock, data, made>>

(* Racing holds may end at either's date, but at none before the window. *)
Hold(p) ==
    /\ phase[p] # "none"
    /\ hold' \in [Points -> Nat] /\ hold'[p] >= window[p]
    /\ \A q \in Points \ {p} : hold'[q] = hold[q]
    /\ UNCHANGED <<clock, data, made, phase, window>>

(* What was never listed may go at any time, a point after its window. *)
Remove ==
    /\ data' \subseteq data
    /\ \A p \in data \ data' : phase[p] # "none" => window[p] <= clock
    /\ UNCHANGED <<clock, made, phase, window, hold>>

Expire(gone) ==
    /\ \A p \in gone : p \notin data /\ window[p] <= clock
    /\ phase' = [p \in Points |-> IF p \in gone /\ phase[p] # "none"
                                    THEN "expired" ELSE phase[p]]
    /\ UNCHANGED <<clock, data, made, window, hold>>

Next ==
    \/ Tick \/ Remove
    \/ \E p \in Points : Store(p) \/ List(p) \/ Hold(p)
    \/ \E gone \in SUBSET Points : Expire(gone)

Spec == Init /\ [][Next]_promised
=============================================================================
