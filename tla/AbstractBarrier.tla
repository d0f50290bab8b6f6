-------------------------- MODULE AbstractBarrier --------------------------
(***************************************************************************)
(* What api.h promises of shmem_barrier and shmem_sync: "no PE from this   *)
(* active set can leave the global barrier until all have arrived".  The   *)
(* barrier is used again and again; "entered" and "left" count, for every  *)
(* PE, the calls it has made and the calls that have returned.             *)
(***************************************************************************)
EXTENDS Naturals

CONSTANT Members           \* the PEs of the active set

VARIABLES entered, left

vars == <<entered, left>>

TypeOK ==
    /\ entered \in [Members -> Nat]
    /\ left \in [Members -> Nat]

Init ==
    /\ entered = [p \in Members |-> 0]
    /\ left = [p \in Members |-> 0]

Enter(p) ==
    /\ entered[p] = left[p]
    /\ entered' = [entered EXCEPT ![p] = @ + 1]
    /\ UNCHANGED left

Leave(p) ==
    /\ left[p] < entered[p]
    /\ \A q \in Members : entered[q] >= entered[p]
    /\ left' = [left EXCEPT ![p] = @ + 1]
    /\ UNCHANGED entered

Next == \E p \in Members : Enter(p) \/ Leave(p)

Spec == Init /\ [][Next]_vars

(* Nobody is more than one barrier ahead of anybody.                       *)
InStep == \A p, q \in Members : left[p] <= entered[q]

=============================================================================
