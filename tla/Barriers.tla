------------------------------ MODULE Barriers ------------------------------
(***************************************************************************)
(* The barriers of src/shmemc/barrier.c behind their API: at start-up      *)
(* shmemc_barrier_init installs one of the three algorithms, and every     *)
(* shmem_barrier and shmem_sync goes through barrier_sync_helper.          *)
(***************************************************************************)
EXTENDS BarrierCalls

VARIABLES
    barrier_sync_helper,   \* the algorithm installed at start-up
    pSync, pokes,          \* used by all of them
    poke, i, acks,         \* LinearBarrier
    child,                 \* TreeBarrier
    round                  \* DisseminationBarrier

linearOnly == <<poke, i, acks>>
vars == <<callVars, barrier_sync_helper, pSync, pokes, linearOnly, child, round>>

Linear == INSTANCE LinearBarrier
Tree   == INSTANCE TreeBarrier
Dissem == INSTANCE DisseminationBarrier

Unused == 0

InitLinear ==
    /\ barrier_sync_helper = "linear"
    /\ Linear!Init
    /\ child = Unused /\ round = Unused

InitTree ==
    /\ barrier_sync_helper = "tree"
    /\ Tree!Init
    /\ poke = Unused /\ i = Unused /\ acks = Unused /\ round = Unused

InitDissem ==
    /\ barrier_sync_helper = "dissem"
    /\ Dissem!Init
    /\ poke = Unused /\ i = Unused /\ acks = Unused /\ child = Unused

(* shmemc_barrier_init *)
Init == InitLinear \/ InitTree \/ InitDissem

InLinear(A) ==
    barrier_sync_helper = "linear" /\ A /\ UNCHANGED <<barrier_sync_helper, child, round>>

InTree(A) ==
    barrier_sync_helper = "tree" /\ A /\ UNCHANGED <<barrier_sync_helper, linearOnly, round>>

InDissem(A) ==
    barrier_sync_helper = "dissem" /\ A /\ UNCHANGED <<barrier_sync_helper, linearOnly, child>>

Next == InLinear(Linear!Next) \/ InTree(Tree!Next) \/ InDissem(Dissem!Next)

Spec == Init /\ [][Next]_vars

Run(p)  == InLinear(Linear!Run(p)) \/ InTree(Tree!Run(p)) \/ InDissem(Dissem!Run(p))
Deliver == InLinear(Linear!Deliver) \/ InTree(Tree!Deliver) \/ InDissem(Dissem!Deliver)

(* The members of an active set all call; a member in a call runs or       *)
(* spins, which drives its transport; and posted operations are applied.   *)
Fairness == WF_vars(Deliver) /\ \A p \in Members : WF_vars(Run(p))

FairSpec == Spec /\ Fairness

-----------------------------------------------------------------------------
(* Type invariant of whichever algorithm is installed.                     *)
TypeOK ==
    \/ barrier_sync_helper = "linear" /\ Linear!TypeOK
    \/ barrier_sync_helper = "tree"   /\ Tree!TypeOK
    \/ barrier_sync_helper = "dissem" /\ Dissem!TypeOK

(* Waits for equality are never overshot (tree), waits for a change always *)
(* see one (linear), and a neighbour that runs ahead is at most one call   *)
(* ahead (dissemination): see the modules of the algorithms.               *)
PokesAreCounted ==
    /\ barrier_sync_helper = "linear" => Linear!AckIsNews
    /\ barrier_sync_helper = "tree"   => Tree!NoExtraPoke
    /\ barrier_sync_helper = "dissem" => Dissem!OnePokeAhead

(* api.h:739: if modified, pSync must be reset to its state before the     *)
(* call: every algorithm leaves it so, for the next call to start from.    *)
PSyncRestored ==
    /\ barrier_sync_helper = "linear" => Linear!PSyncRestored
    /\ barrier_sync_helper = "tree"   => Tree!PSyncRestored
    /\ barrier_sync_helper = "dissem" => Dissem!PSyncRestored

=============================================================================
