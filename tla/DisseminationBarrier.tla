------------------------ MODULE DisseminationBarrier ------------------------
(***************************************************************************)
(* barrier_sync_helper_dissemination of src/shmemc/barrier.c: in round r   *)
(* each member pokes the member 2^r further on and waits to be poked, in   *)
(* word r of its own pSync.  A word is a counter: a fast neighbour may     *)
(* poke for the next barrier before this one has taken its poke away.      *)
(***************************************************************************)
EXTENDS BarrierCalls

VARIABLES
    pSync,                 \* pSync of every member, one word per round
    round,                 \* each member's loop counter
    pokes                  \* posted increments not yet applied, by the member
                           \* that posted them and the round they are for

vars == <<callVars, pSync, round, pokes>>

(* include/shmem/defs.h: the length of pSync, in longs.                    *)
SHMEM_INTERNAL_F2C_SCALE == 2
SHMEM_BARRIER_SYNC_SIZE  == 4 \div SHMEM_INTERNAL_F2C_SCALE

distance(r)  == 2 ^ r
Rounds       == {r \in 0 .. size : distance(r) < size}
Target(p, r) == Rank((Index(p) + distance(r)) % size)

TypeOK ==
    /\ CallsTypeOK
    /\ pc \in [Members -> {"out", "quiet", "loop", "wait", "unpoke"}]
    /\ pSync \in [Members -> [Rounds -> 0 .. 2]]
    /\ round \in [Members -> {0} \union {r + 1 : r \in Rounds}]
    /\ pokes \in [Members -> [Rounds -> 0 .. MaxEpisodes]]

Init ==
    /\ CallsInit
    /\ pSync = [p \in Members |-> [r \in Rounds |-> SHMEM_SYNC_VALUE]]
    /\ round = [p \in Members |-> 0]
    /\ pokes = [p \in Members |-> [r \in Rounds |-> 0]]

Pending(p) == \E r \in Rounds : pokes[p][r] > 0

CallStep(p) ==
    \/ /\ Call(p)
       /\ round' = [round EXCEPT ![p] = 0]
       /\ UNCHANGED <<pSync, pokes>>
    \/ /\ Quiet(p, Pending(p), "loop")
       /\ UNCHANGED <<pSync, round, pokes>>

ProgramWrites(p) == Write(p) /\ UNCHANGED <<pSync, round, pokes>>

PokeTarget(p) ==
    /\ distance(round[p]) < size
    /\ Within(p, "loop", "wait")
    /\ pokes' = [pokes EXCEPT ![p][round[p]] = @ + 1]
    /\ UNCHANGED <<pSync, round>>

WaitPoked(p) ==
    /\ Within(p, "wait", "unpoke")
    /\ pSync[p][round[p]] # SHMEM_SYNC_VALUE
    /\ UNCHANGED <<pSync, round, pokes>>

(* A fetching add of -1 on the caller's own word, applied when it returns. *)
Unpoke(p) ==
    /\ Within(p, "unpoke", "loop")
    /\ pSync' = [pSync EXCEPT ![p][round[p]] = @ - 1]
    /\ round' = [round EXCEPT ![p] = @ + 1]
    /\ UNCHANGED pokes

Done(p) ==
    /\ distance(round[p]) >= size
    /\ Return(p, "loop")
    /\ UNCHANGED <<pSync, round, pokes>>

DeliverPoke(p, r) ==
    /\ pokes[p][r] > 0
    /\ pokes' = [pokes EXCEPT ![p][r] = @ - 1]
    /\ pSync' = [pSync EXCEPT ![Target(p, r)][r] = @ + 1]
    /\ UNCHANGED <<callVars, round>>

DeliverFrom(p) ==
    \/ \E r \in Rounds : DeliverPoke(p, r)
    \/ \E w \in writes : /\ w.from = p
                         /\ DeliverWrite(w)
                         /\ UNCHANGED <<pSync, round, pokes>>

Deliver == \E p \in Members : DeliverFrom(p)

Step(p) == PokeTarget(p) \/ WaitPoked(p) \/ Unpoke(p) \/ Done(p)

Run(p) == CallStep(p) \/ Step(p)

Next ==
    \/ \E p \in Members : ProgramWrites(p) \/ Run(p)
    \/ Deliver
    \/ Finished /\ UNCHANGED vars

Spec == Init /\ [][Next]_vars

(* At most one poke too many waits in a word: that of the next barrier.    *)
OnePokeAhead ==
    \A p \in Members : \A r \in Rounds :
        /\ pSync[p][r] \in 0 .. 2
        /\ pSync[p][r] = 2 => entered[p] > left[p] /\ round[p] <= r

(* api.h:739: pSync is as it was before the call once the members are out  *)
(* and what they posted has arrived.                                       *)
PSyncRestored ==
    (\A p \in Members : pc[p] = "out" /\ ~Pending(p)) =>
        \A p \in Members : \A r \in Rounds : pSync[p][r] = SHMEM_SYNC_VALUE

(* defs.h:89 and ucx-init.c:379: pSync has SHMEM_BARRIER_SYNC_SIZE words,  *)
(* and the barrier uses no others.                                         *)
WithinPSync ==
    \A p \in Members : pc[p] \in {"wait", "unpoke"} =>
        round[p] < SHMEM_BARRIER_SYNC_SIZE

=============================================================================
