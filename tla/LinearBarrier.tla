--------------------------- MODULE LinearBarrier ---------------------------
(***************************************************************************)
(* barrier_sync_helper_linear of src/shmemc/barrier.c: every member pokes  *)
(* the root by an atomic increment of the root's pSync and waits for the   *)
(* root's acknowledgement, a put into its own pSync.                       *)
(***************************************************************************)
EXTENDS BarrierCalls

VARIABLES
    pSync,                 \* the first word of pSync, on every member
    poke,                  \* the value the root sends as acknowledgement
    i,                     \* the root's loop counter
    pokes,                 \* members whose increment is in flight to the root
    acks                   \* acknowledgements in flight: to whom, which value

vars == <<callVars, pSync, poke, i, pokes, acks>>

Root    == start
Others  == Members \ {Root}
npokes  == size - 1

TypeOK ==
    /\ CallsTypeOK
    /\ pc \in [Members -> {"out", "quiet", "enter", "gather", "clear",
                           "scatter", "wait", "reset"}]
    /\ pSync \in [Members -> 0 .. size]
    /\ poke \in 0 .. size
    /\ i \in 1 .. size
    /\ pokes \in SUBSET Others
    /\ acks \in SUBSET [to : Others, val : 1 .. size]

Init ==
    /\ CallsInit
    /\ pSync = [p \in Members |-> SHMEM_SYNC_VALUE]
    /\ poke = 0
    /\ i = 1
    /\ pokes = {}
    /\ acks = {}

Pending(p) == IF p = Root THEN acks # {} ELSE p \in pokes

CallStep(p) ==
    /\ Call(p) \/ Quiet(p, Pending(p), "enter")
    /\ UNCHANGED <<pSync, poke, i, pokes, acks>>

ProgramWrites(p) == Write(p) /\ UNCHANGED <<pSync, poke, i, pokes, acks>>

(***************************************************************************)
(* The root.                                                               *)
(***************************************************************************)
(* The acknowledgement is read from pSync, in whatever state it is by then. *)
ReadPoke ==
    /\ Within(Root, "enter", "gather")
    /\ poke' = pSync[Root] + 1
    /\ UNCHANGED <<pSync, i, pokes, acks>>

Gather ==
    /\ pSync[Root] = npokes + SHMEM_SYNC_VALUE
    /\ Within(Root, "gather", "clear")
    /\ UNCHANGED <<pSync, poke, i, pokes, acks>>

(* Faulty variant: the root leaves its pSync as the pokes made it.         *)
Clear_Forgotten ==
    /\ Within(Root, "clear", "scatter")
    /\ i' = 1
    /\ UNCHANGED <<pSync, poke, pokes, acks>>

Clear ==
    /\ Within(Root, "clear", "scatter")
    /\ pSync' = [pSync EXCEPT ![Root] = SHMEM_SYNC_VALUE]
    /\ i' = 1
    /\ UNCHANGED <<poke, pokes, acks>>

Scatter ==
    /\ i < size
    /\ Within(Root, "scatter", "scatter")
    /\ acks' = acks \union {[to |-> Rank(i), val |-> poke]}
    /\ i' = i + 1
    /\ UNCHANGED <<pSync, poke, pokes>>

ScatterDone ==
    /\ i = size
    /\ Return(Root, "scatter")
    /\ UNCHANGED <<pSync, poke, i, pokes, acks>>

(***************************************************************************)
(* The other members.                                                      *)
(***************************************************************************)
PokeRoot(p) ==
    /\ Within(p, "enter", "wait")
    /\ pokes' = pokes \union {p}
    /\ UNCHANGED <<pSync, poke, i, acks>>

WaitAck(p) ==
    /\ pSync[p] # SHMEM_SYNC_VALUE
    /\ Within(p, "wait", "reset")
    /\ UNCHANGED <<pSync, poke, i, pokes, acks>>

ResetAck(p) ==
    /\ Return(p, "reset")
    /\ pSync' = [pSync EXCEPT ![p] = SHMEM_SYNC_VALUE]
    /\ UNCHANGED <<poke, i, pokes, acks>>

(***************************************************************************)
(* Posted operations reach their PE.                                       *)
(***************************************************************************)
DeliverPoke(p) ==
    /\ pokes' = pokes \ {p}
    /\ pSync' = [pSync EXCEPT ![Root] = @ + 1]
    /\ UNCHANGED <<callVars, poke, i, acks>>

DeliverAck(a) ==
    /\ acks' = acks \ {a}
    /\ pSync' = [pSync EXCEPT ![a.to] = a.val]
    /\ UNCHANGED <<callVars, poke, i, pokes>>

Deliver ==
    \/ \E p \in pokes : DeliverPoke(p)
    \/ \E a \in acks : DeliverAck(a)
    \/ \E w \in writes : DeliverWrite(w) /\ UNCHANGED <<pSync, poke, i, pokes, acks>>

RootStep == ReadPoke \/ Gather \/ Clear \/ Scatter \/ ScatterDone
OtherStep(p) == PokeRoot(p) \/ WaitAck(p) \/ ResetAck(p)

(* What a member does in its calls, one step at a time. *)
Run(p) ==
    \/ CallStep(p)
    \/ p = Root /\ RootStep
    \/ p \in Others /\ OtherStep(p)

Next ==
    \/ \E p \in Members : ProgramWrites(p) \/ Run(p)
    \/ Deliver
    \/ Finished /\ UNCHANGED vars

Spec == Init /\ [][Next]_vars

(* The acknowledgement is never the value the members wait to see change,  *)
(* however many pokes the root finds when it reads its pSync.              *)
AckIsNews == \A a \in acks : a.val # SHMEM_SYNC_VALUE

(* api.h:739: pSync is as it was before the call once the members are out. *)
PSyncRestored ==
    (\A p \in Members : pc[p] = "out") =>
        /\ pokes = {} /\ acks = {}
        /\ \A p \in Members : pSync[p] = SHMEM_SYNC_VALUE

=============================================================================
