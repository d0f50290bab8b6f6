---------------------------- MODULE BarrierCalls ----------------------------
(***************************************************************************)
(* What the three barrier algorithms of src/shmemc/barrier.c share: the    *)
(* active set, the calls of shmem_barrier and shmem_sync, the flush that   *)
(* shmem_barrier starts with, and the puts of the program it flushes.      *)
(* LinearBarrier, TreeBarrier and DisseminationBarrier extend this module; *)
(* Barriers puts them together.                                            *)
(***************************************************************************)
EXTENDS Integers, FiniteSets

CONSTANTS
    start, log2stride, size,   \* the active set, as the program passes it
    MaxEpisodes,               \* bound: how often each PE calls
    Writers                    \* bound: the members that put between calls

ASSUME ActiveSetAssumption ==
    /\ start \in Nat /\ log2stride \in Nat /\ size \in Nat \ {0}
    /\ MaxEpisodes \in Nat

SHMEM_SYNC_VALUE == 0

stride   == 2 ^ log2stride
Rank(i)  == start + i * stride
Members  == {Rank(i) : i \in 0 .. size - 1}
Index(p) == (p - start) \div stride    \* me_as

ASSUME WritersAssumption == Writers \subseteq Members

VARIABLES
    kind,                  \* what the members call, time after time: "barrier"
                           \* for shmem_barrier, "sync" for shmem_sync
    pc,                    \* where each PE is in its call
    entered, left,         \* calls made and calls returned, per PE
    writes                 \* puts of the program not yet applied: who posted
                           \* it, and before which of its barriers

callVars == <<kind, pc, entered, left, writes>>

CallsTypeOK ==
    /\ kind \in [1 .. MaxEpisodes -> {"barrier", "sync"}]
    /\ entered \in [Members -> 0 .. MaxEpisodes]
    /\ left \in [Members -> 0 .. MaxEpisodes]
    /\ writes \in SUBSET [from : Members, ep : 1 .. MaxEpisodes]

CallsInit ==
    /\ kind \in [1 .. MaxEpisodes -> {"barrier", "sync"}]
    /\ pc = [p \in Members |-> "out"]
    /\ entered = [p \in Members |-> 0]
    /\ left = [p \in Members |-> 0]
    /\ writes = {}

Goto(p, from, to) == pc[p] = from /\ pc' = [pc EXCEPT ![p] = to]

(* Before a shmem_barrier the program may put to another PE.               *)
Write(p) ==
    /\ p \in Writers
    /\ pc[p] = "out"
    /\ entered[p] < MaxEpisodes
    /\ kind[entered[p] + 1] = "barrier"
    /\ writes' = writes \union {[from |-> p, ep |-> entered[p] + 1]}
    /\ UNCHANGED <<kind, pc, entered, left>>

DeliverWrite(w) ==
    /\ writes' = writes \ {w}
    /\ UNCHANGED <<kind, pc, entered, left>>

Call(p) ==
    /\ Goto(p, "out", "quiet")
    /\ entered[p] < MaxEpisodes
    /\ entered' = [entered EXCEPT ![p] = @ + 1]
    /\ UNCHANGED <<kind, left, writes>>

(* Faulty variant: only the algorithm's own operations are waited for.     *)
Quiet_OwnPokes(p, pending, next) ==
    /\ Goto(p, "quiet", next)
    /\ kind[entered[p]] = "barrier" => ~pending
    /\ UNCHANGED <<kind, entered, left, writes>>

(* shmem_barrier starts with shmemc_quiet(), which waits for every put and *)
(* increment the caller has posted; shmem_sync does not.  "pending" says   *)
(* whether the algorithm itself has some in flight.                        *)
Quiet(p, pending, next) ==
    /\ Goto(p, "quiet", next)
    /\ kind[entered[p]] = "barrier" => ~pending /\ \A w \in writes : w.from # p
    /\ UNCHANGED <<kind, entered, left, writes>>

(* A step inside the algorithm. *)
Within(p, from, to) ==
    /\ Goto(p, from, to)
    /\ UNCHANGED <<kind, entered, left, writes>>

(* The last step of the algorithm: the call returns. *)
Return(p, from) ==
    /\ Goto(p, from, "out")
    /\ left' = [left EXCEPT ![p] = @ + 1]
    /\ UNCHANGED <<kind, entered, writes>>

Finished == \A p \in Members : left[p] = MaxEpisodes

(***************************************************************************)
(* Properties common to the algorithms.                                    *)
(***************************************************************************)

(* A member has one call at a time: it has made one more than it has       *)
(* returned from exactly while it is in one.                               *)
OneCallEach ==
    \A p \in Members : entered[p] = IF pc[p] = "out" THEN left[p] ELSE left[p] + 1

(* The calls whose flush, if any, a member has behind it.                  *)
Arrived(p) == IF pc[p] = "quiet" THEN entered[p] - 1 ELSE entered[p]

(* What the algorithms must see to: a call returns nowhere before every    *)
(* member has arrived.                                                     *)
NobodyEarly == \A p, q \in Members : left[p] <= Arrived(q)

(* A put of the program still in flight belongs to a shmem_barrier its     *)
(* PE has not flushed yet.                                                 *)
WritesAreBefore ==
    \A w \in writes : kind[w.ep] = "barrier" /\ w.ep = Arrived(w.from) + 1

(* A step of any of the algorithms, as far as the calls are concerned: the *)
(* program puts or calls, a put arrives, or a member in a call goes on,    *)
(* past its flush, within the algorithm or out of it.                      *)
CallsStep ==
    \/ \E p \in Members : Write(p) \/ Call(p)
    \/ \E w \in writes : DeliverWrite(w)
    \/ \E p \in Members :
        /\ pc[p] # "out" /\ pc'[p] # "quiet"
        /\ \A q \in Members \ {p} : pc'[q] = pc[q]
        /\ pc[p] = "quiet" /\ kind[entered[p]] = "barrier" => \A w \in writes : w.from # p
        /\ left' = IF pc'[p] = "out" THEN [left EXCEPT ![p] = @ + 1] ELSE left
        /\ UNCHANGED <<kind, entered, writes>>
    \/ UNCHANGED callVars

Promise == INSTANCE AbstractBarrier

(* The barrier keeps its promise: nobody leaves before all have entered.   *)
KeepsPromise == Promise!Spec

(* api.h:736: "Communication is also flushed before return": a put posted  *)
(* by any member before a shmem_barrier has been applied when any member   *)
(* leaves that barrier.                                                    *)
FlushedOnReturn ==
    \A w \in writes : \A p \in Members : left[p] < w.ep

(* Once every member calls, every call returns.                            *)
EveryCallReturns ==
    \A p \in Members : entered[p] > left[p] ~> entered[p] = left[p]

=============================================================================
