------------------------------- MODULE Collect -------------------------------
(***************************************************************************)
(* shmemc_collect of src/shmemc/collect.c, with the tree barrier (the      *)
(* default) it ends in.  The offset of each member's slice comes from its  *)
(* left neighbour, in the same pSync word that the barrier counts in.      *)
(* A member's slice, put to every member, is one element of "writes".      *)
(***************************************************************************)
EXTENDS TreeBarrier, FiniteSetsExt

CONSTANT nelems            \* how many elements each member contributes

ASSUME NelemsAssumption == nelems \in [Members -> Nat]

(* The program hands each call a pSync no earlier call can still reach: a  *)
(* member may leave while others are in the barrier, and the offset of its *)
(* next collect would fall among their counts.                             *)
ASSUME OneCall == MaxEpisodes = 1

VARIABLES
    offs,                  \* offsets in flight to a right neighbour
    tidx                   \* where each member put its slice, -1 before it has

collectVars == <<vars, offs, tidx>>

last_pe == start + stride * (size - 1)
Total   == MapThenSumSet(LAMBDA p : nelems[p], Members)

(* The slices are concatenated in PE order.                                *)
OffsetOf(p) == MapThenSumSet(LAMBDA q : nelems[q], {q \in Members : q < p})

CollectTypeOK ==
    /\ CallsTypeOK
    /\ pc \in [Members -> {"out", "init", "forward", "index", "send", "cleanup",
                           "quiet", "enter", "gather", "up", "down", "clear", "poke"}]
    /\ pSync \in [Members -> 0 .. Total + tree_degree + 1]
    /\ child \in [Members -> -1 .. size]
    /\ pokes \in SUBSET Members
    /\ offs \in SUBSET [to : Members, val : 0 .. Total]
    /\ tidx \in [Members -> -1 .. Total + tree_degree + 1]

CollectInit ==
    /\ Init
    /\ kind = [e \in 1 .. MaxEpisodes |-> "barrier"]
    /\ offs = {}
    /\ tidx = [p \in Members |-> -1]

CallCollect(p) ==
    /\ Goto(p, "out", "init")
    /\ entered[p] < MaxEpisodes
    /\ entered' = [entered EXCEPT ![p] = @ + 1]
    /\ tidx' = [tidx EXCEPT ![p] = -1]
    /\ UNCHANGED <<kind, left, writes, pSync, child, pokes, offs>>

InitLeftMost(p) ==
    /\ p = start
    /\ Within(p, "init", "forward")
    /\ pSync' = [pSync EXCEPT ![p] = 0]
    /\ UNCHANGED <<child, pokes, offs, tidx>>

WaitOffset(p) ==
    /\ p # start
    /\ pSync[p] # SHMEM_SYNC_VALUE
    /\ Within(p, "init", "forward")
    /\ UNCHANGED <<pSync, child, pokes, offs, tidx>>

(* Faulty variants: the neighbour is told where this slice starts; its     *)
(* length is added twice.                                                  *)
ForwardOffset_Start(p) ==
    /\ Within(p, "forward", "index")
    /\ offs' = IF p < last_pe
                  THEN offs \union {[to |-> p + stride, val |-> pSync[p]]}
                  ELSE offs
    /\ UNCHANGED <<pSync, child, pokes, tidx>>

ForwardOffset_Twice(p) ==
    /\ Within(p, "forward", "index")
    /\ offs' = IF p < last_pe
                  THEN offs \union {[to |-> p + stride, val |-> pSync[p] + 2 * nelems[p]]}
                  ELSE offs
    /\ UNCHANGED <<pSync, child, pokes, tidx>>

ForwardOffset(p) ==
    /\ Within(p, "forward", "index")
    /\ offs' = IF p < last_pe
                  THEN offs \union {[to |-> p + stride, val |-> pSync[p] + nelems[p]]}
                  ELSE offs
    /\ UNCHANGED <<pSync, child, pokes, tidx>>

(* Faulty variant: the slice is put behind its place.                      *)
ReadIndex_End(p) ==
    /\ Within(p, "index", "send")
    /\ tidx' = [tidx EXCEPT ![p] = pSync[p] + nelems[p]]
    /\ UNCHANGED <<pSync, child, pokes, offs>>

(* pSync is read again, after the right neighbour has been let go.         *)
ReadIndex(p) ==
    /\ Within(p, "index", "send")
    /\ tidx' = [tidx EXCEPT ![p] = pSync[p]]
    /\ UNCHANGED <<pSync, child, pokes, offs>>

SendSlice(p) ==
    /\ Goto(p, "send", "cleanup")
    /\ writes' = writes \union {[from |-> p, ep |-> entered[p]]}
    /\ UNCHANGED <<kind, entered, left, pSync, child, pokes, offs, tidx>>

CleanUp(p) ==
    /\ Within(p, "cleanup", "quiet")
    /\ pSync' = [pSync EXCEPT ![p] = SHMEM_SYNC_VALUE]
    /\ UNCHANGED <<child, pokes, offs, tidx>>

(* The quiet of the closing barrier also waits for the forwarded offset.   *)
Flushing(p) == Pending(p) \/ \E o \in offs : o.to = p + stride

(* Faulty variant: the closing barrier is a shmem_sync.                    *)
QuietSlices_Skipped(p) ==
    /\ Within(p, "quiet", "enter")
    /\ UNCHANGED <<pSync, child, pokes, offs, tidx>>

QuietSlices(p) ==
    /\ Quiet(p, Flushing(p), "enter")
    /\ UNCHANGED <<pSync, child, pokes, offs, tidx>>

DeliverOffset(o) ==
    /\ offs' = offs \ {o}
    /\ pSync' = [pSync EXCEPT ![o.to] = o.val]
    /\ UNCHANGED <<callVars, child, pokes, tidx>>

CollectStep(p) ==
    \/ CallCollect(p) \/ InitLeftMost(p) \/ WaitOffset(p) \/ ForwardOffset(p)
    \/ ReadIndex(p) \/ SendSlice(p) \/ CleanUp(p) \/ QuietSlices(p)
    \/ Step(p) /\ UNCHANGED <<offs, tidx>>

CollectDeliver ==
    \/ Deliver /\ UNCHANGED <<offs, tidx>>
    \/ \E o \in offs : DeliverOffset(o)

CollectNext ==
    \/ \E p \in Members : CollectStep(p)
    \/ CollectDeliver
    \/ Finished /\ UNCHANGED collectVars

CollectSpec == CollectInit /\ [][CollectNext]_collectVars

CollectFairSpec ==
    /\ CollectSpec
    /\ \A p \in Members : WF_collectVars(CollectStep(p))
    /\ WF_collectVars(CollectDeliver)

-----------------------------------------------------------------------------
(* The wave of offsets is right: what a member is told is the sum of what  *)
(* the members to its left contribute.                                     *)
OffsetsInOrder == \A o \in offs : o.val = OffsetOf(o.to)

(* A member nobody pokes in the barrier puts its slice where it belongs.   *)
LeavesInOrder ==
    \A p \in Members : ChildrenOf(p) = {} => tidx[p] \in {-1, OffsetOf(p)}

=============================================================================
