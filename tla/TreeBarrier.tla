---------------------------- MODULE TreeBarrier ----------------------------
(***************************************************************************)
(* barrier_sync_helper_tree of src/shmemc/barrier.c: pokes climb a tree of *)
(* degree 2 from the leaves to the root, and come back down.  A member's   *)
(* one pSync word counts the pokes of its children and then its parent's.  *)
(***************************************************************************)
EXTENDS BarrierCalls

VARIABLES
    pSync,                 \* the first word of pSync, on every member
    child,                 \* each member's loop counter over its children
    pokes                  \* members an increment of whose pSync is in flight

vars == <<callVars, pSync, child, pokes>>

tree_degree == 2

(* shmemc_get_children_info: children are a range of indices, [begin, end).*)
childrenBegin(n) == IF n * tree_degree + 1 >= size THEN -1 ELSE n * tree_degree + 1

(* Faulty variant: the range is not cut at the end of the active set.      *)
childrenEnd_Uncut(n) ==
    IF n * tree_degree + 1 >= size THEN -1 ELSE n * tree_degree + 1 + tree_degree

childrenEnd(n) ==
    IF n * tree_degree + 1 >= size THEN -1
    ELSE IF n * tree_degree + 1 + tree_degree > size THEN size
    ELSE n * tree_degree + 1 + tree_degree

npokes(p)    == childrenEnd(Index(p)) - childrenBegin(Index(p))
Root         == start
ParentOf(p)  == start + ((Index(p) - 1) \div tree_degree) * stride
ChildrenOf(p) == {c \in Members \ {Root} : ParentOf(c) = p}

TypeOK ==
    /\ CallsTypeOK
    /\ pc \in [Members -> {"out", "quiet", "enter", "gather", "up", "down",
                           "clear", "poke"}]
    /\ pSync \in [Members -> 0 .. tree_degree + 1]
    /\ child \in [Members -> -1 .. size]
    /\ pokes \in SUBSET Members

Init ==
    /\ CallsInit
    /\ pSync = [p \in Members |-> SHMEM_SYNC_VALUE]
    /\ child = [p \in Members |-> -1]
    /\ pokes = {}

Pending(p) == pokes \intersect ChildrenOf(p) # {}

CallStep(p) ==
    /\ Call(p) \/ Quiet(p, Pending(p), "enter")
    /\ UNCHANGED <<pSync, child, pokes>>

ProgramWrites(p) == Write(p) /\ UNCHANGED <<pSync, child, pokes>>

(* A leaf has nobody to wait for. *)
Begin(p) ==
    /\ Within(p, "enter", IF npokes(p) # 0 THEN "gather"
                          ELSE IF p # Root THEN "up" ELSE "clear")
    /\ UNCHANGED <<pSync, child, pokes>>

(* Faulty variant: one child is enough.                                    *)
Gather_First(p) ==
    /\ pSync[p] # SHMEM_SYNC_VALUE
    /\ Within(p, "gather", IF p # Root THEN "up" ELSE "clear")
    /\ UNCHANGED <<pSync, child, pokes>>

Gather(p) ==
    /\ pSync[p] = SHMEM_SYNC_VALUE + npokes(p)
    /\ Within(p, "gather", IF p # Root THEN "up" ELSE "clear")
    /\ UNCHANGED <<pSync, child, pokes>>

(* A fetching increment: it has been applied when it returns.              *)
PokeParent(p) ==
    /\ Within(p, "up", "down")
    /\ pSync' = [pSync EXCEPT ![ParentOf(p)] = @ + 1]
    /\ UNCHANGED <<child, pokes>>

(* Faulty variant: the wait forgets that the pokes are still counted.      *)
WaitParent_Any(p) ==
    /\ pSync[p] # SHMEM_SYNC_VALUE
    /\ Within(p, "down", "clear")
    /\ UNCHANGED <<pSync, child, pokes>>

WaitParent(p) ==
    /\ pSync[p] = SHMEM_SYNC_VALUE + npokes(p) + 1
    /\ Within(p, "down", "clear")
    /\ UNCHANGED <<pSync, child, pokes>>

(* Faulty variant: pSync keeps the count.                                  *)
Clear_Forgotten(p) ==
    /\ Within(p, "clear", "poke")
    /\ child' = [child EXCEPT ![p] = childrenBegin(Index(p))]
    /\ UNCHANGED <<pSync, pokes>>

Clear(p) ==
    /\ Within(p, "clear", "poke")
    /\ pSync' = [pSync EXCEPT ![p] = SHMEM_SYNC_VALUE]
    /\ child' = [child EXCEPT ![p] = childrenBegin(Index(p))]
    /\ UNCHANGED pokes

PokeChild(p) ==
    /\ child[p] # childrenEnd(Index(p))
    /\ Within(p, "poke", "poke")
    /\ pokes' = pokes \union {Rank(child[p])}
    /\ child' = [child EXCEPT ![p] = @ + 1]
    /\ UNCHANGED pSync

Done(p) ==
    /\ child[p] = childrenEnd(Index(p))
    /\ Return(p, "poke")
    /\ UNCHANGED <<pSync, child, pokes>>

DeliverPoke(p) ==
    /\ pokes' = pokes \ {p}
    /\ pSync' = [pSync EXCEPT ![p] = @ + 1]
    /\ UNCHANGED <<callVars, child>>

Deliver ==
    \/ \E p \in pokes : DeliverPoke(p)
    \/ \E w \in writes : DeliverWrite(w) /\ UNCHANGED <<pSync, child, pokes>>

Step(p) ==
    \/ Begin(p) \/ Gather(p) \/ PokeParent(p) \/ WaitParent(p)
    \/ Clear(p) \/ PokeChild(p) \/ Done(p)

Run(p) == CallStep(p) \/ Step(p)

Next ==
    \/ \E p \in Members : ProgramWrites(p) \/ Run(p)
    \/ Deliver
    \/ Finished /\ UNCHANGED vars

Spec == Init /\ [][Next]_vars

(* The count a member waits for is never overshot: both waits test for     *)
(* equality, so one poke too many would hang the member for good.          *)
NoExtraPoke ==
    \A p \in Members :
        /\ pc[p] = "gather" => pSync[p] <= npokes(p)
        /\ pSync[p] <= npokes(p) + 1

(* api.h:739: pSync is as it was before the call once the members are out. *)
PSyncRestored ==
    (\A p \in Members : pc[p] = "out") =>
        /\ pokes = {}
        /\ \A p \in Members : pSync[p] = SHMEM_SYNC_VALUE

=============================================================================
