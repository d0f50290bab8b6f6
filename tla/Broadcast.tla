----------------------------- MODULE Broadcast -----------------------------
(***************************************************************************)
(* The broadcasts of src/shmemc/broadcast.c.  In the three tree-shaped     *)
(* ones data goes down a tree by put, fence and increment of the child's   *)
(* pSync; a child acknowledges by an increment of its parent's pSync, on   *)
(* the same word.  In the linear one everybody meets in a barrier (here    *)
(* what AbstractBarrier promises and Barriers is shown to do) and gets     *)
(* the data from the root.                                                 *)
(*                                                                         *)
(* "posted" holds the puts and increments that have not been applied yet.  *)
(* shmemc_fence starts a new generation of the caller's operations: those  *)
(* of an older one reach a given PE first.                                 *)
(***************************************************************************)
EXTENDS Integers, FiniteSets

CONSTANTS
    PE_start, logPE_stride, PE_size,   \* the active set
    MaxCalls                           \* bound: broadcasts made one by one

ASSUME BroadcastAssumption ==
    /\ PE_start \in Nat /\ logPE_stride \in Nat /\ PE_size \in Nat \ {0}
    /\ MaxCalls \in Nat

SHMEM_SYNC_VALUE      == 0
broadcast_tree_degree == 2

stride  == 2 ^ logPE_stride
Members == {PE_start + i * stride : i \in 0 .. PE_size - 1}

VARIABLES
    broadcast_helper,      \* the algorithm shmemc_broadcast_init has installed
    PE_root,               \* the root's index in the active set
    pc,                    \* where each member is in its call
    calls,                 \* broadcasts each member has called
    pSync,                 \* the first word of pSync, on every member
    target,                \* what the target array holds: a broadcast's number
    todo,                  \* children the running loop has still to serve
    gen,                   \* fences each member has made in this call
    posted                 \* operations in flight

setup == <<broadcast_helper, PE_root>>
vars == <<setup, pc, calls, pSync, target, todo, gen, posted>>

-----------------------------------------------------------------------------
(* The tree is over virtual indices, in which 0 and PE_root are swapped.   *)
Swap(n)  == CASE n = PE_root -> 0 [] n = 0 -> PE_root [] OTHER -> n
me_as(p) == Swap((p - PE_start) \div stride)
Pe(n)    == PE_start + (IF n = PE_root THEN 0 ELSE n) * stride
Root     == PE_start + PE_root * stride

(* The lowest set bit of n: n & ~(n - 1).                                  *)
LowBit(n) == CHOOSE b \in {2 ^ k : k \in 0 .. n} : n % b = 0 /\ (n \div b) % 2 = 1

(* Faulty variants: the range is not cut at the end of the tree; it        *)
(* includes its end.                                                       *)
TreeChildren_Unbounded(n) ==
    n * broadcast_tree_degree + 1 .. n * broadcast_tree_degree + broadcast_tree_degree

TreeChildren_Inclusive(n) ==
    {c \in 0 .. PE_size - 1 :
        /\ c >= n * broadcast_tree_degree + 1
        /\ c <= n * broadcast_tree_degree + 1 + broadcast_tree_degree}

TreeChildren(n) ==
    {c \in 0 .. PE_size - 1 :
        /\ c >= n * broadcast_tree_degree + 1
        /\ c < n * broadcast_tree_degree + 1 + broadcast_tree_degree}

(* shmemc_get_children_info_binomial: n with one bit set below its lowest. *)
BinomialChildren(n) ==
    {c \in 0 .. PE_size - 1 : \E k \in 0 .. PE_size :
        c = n + 2 ^ k /\ (n # 0 => 2 ^ k < LowBit(n))}

Children(p) ==
    IF broadcast_helper = "tree" THEN TreeChildren(me_as(p)) ELSE BinomialChildren(me_as(p))

(* The parent's virtual index: get_parent_binomial clears the lowest bit.  *)
ParentIndex(n) ==
    IF broadcast_helper = "tree" THEN (n - 1) \div broadcast_tree_degree ELSE n - LowBit(n)
Parent(p) == PE_start + Swap(ParentIndex(me_as(p))) * stride

num_children(p) == Cardinality(Children(p))

(* Children are served in the order of the loop over the children array.   *)
FirstOf(S) ==
    IF broadcast_helper = "tree" THEN CHOOSE c \in S : \A d \in S : c <= d
                     ELSE CHOOSE c \in S : \A d \in S : c >= d

-----------------------------------------------------------------------------
TypeOK ==
    /\ broadcast_helper \in {"linear", "tree", "binomial", "binomial2"}
    /\ PE_root \in 0 .. PE_size - 1
    /\ pc \in [Members -> {"out", "barrier", "get", "wait", "ack", "begin",
                           "put", "fence", "inc", "gather", "reset"}]
    /\ calls \in [Members -> 0 .. MaxCalls]
    /\ pSync \in [Members -> 0 .. PE_size]
    /\ target \in [Members -> 0 .. MaxCalls]
    /\ todo \in [Members -> SUBSET (0 .. PE_size - 1)]
    /\ gen \in [Members -> 0 .. PE_size]
    /\ posted \in SUBSET [from : Members, to : Members, kind : {"data", "inc"},
                          val : 0 .. MaxCalls, gen : 0 .. PE_size]

Init ==
    /\ broadcast_helper \in {"linear", "tree", "binomial", "binomial2"}
    /\ PE_root \in 0 .. PE_size - 1
    /\ pc = [p \in Members |-> "out"]
    /\ calls = [p \in Members |-> 0]
    /\ pSync = [p \in Members |-> SHMEM_SYNC_VALUE]
    /\ target = [p \in Members |-> 0]
    /\ todo = [p \in Members |-> {}]
    /\ gen = [p \in Members |-> 0]
    /\ posted = {}

Goto(p, from, to) ==
    /\ pc[p] = from
    /\ pc' = [pc EXCEPT ![p] = to]
    /\ UNCHANGED setup

Post(p, to, kind, val) ==
    posted' = posted \union
        {[from |-> p, to |-> to, kind |-> kind, val |-> val, gen |-> gen[p]]}

(* The program separates two broadcasts over the same pSync by a barrier:  *)
(* a member calls again when nobody is left in the previous one and        *)
(* whatever it posted has arrived.                                         *)
Call(p) ==
    /\ calls[p] < MaxCalls
    /\ \A q \in Members : calls[q] >= calls[p] /\ (calls[q] = calls[p] => pc[q] = "out")
    /\ \A m \in posted : calls[m.from] > calls[p]
    /\ Goto(p, "out", IF broadcast_helper = "linear" THEN "barrier"
                      ELSE IF p = Root THEN "begin" ELSE "wait")
    /\ calls' = [calls EXCEPT ![p] = @ + 1]
    /\ gen' = [gen EXCEPT ![p] = 0]
    /\ UNCHANGED <<pSync, target, todo, posted>>

LeaveBarrier(p) ==
    /\ \A q \in Members : calls[q] >= calls[p]
    /\ Goto(p, "barrier", IF p = Root THEN "out" ELSE "get")
    /\ UNCHANGED <<calls, pSync, target, todo, gen, posted>>

(* shmemc_get blocks until the data is here: the root's, of this call.     *)
GetData(p) ==
    /\ Goto(p, "get", "out")
    /\ target' = [target EXCEPT ![p] = calls[Root]]
    /\ UNCHANGED <<calls, pSync, todo, gen, posted>>

WaitParent(p) ==
    /\ pSync[p] # SHMEM_SYNC_VALUE
    /\ Goto(p, "wait", "ack")
    /\ UNCHANGED <<calls, pSync, target, todo, gen, posted>>

(* Faulty variant: the acknowledgement goes up the unswapped tree.         *)
SendAck_Unswapped(p) ==
    /\ Goto(p, "ack", "begin")
    /\ Post(p, Pe(ParentIndex(me_as(p))), "inc", 0)
    /\ UNCHANGED <<calls, pSync, target, todo, gen>>

SendAck(p) ==
    /\ Goto(p, "ack", "begin")
    /\ Post(p, Parent(p), "inc", 0)
    /\ UNCHANGED <<calls, pSync, target, todo, gen>>

Begin(p) ==
    /\ Goto(p, "begin", IF Children(p) = {} THEN "reset" ELSE "put")
    /\ todo' = [todo EXCEPT ![p] = Children(p)]
    /\ UNCHANGED <<calls, pSync, target, gen, posted>>

(* The root sends its source, the others what they have in target.         *)
PutData(p) ==
    LET c == FirstOf(todo[p])
        last == broadcast_helper = "binomial" \/ todo[p] = {c}
    IN  /\ Goto(p, "put", IF last THEN "fence" ELSE "put")
        /\ Post(p, Pe(c), "data", IF p = Root THEN calls[p] ELSE target[p])
        /\ todo' = IF broadcast_helper = "binomial" THEN todo
                   ELSE [todo EXCEPT ![p] = @ \ {c}]
        /\ UNCHANGED <<calls, pSync, target, gen>>

(* tree and binomial2 now start their second loop over the children.       *)
Restart(p) == todo' = [todo EXCEPT ![p] = IF broadcast_helper = "binomial" THEN @ ELSE Children(p)]

(* Faulty variant: nothing orders the increments behind the data.          *)
Fence_Skipped(p) ==
    /\ Goto(p, "fence", "inc")
    /\ Restart(p)
    /\ UNCHANGED <<calls, pSync, target, gen, posted>>

Fence(p) ==
    /\ Goto(p, "fence", "inc")
    /\ gen' = [gen EXCEPT ![p] = @ + 1]
    /\ Restart(p)
    /\ UNCHANGED <<calls, pSync, target, posted>>

IncChild(p) ==
    LET c == FirstOf(todo[p])
    IN  /\ Goto(p, "inc", IF todo[p] = {c} THEN "gather"
                          ELSE IF broadcast_helper = "binomial" THEN "put" ELSE "inc")
        /\ Post(p, Pe(c), "inc", 0)
        /\ todo' = [todo EXCEPT ![p] = @ \ {c}]
        /\ UNCHANGED <<calls, pSync, target, gen>>

Expected(p) == SHMEM_SYNC_VALUE + num_children(p) + (IF p = Root THEN 0 ELSE 1)

(* Faulty variant: the parent's own poke is not counted.                   *)
GatherAcks_Uncounted(p) ==
    /\ pSync[p] = SHMEM_SYNC_VALUE + num_children(p)
    /\ Goto(p, "gather", "reset")
    /\ UNCHANGED <<calls, pSync, target, todo, gen, posted>>

GatherAcks(p) ==
    /\ pSync[p] = Expected(p)
    /\ Goto(p, "gather", "reset")
    /\ UNCHANGED <<calls, pSync, target, todo, gen, posted>>

(* Faulty variant: a leaf does not reset its pSync.                        *)
Reset_Leaf(p) ==
    /\ Goto(p, "reset", "out")
    /\ pSync' = [pSync EXCEPT ![p] = IF Children(p) = {} THEN @ ELSE SHMEM_SYNC_VALUE]
    /\ UNCHANGED <<calls, target, todo, gen, posted>>

Reset(p) ==
    /\ Goto(p, "reset", "out")
    /\ pSync' = [pSync EXCEPT ![p] = SHMEM_SYNC_VALUE]
    /\ UNCHANGED <<calls, target, todo, gen, posted>>

Deliver(m) ==
    /\ \A n \in posted : n.from = m.from /\ n.to = m.to => n.gen >= m.gen
    /\ posted' = posted \ {m}
    /\ IF m.kind = "data"
          THEN target' = [target EXCEPT ![m.to] = m.val] /\ UNCHANGED pSync
          ELSE pSync' = [pSync EXCEPT ![m.to] = @ + 1] /\ UNCHANGED target
    /\ UNCHANGED <<setup, pc, calls, todo, gen>>

Step(p) ==
    \/ Call(p) \/ LeaveBarrier(p) \/ GetData(p) \/ WaitParent(p)
    \/ SendAck(p) \/ Begin(p) \/ PutData(p) \/ Fence(p) \/ IncChild(p) \/ GatherAcks(p) \/ Reset(p)

Finished == \A p \in Members : calls[p] = MaxCalls /\ pc[p] = "out"

Next ==
    \/ \E p \in Members : Step(p)
    \/ \E m \in posted : Deliver(m)
    \/ Finished /\ UNCHANGED vars

Spec == Init /\ [][Next]_vars

(* All members call; they run or spin; what is posted is applied.          *)
Fairness ==
    /\ \A p \in Members : WF_vars(Step(p))
    /\ WF_vars(\E m \in posted : Deliver(m))

FairSpec == Spec /\ Fairness

-----------------------------------------------------------------------------
(* A member that is back from its n-th broadcast has the n-th data, or     *)
(* already that of the next one if the root is ahead.  In a tree this      *)
(* rests on the fence, data before increment, at every level.              *)
DataOnReturn ==
    \A p \in Members \ {Root} :
        pc[p] \notin {"barrier", "get", "wait", "ack"} =>
            target[p] = calls[p] \/ target[p] \in calls[p] + 1 .. calls[Root]

(* When a member is back from a tree broadcast its puts have been applied: *)
(* its children have acknowledged them.  The linear broadcast does not     *)
(* have this: its root is back while the others still get from its source. *)
ServedOnReturn ==
    broadcast_helper # "linear" =>
        \A m \in posted : m.kind = "data" => pc[m.from] # "out"

(* Both kinds of increment share one word and GatherAcks tests equality:   *)
(* one increment too many, or one from a PE that is no child, would hang.  *)
NoExtraPoke == \A p \in Members : pSync[p] <= Expected(p)

(* Each increment in flight goes along an edge of the tree, one way or the *)
(* other: the children's and the parents' view of the swapped tree agree.  *)
OneTree ==
    \A m \in posted : \/ m.from # Root /\ m.to = Parent(m.from)
                      \/ m.to # Root /\ m.from = Parent(m.to)

(* pSync holds SHMEM_SYNC_VALUE again when all are out and all is applied. *)
PSyncRestored ==
    posted = {} /\ (\A p \in Members : pc[p] = "out") =>
        \A p \in Members : pSync[p] = SHMEM_SYNC_VALUE

EveryCallReturns == \A p \in Members : pc[p] # "out" ~> pc[p] = "out"

=============================================================================
