----------------------------- MODULE ShmemLock -----------------------------
(***************************************************************************)
(* The distributed lock of src/shmemc/locks.c: a queue lock in which every *)
(* waiting PE spins on a word of its own.                                  *)
(*                                                                         *)
(* The symmetric lock is two 32-bit words.  The first one, on the PE that  *)
(* lock_owner() picks, names the last PE that queued up ("lock" below).    *)
(* The second one, on every PE, is that PE's queue node: a "locked" flag   *)
(* the PE waits on and the rank of the PE queued behind it ("node").       *)
(*                                                                         *)
(* Swap, compare-and-swap and get return when the remote PE has answered.  *)
(* A put returns when its source can be reused: it stays in "puts" until   *)
(* Deliver applies it, in any order; quiet waits for the caller's puts.    *)
(***************************************************************************)
EXTENDS Integers, Sequences

CONSTANTS
    NRanks,                \* proc.nranks, the size of the job
    PE,                    \* the ranks that use this lock
    LockAddr               \* each PE's own address of the lock

ASSUME RanksAssumption ==
    NRanks \in Nat \ {0} /\ PE \subseteq 0 .. NRanks - 1 /\ PE # {}
ASSUME AddrAssumption  == LockAddr \in [PE -> Nat]

FREE  == -1                \* SHMEM_LOCK_FREE
RESET == 0                 \* SHMEM_LOCK_RESET

(* The rank as an int16_t: "locked" and "next" are 16 bits wide. *)
Int16(r) == ((r + 32768) % 65536) - 32768

(* Each PE computes the owner from its own virtual address of the lock. *)
LockOwner(p) == (LockAddr[p] \div 8) % NRanks
Owners       == {LockOwner(p) : p \in PE}

Word(l, n)   == [locked |-> l, next |-> n]
ResetWord    == Word(RESET, RESET)
FreeWord     == Word(FREE, FREE)
TakenBy(p)   == Word(1, Int16(p))
AsReset(w)   == IF w = FreeWord THEN ResetWord ELSE w

VARIABLES
    pc,                    \* where each PE is in its use of the lock
    lock,                  \* lp[0] on every owner
    node,                  \* lp[1] on every PE
    pred,                  \* t.d.next after the swap of set_lock
    testing,               \* the call in progress is shmem_test_lock
    ret,                   \* what the last shmem_test_lock returned
    puts,                  \* puts posted and not yet applied
    queue                  \* history: who swapped into each owner's word and
                           \* has not released it, in order; guards nothing

vars == <<pc, lock, node, pred, testing, ret, puts, queue>>

NoRet == -1                \* no value returned yet

Outside   == {"idle", "get", "reset", "swap"}
Queueing  == {"mark", "link", "wait"}
Releasing == {"quiet", "check", "cswap", "waitnext", "grant"}
Holding   == {"cs"} \union Releasing
PCs       == Outside \union Queueing \union Holding

Ranks16 == {Int16(p) : p \in PE}
Words   == [locked : {0, 1}, next : Ranks16 \union {RESET}]
Nodes   == [locked : {0, 1}, next : Ranks16 \union {FREE, RESET}]

Put(f, t, field, v) == [from |-> f, to |-> t, field |-> field, val |-> v]
LinkPut(p, t)  == Put(p, t, "next", Int16(p))
GrantPut(p, t) == Put(p, t, "locked", 0)
DataPut(p)     == Put(p, p, "data", 0)  \* where it lands plays no part
Targets == PE \union Ranks16 \union {FREE, RESET}
Puts == [from : PE, to : Targets, field : {"next"}, val : Ranks16]
          \union [from : PE, to : Targets, field : {"locked", "data"}, val : {0}]

(* Type invariant.  "locked" and "next" stay within what 16 bits hold. *)
TypeOK ==
    /\ pc \in [PE -> PCs]
    /\ lock \in [Owners -> Words]
    /\ node \in [PE -> Nodes]
    /\ pred \in [PE -> Ranks16 \union {RESET}]
    /\ testing \in [PE -> BOOLEAN]
    /\ ret \in [PE -> {NoRet, 0, 1}]
    /\ puts \in SUBSET Puts
    /\ queue \in [Owners -> Seq(PE)]

(* A lock variable starts as zeroes, and so do the queue nodes in it. *)
Init ==
    /\ pc = [p \in PE |-> "idle"]
    /\ lock = [o \in Owners |-> ResetWord]
    /\ node = [p \in PE |-> ResetWord]
    /\ pred = [p \in PE |-> RESET]
    /\ testing = [p \in PE |-> FALSE]
    /\ ret = [p \in PE |-> NoRet]
    /\ puts = {}
    /\ queue = [o \in Owners |-> <<>>]

Goto(p, from, to) == pc[p] = from /\ pc' = [pc EXCEPT ![p] = to]

(* set_lock returns, and test_lock after it with ret = 0. *)
Acquired(p, from) ==
    /\ Goto(p, from, "cs")
    /\ ret' = IF testing[p] THEN [ret EXCEPT ![p] = 0] ELSE ret

(***************************************************************************)
(* shmem_test_lock                                                         *)
(***************************************************************************)
CallTest(p) ==
    /\ Goto(p, "idle", "get")
    /\ testing' = [testing EXCEPT ![p] = TRUE]
    /\ ret' = [ret EXCEPT ![p] = NoRet]
    /\ UNCHANGED <<lock, node, pred, puts, queue>>

(* A free word sends the caller into set_lock, whatever it finds there. *)
GetFree(p) ==
    /\ AsReset(lock[LockOwner(p)]) = ResetWord
    /\ Goto(p, "get", "reset")
    /\ UNCHANGED <<lock, node, pred, testing, ret, puts, queue>>

GetTaken(p) ==
    /\ AsReset(lock[LockOwner(p)]) # ResetWord
    /\ Goto(p, "get", "idle")
    /\ ret' = [ret EXCEPT ![p] = 1]
    /\ UNCHANGED <<lock, node, pred, testing, puts, queue>>

(***************************************************************************)
(* shmem_set_lock                                                          *)
(***************************************************************************)
CallSet(p) ==
    /\ Goto(p, "idle", "reset")
    /\ testing' = [testing EXCEPT ![p] = FALSE]
    /\ ret' = [ret EXCEPT ![p] = NoRet]
    /\ UNCHANGED <<lock, node, pred, puts, queue>>

(* Faulty variant: the node keeps the successor of an earlier claim.       *)
ResetNext_Skipped(p) ==
    /\ Goto(p, "reset", "swap")
    /\ UNCHANGED <<lock, node, pred, testing, ret, puts, queue>>

ResetNext(p) ==
    /\ Goto(p, "reset", "swap")
    /\ node' = [node EXCEPT ![p] = Word(@.locked, FREE)]
    /\ UNCHANGED <<lock, pred, testing, ret, puts, queue>>

SwapInto(p) ==
    /\ lock'  = [lock EXCEPT ![LockOwner(p)] = TakenBy(p)]
    /\ queue' = [queue EXCEPT ![LockOwner(p)] = Append(@, p)]

SwapFree(p) ==
    /\ AsReset(lock[LockOwner(p)]).locked = 0
    /\ Acquired(p, "swap")
    /\ SwapInto(p)
    /\ UNCHANGED <<node, pred, testing, puts>>

SwapTaken(p) ==
    /\ AsReset(lock[LockOwner(p)]).locked # 0
    /\ Goto(p, "swap", "mark")
    /\ SwapInto(p)
    /\ pred' = [pred EXCEPT ![p] = lock[LockOwner(p)].next]
    /\ UNCHANGED <<node, testing, ret, puts>>

(* Faulty variant: the caller links without having closed its own flag.    *)
MarkLocked_Open(p) ==
    /\ Goto(p, "mark", "link")
    /\ UNCHANGED <<lock, node, pred, testing, ret, puts, queue>>

MarkLocked(p) ==
    /\ Goto(p, "mark", "link")
    /\ node' = [node EXCEPT ![p] = Word(1, @.next)]
    /\ UNCHANGED <<lock, pred, testing, ret, puts, queue>>

LinkToPred(p) ==
    /\ Goto(p, "link", "wait")
    /\ puts' = puts \union {LinkPut(p, pred[p])}
    /\ UNCHANGED <<lock, node, pred, testing, ret, queue>>

WaitUnlocked(p) ==
    /\ node[p].locked = 0
    /\ Acquired(p, "wait")
    /\ UNCHANGED <<lock, node, pred, testing, puts, queue>>

(***************************************************************************)
(* The critical section: the holder may write to symmetric memory.         *)
(***************************************************************************)
CriticalPut(p) ==
    /\ pc[p] = "cs"
    /\ DataPut(p) \notin puts
    /\ puts' = puts \union {DataPut(p)}
    /\ UNCHANGED <<pc, lock, node, pred, testing, ret, queue>>

(***************************************************************************)
(* shmem_clear_lock                                                        *)
(***************************************************************************)
(* The program has seen what shmem_test_lock returned, if it called that.  *)
CallClear(p) ==
    /\ Goto(p, "cs", "quiet")
    /\ testing' = [testing EXCEPT ![p] = FALSE]
    /\ ret' = [ret EXCEPT ![p] = NoRet]
    /\ UNCHANGED <<lock, node, pred, puts, queue>>

(* Faulty variant: no flush before the release.                            *)
Quiet_Skipped(p) ==
    /\ Goto(p, "quiet", "check")
    /\ UNCHANGED <<lock, node, pred, testing, ret, puts, queue>>

(* shmemc_quiet() returns when every put of the caller has been applied. *)
Quiet(p) ==
    /\ \A m \in puts : m.from # p
    /\ Goto(p, "quiet", "check")
    /\ UNCHANGED <<lock, node, pred, testing, ret, puts, queue>>

CheckNext(p) ==
    /\ Goto(p, "check", IF node[p].next = FREE THEN "cswap" ELSE "grant")
    /\ UNCHANGED <<lock, node, pred, testing, ret, puts, queue>>

(* Faulty variants: the word is put back to SHMEM_LOCK_FREE; the caller    *)
(* looks for a word that was free instead of for its own rank.             *)
CswapLock_Free(p) ==
    /\ Goto(p, "cswap", IF lock[LockOwner(p)].next = p THEN "idle" ELSE "waitnext")
    /\ IF lock[LockOwner(p)] = TakenBy(p)
          THEN /\ lock'  = [lock EXCEPT ![LockOwner(p)] = FreeWord]
               /\ queue' = [queue EXCEPT ![LockOwner(p)] = Tail(@)]
          ELSE UNCHANGED <<lock, queue>>
    /\ UNCHANGED <<node, pred, testing, ret, puts>>

CswapLock_WrongReply(p) ==
    /\ Goto(p, "cswap", IF lock[LockOwner(p)] = ResetWord THEN "idle" ELSE "waitnext")
    /\ IF lock[LockOwner(p)] = TakenBy(p)
          THEN /\ lock'  = [lock EXCEPT ![LockOwner(p)] = ResetWord]
               /\ queue' = [queue EXCEPT ![LockOwner(p)] = Tail(@)]
          ELSE UNCHANGED <<lock, queue>>
    /\ UNCHANGED <<node, pred, testing, ret, puts>>

(* The compare-and-swap puts the word back only if the caller is still the *)
(* last of the queue; the caller decides by the rank it got back, a 16-bit *)
(* field compared with an int.                                             *)
CswapLock(p) ==
    LET o   == LockOwner(p)
        old == lock[o]
    IN  /\ Goto(p, "cswap", IF old.next = p THEN "idle" ELSE "waitnext")
        /\ IF old = TakenBy(p)
              THEN /\ lock'  = [lock EXCEPT ![o] = ResetWord]
                   /\ queue' = [queue EXCEPT ![o] = Tail(@)]
              ELSE UNCHANGED <<lock, queue>>
        /\ UNCHANGED <<node, pred, testing, ret, puts>>

(* Faulty variant: rank 0 is not recognised as a successor.                *)
WaitNext_Positive(p) ==
    /\ node[p].next > 0
    /\ Goto(p, "waitnext", "grant")
    /\ UNCHANGED <<lock, node, pred, testing, ret, puts, queue>>

WaitNext(p) ==
    /\ node[p].next >= 0
    /\ Goto(p, "waitnext", "grant")
    /\ UNCHANGED <<lock, node, pred, testing, ret, puts, queue>>

GrantNext(p) ==
    /\ Goto(p, "grant", "idle")
    /\ puts' = puts \union {GrantPut(p, node[p].next)}
    /\ queue' = [queue EXCEPT ![LockOwner(p)] = Tail(@)]
    /\ UNCHANGED <<lock, node, pred, testing, ret>>

(***************************************************************************)
(* A posted put reaches its PE.                                            *)
(***************************************************************************)
Deliver(m) ==
    /\ m.to \in PE
    /\ puts' = puts \ {m}
    /\ \/ m.field = "next"   /\ node' = [node EXCEPT ![m.to] = Word(@.locked, m.val)]
       \/ m.field = "locked" /\ node' = [node EXCEPT ![m.to] = Word(m.val, @.next)]
       \/ m.field = "data"   /\ UNCHANGED node
    /\ UNCHANGED <<pc, lock, pred, testing, ret, queue>>

(***************************************************************************)
(* The specification.                                                      *)
(***************************************************************************)
SetStep(p)   == \/ ResetNext(p) \/ SwapFree(p) \/ SwapTaken(p)
                \/ MarkLocked(p) \/ LinkToPred(p) \/ WaitUnlocked(p)
TestStep(p)  == GetFree(p) \/ GetTaken(p)
ClearStep(p) == \/ Quiet(p) \/ CheckNext(p) \/ CswapLock(p)
                \/ WaitNext(p) \/ GrantNext(p)

(* What a PE goes on doing once it has called: it runs its call to the end *)
(* and leaves its critical section.                                        *)
Progress(p) == SetStep(p) \/ TestStep(p) \/ ClearStep(p) \/ CallClear(p)

Next ==
    \/ \E p \in PE : CallSet(p) \/ CallTest(p) \/ CriticalPut(p) \/ Progress(p)
    \/ \E m \in puts : Deliver(m)

Spec == Init /\ [][Next]_vars

(* Each PE is a running process that spins and progresses its transport,   *)
(* and UCX applies every posted put.  Nothing makes a PE call.             *)
Fairness ==
    /\ \A p \in PE : WF_vars(Progress(p))
    /\ \A p \in PE : WF_vars(\E m \in puts : m.from = p /\ Deliver(m))

FairSpec == Spec /\ Fairness

-----------------------------------------------------------------------------
(***************************************************************************)
(* Properties.                                                             *)
(***************************************************************************)

(* All PEs pick the same owner.  lock_owner() uses the local address, so   *)
(* this is true when symmetric addresses are aligned, or differ by a       *)
(* multiple of 8 * NRanks.                                                 *)
CongruentOwners == \A p, q \in PE : LockOwner(p) = LockOwner(q)

(* What the theorems suppose: one owner, and ranks that fit 16 bits.       *)
AlignedJob == CongruentOwners /\ NRanks <= 32768

(* Two PEs are never between the return of set_lock (or a test_lock that   *)
(* returned 0) and the end of clear_lock at the same time.                 *)
MutualExclusion ==
    \A p, q \in PE : pc[p] \in Holding /\ pc[q] \in Holding => p = q

(* The quiet of clear_lock: what a holder wrote to symmetric memory in its *)
(* critical section has arrived before anybody else holds the lock.        *)
CriticalWritesVisible ==
    \A p \in PE : pc[p] \in Holding =>
        \A m \in puts : m.field = "data" => m.from = p

(* clear_lock's second wait is for a PE that is already queued behind the  *)
(* caller, so it cannot wait for somebody who will never come.             *)
SuccessorExists ==
    \A p \in PE : pc[p] = "waitnext" => Len(queue[LockOwner(p)]) >= 2

(* api.h:2103: shmem_set_lock blocks until the lock is acquired; and with  *)
(* holders that release, it is acquired.  Every other call returns too.    *)
EveryCallReturns ==
    \A p \in PE : pc[p] \notin {"idle", "cs"} ~> pc[p] \in {"idle", "cs"}

(* With one owner: its line.                                               *)
TheOwner == CHOOSE o \in Owners : TRUE
Line     == queue[TheOwner]

Fifo == INSTANCE FifoLock
            WITH line   <- Line,
                 inside <- {p \in PE : pc[p] \in Holding}

(* The queue lock is a first-come first-served lock, in the order of the   *)
(* swaps on the owner's word.                                              *)
FifoSpec == Fifo!Spec

-----------------------------------------------------------------------------
(***************************************************************************)
(* The inductive invariant behind the theorems of ShmemLockProofs.         *)
(***************************************************************************)

(* The line holds exactly the PEs from their swap to their release, once.  *)
LineInv ==
    /\ \A i, j \in 1 .. Len(Line) : Line[i] = Line[j] => i = j
    /\ \A p \in PE : pc[p] \in Queueing \union Holding
                      <=> \E i \in 1 .. Len(Line) : Line[i] = p

(* The owner's word names the last of the line, whose next is unset.       *)
LastInv ==
    IF Line = <<>>
        THEN lock[TheOwner] = ResetWord
        ELSE /\ lock[TheOwner] = TakenBy(Line[Len(Line)])
             /\ node[Line[Len(Line)]].next = FREE

(* The first of the line holds the lock, or waits and will be let in.      *)
HeadInv ==
    Line # <<>> =>
        \/ pc[Line[1]] \in Holding
        \/ /\ pc[Line[1]] = "wait"
           /\ node[Line[1]].locked = 0 \/ \E b \in PE : GrantPut(b, Line[1]) \in puts

(* Everybody else queues: locked before it links, and its predecessor      *)
(* knows of it once the link has arrived, and not before.                  *)
BehindInv ==
    \A i \in 2 .. Len(Line) :
        LET p == Line[i]
            b == Line[i - 1]
        IN  /\ pc[p] \in Queueing
            /\ pred[p] = b
            /\ pc[p] # "mark" => node[p].locked = 1
            /\ IF pc[p] = "wait" /\ LinkPut(p, b) \notin puts
                  THEN node[b].next = p
                  ELSE node[b].next = FREE

(* Every put in flight is one the protocol is waiting for.                 *)
PutsInv ==
    /\ \A m \in puts : m.field = "next" =>
            \E i \in 2 .. Len(Line) : /\ m = LinkPut(Line[i], Line[i - 1])
                                     /\ pc[Line[i]] = "wait"
    /\ \A m \in puts : m.field = "locked" =>
            /\ Line # <<>>
            /\ m.to = Line[1]
            /\ pc[Line[1]] = "wait"
            /\ node[Line[1]].locked = 1
    /\ \A m, n \in puts : m.field = "locked" /\ n.field = "locked" => m = n
    /\ \A m \in puts : m.field = "data" => pc[m.from] \in {"cs", "quiet"}

(* What a PE has read of its own node still holds.                         *)
NodeInv ==
    /\ \A p \in PE : pc[p] = "swap" => node[p].next = FREE
    /\ \A p \in PE : pc[p] = "grant" => node[p].next # FREE
    /\ \A p \in PE : pc[p] = "waitnext" => Len(Line) >= 2

(* All of these: the shape of the queue at every moment of locks.c.        *)
IInv ==
    TypeOK /\ LineInv /\ LastInv /\ HeadInv /\ BehindInv /\ PutsInv /\ NodeInv

=============================================================================
