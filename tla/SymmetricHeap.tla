---------------------------- MODULE SymmetricHeap ----------------------------
(***************************************************************************)
(* The symmetric heap: every PE has an mspace of its own, and all of them  *)
(* make the same calls of shmem_malloc, shmem_calloc, shmem_free,          *)
(* shmem_realloc and shmem_align (src/shmalloc.c), each in the segment     *)
(* that ucp_mem_map gave it, wherever that is.  Nothing but the order      *)
(* of its own calls makes a PE's heap like the others'; the barriers       *)
(* around the calls keep a PE from using a block that is not there on the  *)
(* others.                                                                 *)
(*                                                                         *)
(* The first PE that gets there chooses the next call, the others make the *)
(* same one.                                                               *)
(***************************************************************************)
EXTENDS Mspace

CONSTANTS
    PE,
    Base,                  \* where the segment of a PE is mapped, in units
    Requests,              \* sizes asked for, in bytes
    Counts,                \* elements asked for, of 8 bytes
    Alignments,            \* alignments asked for, in units
    Variables,             \* how many pointers the program has
    MaxCalls

ASSUME HeapAssumption ==
    /\ IsFiniteSet(PE) /\ PE # {} /\ Base \in [PE -> Nat]
    /\ Requests \subseteq Nat \ {0} /\ Counts \subseteq Nat /\ Alignments \subseteq Nat \ {0}
    /\ Variables \in Nat /\ MaxCalls \in Nat

VARIABLES
    heap,                  \* myspace of every PE
    ptr,                   \* the program's pointers on every PE
    op,                    \* the call every PE is in, or was in last
    todo,                  \* what is left of that call
    entered, left          \* the barriers of every PE

barrierVars == <<entered, left>>
vars == <<heap, ptr, op, todo, barrierVars>>

B == INSTANCE AbstractBarrier WITH Members <- PE

Var == 1 .. Variables
Calls ==
    [name : {"malloc", "realloc"}, v : Var, bytes : Requests, align : {1}]
        \union [name : {"align"}, v : Var, bytes : Requests, align : Alignments]
        \union [name : {"calloc"}, v : Var, bytes : Counts, align : {1}]
        \union [name : {"free"}, v : Var, bytes : {0}, align : {1}]
        \union [name : {"realloc"}, v : Var, bytes : {0}, align : {1}]

(* The same call, as the seq-th of a PE.                                   *)
Numbered(c, n) ==
    [name |-> c.name, v |-> c.v, bytes |-> c.bytes, align |-> c.align, seq |-> n]
NoCall == [name |-> "none", v |-> 1, bytes |-> 0, align |-> 1, seq |-> 0]

(* SHMEM_BARRIER_SYNC_SIZE longs for barrier_all and as many for sync_all. *)
PSyncBytes == 16

Allocated(h) == mspace_malloc(h, PSyncBytes).heap

Init ==
    /\ heap = [p \in PE |-> Allocated(Allocated(create_mspace_with_base))]
    /\ ptr = [p \in PE |-> [v \in Var |-> NULL]]
    /\ op = [p \in PE |-> NoCall]
    /\ todo = [p \in PE |-> << >>]
    /\ B!Init

(* Faulty variants: shmem_malloc and shmem_align return without a barrier; *)
(* shmem_free has its barrier behind.                                      *)
Phases_NoBarrier(name) ==
    CASE name \in {"malloc", "calloc", "align"} -> <<"heap">>
      [] name = "free" -> <<"barrier", "heap">>
      [] OTHER -> <<"barrier", "heap", "barrier">>

Phases(name) ==
    CASE name \in {"malloc", "calloc", "align"} -> <<"heap", "barrier">>
      [] name = "free" -> <<"barrier", "heap">>
      [] OTHER -> <<"barrier", "heap", "barrier">>

(* A program allocates into a pointer it does not need, its first one, and *)
(* frees one that it has.                                                  *)
Sensible(p, c) ==
    CASE c.name \in {"malloc", "calloc", "align"} ->
            ptr[p][c.v] = NULL /\ \A v \in Var : v < c.v => ptr[p][v] # NULL
      [] OTHER -> ptr[p][c.v] # NULL

Chosen(p, c, n) ==
    IF \E q \in PE : op[q].seq = n
    THEN \E q \in PE : op[q].seq = n /\ op[q] = c
    ELSE \E d \in Calls : Sensible(p, d) /\ c = Numbered(d, n)

Call(p) ==
    /\ todo[p] = << >>
    /\ op[p].seq < MaxCalls
    /\ \E c \in {op[q] : q \in PE} \union {Numbered(d, op[p].seq + 1) : d \in Calls} :
        /\ Chosen(p, c, op[p].seq + 1)
        /\ op' = [op EXCEPT ![p] = c]
        /\ todo' = [todo EXCEPT ![p] = Phases(c.name)]
    /\ UNCHANGED <<heap, ptr, barrierVars>>

(* shmema_malloc and the others, on the PE's own heap.                     *)
shmema(h, base, mem, c) ==
    CASE c.name = "malloc" -> mspace_malloc(h, c.bytes)
      [] c.name = "calloc" -> mspace_calloc(h, c.bytes, 8)
      [] c.name = "align" -> mspace_memalign(h, base, c.align, c.bytes)
      [] c.name = "free" -> Failed(mspace_free(h, mem))
      [] c.name = "realloc" -> mspace_realloc(h, mem, c.bytes)

(* A realloc that fails leaves the block to the program.                   *)
HeapStep(p) ==
    /\ todo[p] # << >> /\ Head(todo[p]) = "heap"
    /\ \E r \in {shmema(heap[p], Base[p], ptr[p][op[p].v], op[p])} :
        /\ heap' = [heap EXCEPT ![p] = r.heap]
        /\ ptr' = [ptr EXCEPT ![p][op[p].v] =
                IF r.mem = NULL /\ op[p].name = "realloc" /\ op[p].bytes > 0 THEN @ ELSE r.mem]
    /\ todo' = [todo EXCEPT ![p] = Tail(@)]
    /\ UNCHANGED <<op, barrierVars>>

EnterBarrier(p) ==
    /\ todo[p] # << >> /\ Head(todo[p]) = "barrier"
    /\ B!Enter(p)
    /\ UNCHANGED <<heap, ptr, op, todo>>

LeaveBarrier(p) ==
    /\ B!Leave(p)
    /\ todo' = [todo EXCEPT ![p] = Tail(@)]
    /\ UNCHANGED <<heap, ptr, op>>

Finished ==
    /\ \A p \in PE : todo[p] = << >> /\ op[p].seq = MaxCalls
    /\ UNCHANGED vars

Next ==
    \/ \E p \in PE : Call(p) \/ HeapStep(p) \/ EnterBarrier(p) \/ LeaveBarrier(p)
    \/ Finished

Spec == Init /\ [][Next]_vars

-----------------------------------------------------------------------------
TypeOK ==
    /\ \A p \in PE : /\ heap[p].topsize \in 1 .. HeapSize
                     /\ heap[p].dvsize \in 0 .. HeapSize
                     /\ ptr[p] \in [Var -> 0 .. HeapSize]
                     /\ op[p].seq \in 0 .. MaxCalls
                     /\ todo[p] \in Seq({"heap", "barrier"})
    /\ B!TypeOK

(* Every PE's heap is in the state that the assertions of dlmalloc's       *)
(* do_check_malloc_state describe: the chunks tile the segment, headers    *)
(* and feet agree, and no two free chunks touch.                           *)
HeapSound == \A p \in PE : HeadersAgree(heap[p]) /\ Coalesced(heap[p])

(* Every free chunk can be found again: it is the designated victim or in  *)
(* the bin of its size.                                                    *)
FreeChunksBinned == \A p \in PE : BinsExact(heap[p])

(* The bases of all PEs differ by multiples of every alignment asked for,  *)
(* as those of mappings do while no alignment is larger than a page.       *)
BasesAgree ==
    \A a \in Alignments, p, q \in PE : Base[p] % Alignment(a) = Base[q] % Alignment(a)

(* A pointer a PE may use outside of a call that is about it.              *)
Usable(p, v) == ptr[p][v] # NULL /\ (todo[p] # << >> => op[p].v # v)

BlockOf(p, v) ==
    LET c == mem2chunk(ptr[p][v]) IN c .. c + chunksize(heap[p], c) - 1

(* api.h: what shmem_malloc returns is the address of a block on every PE. *)
(* Where a PE may use a pointer, the block is in use under that pointer on *)
(* every other PE, just as large, and apart from that PE's other blocks.   *)
(* Pointers are offsets in the segment, which is how translate_address     *)
(* takes them to another PE.                                               *)
SymmetricBlocks ==
    \A p, q \in PE, v \in Var : Usable(p, v) =>
        /\ ptr[q][v] = ptr[p][v]
        /\ cinuse(heap[q], mem2chunk(ptr[p][v]))
        /\ BlockOf(q, v) = BlockOf(p, v)
        /\ \A w \in Var \ {v} : ptr[q][w] # NULL => BlockOf(q, v) \intersect BlockOf(q, w) = {}

=============================================================================
