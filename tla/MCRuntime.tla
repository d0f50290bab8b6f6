----------------------------- MODULE MCRuntime -----------------------------
(***************************************************************************)
(* Small programs for Runtime, in which every call occurs.  What a PE may  *)
(* rely on is said by See where it relies on it.                           *)
(***************************************************************************)
EXTENDS Fortran

D == SHMEM_CTX_DEFAULT
C == 2                     \* the first context a program creates

(* FLAG and BITS are globals; A, B and X are in the heap, behind pSync.    *)
FLAG == 0
BITS == 1
A == Globals + 2
B == Globals + 3
X == Globals + 4
P == Globals + 5          \* a pSync of the program's own
W == Globals + 6          \* pWrk
T == Globals + 11         \* a target

MCHeapBase == <<10, 30, 20, 40>>

Job(bodies) ==
    [i \in DOMAIN bodies |->
        shmem_init \o bodies[i] \o shmem_finalize(i - 1, Len(bodies))]

-----------------------------------------------------------------------------
(* Data, fence, flag; the source is used again at once.                    *)
MessagePassing == Job(<<
    store(A, 7) \o store(B, 8) \o shmem_put(A, A, 1, 2, 1) \o store(A, 0)
        \o fence \o shmem_inc(FLAG, 1),
    wait_until(FLAG, "eq", 1) \o See(A, 1, 7) \o See(B, 1, 8) >>)

(* Non-blocking puts: the source is used again after a quiet.              *)
PutNbiQuiet == Job(<<
    store(A, 7) \o shmem_put_nbi(B, A, 1, 1, 1) \o shmem_putmem_nbi(X, A, 1, 1)
        \o quiet \o store(A, 0) \o shmem_p(FLAG, 1, 1, 1),
    wait(FLAG, 0) \o See(B, 1, 7) \o See(X, 1, 7) >>)

(* A context's operations go through the default one's endpoints.  A       *)
(* context that stores nothing has nothing to wait for.                    *)
ThroughContext == Job(<<
    ctx_create(0) \o store(A, 7) \o ctx_put(C, A, A, 1, 1, 1) \o ctx_p(C, B, 8, 1, 1)
        \o fence \o ctx_fence(C) \o ctx_atomic_inc(C, FLAG, 1) \o ctx_quiet(C)
        \o ctx_destroy(C) \o ctx_destroy(D),
    wait_until(FLAG, "gt", 0) \o See(A, 1, 7) \o See(B, 1, 8)
        \o ctx_create(SHMEM_CTX_NOSTORE) \o ctx_get(C, B, A, 1, 1, 0) \o See(B, 1, 7)
        \o ctx_fence(C) \o ctx_quiet(C) \o ctx_destroy(C) >>)

ContextPuts == Job(<<
    store(A, 7) \o store(B, 8) \o ctx_iput(D, A, A, 2, 1, 1, 2, 1)
        \o ctx_putmem(D, B, B, 1, 1) \o ctx_quiet(D) \o ctx_atomic_add(D, FLAG, 2, 1),
    wait_until(FLAG, "ge", 2) \o See(A, 1, 7) \o See(B, 1, 8) \o See(X, 1, 8) >>)

ContextNbi == Job(<<
    store(A, 7) \o ctx_put_nbi(D, A, A, 1, 1, 1) \o ctx_putmem_nbi(D, B, A, 1, 1)
        \o ctx_quiet(D) \o store(A, 9) \o ctx_atomic_set(D, FLAG, 1, 1),
    wait_until(FLAG, "ne", 0) \o See(A, 1, 7)
        \o ctx_get_nbi(D, X, A, 1, 1, 0) \o ctx_getmem_nbi(D, FLAG, A, 1, 0) \o ctx_quiet(D)
        \o See(X, 1, 9) \o See(FLAG, 1, 9) >>)

(* What was there before a barrier is got behind it.                       *)
GetAfterBarrier == Job(<<
    store(A, 7) \o store(B, 8) \o barrier_all(0, 2),
    barrier_all(1, 2)
        \o shmem_get(X, B, 1, 1, 0) \o See(X, 1, 8)
        \o shmem_g(A, 1, 0) \o See(Nowhere, 1, 7)
        \o shmem_getmem(A, A, 2, 0) \o See(A, 1, 7) \o See(B, 1, 8)
        \o ctx_g(D, B, 1, 0) \o See(Nowhere, 1, 8) >>)

GetStrided == Job(<<
    store(A, 7) \o store(X, 9) \o shmem_putmem(B, A, 1, 1) \o barrier_all(0, 2),
    barrier_all(1, 2) \o See(B, 1, 7)
        \o shmem_iget(A, A, 1, 1, 1, 1, 0) \o See(A, 1, 7) \o See(X, 1, 9)
        \o ctx_iget(D, A, A, 1, 2, 1, 2, 0) \o See(B, 1, 9)
        \o ctx_getmem(D, W, X, 1, 0) \o See(W, 1, 9) >>)

GetNbiQuiet == Job(<<
    store(A, 7) \o shmem_iput(A, A, 1, 1, 1, 1, 1) \o barrier_all(0, 2),
    barrier_all(1, 2) \o See(A, 1, 7)
        \o shmem_get_nbi(B, A, 1, 1, 0) \o shmem_getmem_nbi(X, A, 1, 0) \o quiet
        \o See(B, 1, 7) \o See(X, 1, 7) >>)

(* The calls by size: 8 bits make a word.                                  *)
BySize == Job(<<
    store(A, 7) \o store(B, 8) \o shmem_put_sized(8, A, A, 1, 1)
        \o ctx_iput_sized(8, D, B, B, 8, 8, 1, 1) \o ctx_put_sized_nbi(8, D, X, A, 1, 1)
        \o barrier_all(0, 2) \o sync_all(0, 2),
    barrier_all(1, 2) \o See(A, 1, 7) \o See(B, 1, 8) \o See(X, 1, 7) \o sync_all(1, 2)
        \o shmem_get_sized(8, B, A, 1, 0) \o See(B, 1, 7)
        \o shmem_iget_sized(8, X, A, 8, 8, 2, 0) \o See(X, 1, 7) \o See(P, 1, 8) >>)

(* A poll until what it polls for is there.                                *)
Polling == Job(<<
    store(A, 7) \o shmem_put(A, A, 1, 1, 1) \o fence \o shmem_p(FLAG, 2, 1, 1),
    until(test(FLAG, "ge", 2)) \o See(A, 1, 7) >>)

(* Two of three PEs collect their words, and use theirs again at once.     *)
Fcollect == Job(<<
    store(X, 7) \o fcollect(0, A, X, 1, 1, 0, 1, 2, P) \o store(X, 0)
        \o See(A, 0, 7) \o See(B, 0, 8),
    << >>,
    store(X, 8) \o fcollect(2, A, X, 1, 1, 0, 1, 2, P) \o See(A, 2, 7) \o See(B, 2, 8) >>)

(* A block comes with the seven words behind it, so blocks come in order;  *)
(* the program has the barriers.                                           *)
AllToAll == Job(<<
    store(A, 1) \o store(B, 2) \o barrier_all(0, 2) \o wait(FLAG, 0)
        \o alltoall(64, 0, T, A, 1, 0, 0, 2) \o See(T, 0, 1) \o See(T + 1, 0, 3)
        \o shmem_p(FLAG, 1, 1, 1),
    store(A, 3) \o store(B, 4) \o barrier_all(1, 2)
        \o alltoalls(64, 1, T, A, 1, 1, 1, 0, 0, 2) \o See(T, 1, 2) \o See(T + 1, 1, 4)
        \o shmem_p(FLAG, 1, 1, 0) \o wait(FLAG, 0) >>)

(* Reductions: in place, with the source used again at once; into an area  *)
(* far enough away; in chunks.                                             *)
Sum3 == Job([i \in 1 .. 3 |->
    store(A, i) \o to_all(i - 1, "sum", A, A, 1, 0, 0, 3, W, P) \o See(A, i - 1, 6) \o store(A, 0)])

Max2 == Job([i \in 1 .. 2 |->
    store(A, 6 + i) \o to_all(i - 1, "max", A + 8, A, 1, 0, 0, 2, W, P)
        \o store(A, 0) \o See(A + 8, i - 1, 8)])

Chunks == Job([i \in 1 .. 2 |->
    store(A, i) \o store(B, i + 1) \o store(X, i + 2)
        \o to_all(i - 1, "or", A, A, 3, 0, 0, 2, W, P)
        \o See(A, i - 1, 3) \o See(B, i - 1, 3) \o See(X, i - 1, 7)])

(* Three producers count, the fourth PE waits for all of them.             *)
ThreeProducers == Job(<<
    wait_until(FLAG, "ge", 3) \o See(A, 0, 7) \o See(B, 0, 8) \o See(X, 0, 9),
    shmem_p(A, 7, 1, 0) \o fence \o shmem_atomic_inc(FLAG, 0),
    shmem_p(B, 8, 1, 0) \o fence \o shmem_atomic_add(FLAG, 1, 0),
    shmem_p(X, 9, 1, 0) \o quiet \o shmem_atomic_inc(FLAG, 0) >>)

(* Every PE sets, clears or flips a bit of its own in one word.            *)
Bits == Job(<<
    shmem_atomic_fetch_bitwise("or", BITS, 1, 0) \o SeeBits(BITS, 0, 1, 1)
        \o shmem_atomic_bitwise("and", BITS, 6, 0) \o SeeBits(BITS, 0, 1, 0),
    ctx_atomic_bitwise("xor", D, BITS, 2, 0) \o SeeBits(BITS, 0, 2, 2)
        \o ctx_atomic_fetch_bitwise("and", D, BITS, 5, 0) \o SeeBits(BITS, 0, 2, 0),
    shmem_atomic_bitwise("or", BITS, 4, 0) \o SeeBits(BITS, 0, 4, 4) >>)

(* Fetching operations see each other at once.                             *)
Handover == Job(<<
    shmem_cswap(A, 0, 5, 1) \o See(Nowhere, 0, 0) \o shmem_atomic_fetch_inc(B, 1)
        \o shmem_set(FLAG, 1, 1) \o ctx_atomic_fetch(D, FLAG, 1),
    wait_until(FLAG, "le", 1) \o wait_until(FLAG, "ge", 1)
        \o ctx_atomic_compare_swap(D, A, 0, 6, 1) \o See(Nowhere, 1, 5)
        \o shmem_atomic_swap(A, 6, 1) \o See(Nowhere, 1, 5)
        \o shmem_atomic_compare_swap(A, 6, 7, 1) \o See(Nowhere, 1, 6)
        \o shmem_fadd(B, 2, 1) \o See(Nowhere, 1, 1)
        \o shmem_atomic_fetch(B, 1) \o See(Nowhere, 1, 3) >>)

Swaps == Job(<<
    ctx_atomic_swap(D, A, 3, 1) \o ctx_atomic_fetch_add(D, B, 1, 1)
        \o ctx_atomic_fetch_inc(D, B, 1) \o See(Nowhere, 1, 1) \o shmem_add(FLAG, 1, 1),
    wait_until(FLAG, "lt", 2) \o wait_until(FLAG, "gt", 0)
        \o shmem_swap(A, 0, 1) \o See(Nowhere, 1, 3)
        \o shmem_atomic_fetch_add(B, 0, 1) \o See(Nowhere, 1, 2)
        \o shmem_atomic_set(A, 4, 1) \o shmem_fetch(A, 1) \o See(Nowhere, 1, 4) >>)

(* Initialized twice, left by exit() once with a put on its way.           *)
TwiceAndExit == <<
    shmem_init \o shmem_init \o shmem_p(A, 7, 1, 1) \o shmem_finalize(0, 2),
    shmem_init \o shmem_p(A, 7, 1, 0) \o shmem_finalize(1, 2) \o shmem_finalize(1, 2) >>

(* The same by the Fortran interface.  A complex is a word, and so is what *)
(* the non-blocking routines move of 128 bits.                             *)
FortranJob(bodies) ==
    [i \in DOMAIN bodies |->
        start_pes_ \o bodies[i] \o shmem_finalize_(i - 1, Len(bodies))]

FortranPuts == FortranJob(<<
    store(A, 7) \o store(B, 8) \o shmem_put_("128", A, A, 1, 1)
        \o shmem_put_nbi_("128", X, B, 1, 1) \o shmem_quiet_
        \o shmem_putmem_nbi_(W, A, 8, 1) \o shmem_quiet_ \o store(A, 0)
        \o shmem_inc_(FLAG, 1),
    shmem_wait_until_(FLAG, "eq", 1) \o See(A, 1, 7) \o See(B, 1, 8) \o See(X, 1, 8)
        \o See(P, 1, 0) \o See(W, 1, 7) >>)

FortranGets == FortranJob(<<
    store(A, 7) \o store(B, 8) \o store(X, 9)
        \o shmem_putmem_(P, X, 8, 1) \o shmem_barrier_all_(0, 2),
    shmem_barrier_all_(1, 2)
        \o See(P, 1, 9) \o shmem_get_("integer", A, A, 4, 0) \o See(A, 1, 7) \o See(B, 1, 8)
        \o shmem_iget_("complex", W, A, 1, 2, 2, 0) \o See(W, 1, 7) \o See(W + 1, 1, 9)
        \o shmem_get_nbi_("complex", A, B, 1, 0) \o shmem_getmem_nbi_(B, X, 8, 0)
        \o shmem_quiet_ \o See(A, 1, 8) \o See(B, 1, 9)
        \o shmem_getmem_(X, A, 8, 0) \o See(X, 1, 7) >>)

FortranStrides == FortranJob(<<
    store(A, 7) \o store(X, 9) \o shmem_iput_("complex", A, A, 1, 2, 2, 1)
        \o shmem_fence_ \o shmem_add_(FLAG, 3, 1),
    shmem_wait_(FLAG, 0) \o See(A, 1, 7) \o See(B, 1, 9)
        \o shmem_fadd_(FLAG, 1, 0) \o See(Nowhere, 1, 0)
        \o shmem_finc_(FLAG, 0) \o See(Nowhere, 1, 1)
        \o shmem_cswap_(FLAG, 2, 5, 0) \o shmem_swap_(FLAG, 6, 0) \o See(Nowhere, 1, 5)
        \o shmem_set_(FLAG, 4, 0) \o shmem_fetch_(FLAG, 0) \o See(Nowhere, 1, 4) >>)

FortranCollectives == FortranJob([i \in 1 .. 2 |->
    store(X, 6 + i) \o shmem_fcollect_("4", i - 1, A, X, 2, 0, 0, 2, P)
        \o See(A, i - 1, 7) \o See(B, i - 1, 8)
        \o shmem_barrier_(i - 1, 0, 0, 2, P)
        \o shmem_to_all_(i - 1, "min", X, X, 1, 0, 0, 2, W, P) \o See(X, i - 1, 7)])

FortranAllToAll == FortranJob(<<
    store(A, 1) \o store(B, 2) \o shmem_barrier_all_(0, 2) \o shmem_wait_(FLAG, 0)
        \o shmem_alltoalls_(64, 0, T, A, 1, 1, 1, 0, 0, 2) \o See(T, 0, 1) \o See(T + 1, 0, 3)
        \o shmem_inc_(FLAG, 1),
    store(A, 3) \o store(B, 4) \o shmem_barrier_all_(1, 2)
        \o shmem_alltoall_(64, 1, T, A, 1, 0, 0, 2) \o See(T, 1, 2) \o See(T + 1, 1, 4)
        \o shmem_inc_(FLAG, 0) \o shmem_wait_(FLAG, 0) >>)

MCPrograms ==
    <<MessagePassing, PutNbiQuiet, ThroughContext, ContextPuts, ContextNbi,
      GetAfterBarrier, GetStrided, GetNbiQuiet, BySize, Polling,
      Fcollect, AllToAll, Sum3, Max2, Chunks, ThreeProducers, Bits, Handover, Swaps,
      TwiceAndExit, FortranPuts, FortranGets, FortranStrides, FortranCollectives,
      FortranAllToAll>>

=============================================================================
