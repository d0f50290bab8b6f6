------------------------------ MODULE Atomics ------------------------------
(***************************************************************************)
(* The API of atomics (src/atomics.c) down to what src/shmemc/comms.c asks *)
(* of UCX, which knows add, fetch-and-add, swap and compare-and-swap only: *)
(* everything else is made of these.                                       *)
(***************************************************************************)
EXTENDS PutGet

Amo(do, ctx, t, v, pe) == <<[Op(do, ctx, pe) EXCEPT !.dest = t, !.val = v]>>

-----------------------------------------------------------------------------
(* On a context.                                                           *)
ctx_atomic_swap(ctx, t, v, pe) == Amo("swap", ctx, t, v, pe)
ctx_atomic_compare_swap(ctx, t, c, v, pe) ==
    <<[Amo("cswap", ctx, t, v, pe)[1] EXCEPT !.cond = c]>>
ctx_atomic_fetch_add(ctx, t, v, pe) == Amo("fadd", ctx, t, v, pe)
ctx_atomic_fetch_inc(ctx, t, pe) == Amo("fadd", ctx, t, 1, pe)
ctx_atomic_add(ctx, t, v, pe) == Amo("add", ctx, t, v, pe)
ctx_atomic_inc(ctx, t, pe) == Amo("add", ctx, t, 1, pe)
ctx_atomic_fetch(ctx, t, pe) == Amo("fadd", ctx, t, 0, pe)
(* Set is a swap whose result is dropped: unlike a put it is there when    *)
(* the call returns.                                                       *)
ctx_atomic_set(ctx, t, v, pe) == ctx_atomic_swap(ctx, t, v, pe)

(* UCX has no bitwise operations: the word is fetched, and swapped for the *)
(* new one if it is still what was fetched.                                *)
ctx_atomic_fetch_bitwise(opname, ctx, t, v, pe) ==
    ctx_get(ctx, Nowhere, t, 1, 1, pe) \o Amo(opname, ctx, t, v, pe)
ctx_atomic_bitwise(opname, ctx, t, v, pe) ==
    ctx_atomic_fetch_bitwise(opname, ctx, t, v, pe)

-----------------------------------------------------------------------------
(* On the default context.                                                 *)
shmem_atomic_set(t, v, pe) == ctx_atomic_set(SHMEM_CTX_DEFAULT, t, v, pe)
shmem_atomic_inc(t, pe) == ctx_atomic_inc(SHMEM_CTX_DEFAULT, t, pe)
shmem_atomic_add(t, v, pe) == ctx_atomic_add(SHMEM_CTX_DEFAULT, t, v, pe)
shmem_atomic_fetch(t, pe) == ctx_atomic_fetch(SHMEM_CTX_DEFAULT, t, pe)
shmem_atomic_fetch_inc(t, pe) == ctx_atomic_fetch_inc(SHMEM_CTX_DEFAULT, t, pe)
shmem_atomic_fetch_add(t, v, pe) == ctx_atomic_fetch_add(SHMEM_CTX_DEFAULT, t, v, pe)
shmem_atomic_swap(t, v, pe) == ctx_atomic_swap(SHMEM_CTX_DEFAULT, t, v, pe)
shmem_atomic_compare_swap(t, c, v, pe) ==
    ctx_atomic_compare_swap(SHMEM_CTX_DEFAULT, t, c, v, pe)
shmem_atomic_fetch_bitwise(opname, t, v, pe) ==
    ctx_atomic_fetch_bitwise(opname, SHMEM_CTX_DEFAULT, t, v, pe)
shmem_atomic_bitwise(opname, t, v, pe) ==
    ctx_atomic_bitwise(opname, SHMEM_CTX_DEFAULT, t, v, pe)

(* The names that 1.4 deprecates are the same calls.                       *)
shmem_fetch(t, pe) == shmem_atomic_fetch(t, pe)
shmem_set(t, v, pe) == shmem_atomic_set(t, v, pe)
shmem_cswap(t, c, v, pe) == shmem_atomic_compare_swap(t, c, v, pe)
shmem_fadd(t, v, pe) == shmem_atomic_fetch_add(t, v, pe)
shmem_finc(t, pe) == shmem_atomic_fetch_inc(t, pe)
shmem_swap(t, v, pe) == shmem_atomic_swap(t, v, pe)
shmem_add(t, v, pe) == shmem_atomic_add(t, v, pe)
shmem_inc(t, pe) == shmem_atomic_inc(t, pe)

=============================================================================
