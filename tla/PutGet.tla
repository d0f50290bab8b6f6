------------------------------- MODULE PutGet -------------------------------
(***************************************************************************)
(* The API of puts and gets (src/putget.c and putget.h) as what it makes   *)
(* of a call: the operations on the transport that it issues, in order.    *)
(*                                                                         *)
(* Memory is counted in words of 8 bytes; "size" is the size of the type.  *)
(* A symmetric variable is given by its offset, the same on every PE.      *)
(***************************************************************************)
EXTENDS Integers, Sequences, SequencesExt

SHMEM_CTX_DEFAULT == 1     \* the first in the table of contexts
Nowhere == -1              \* in place of an offset: a value, not a variable

Op(do, ctx, pe) ==
    [do |-> do, ctx |-> ctx, pe |-> pe, dest |-> Nowhere, src |-> Nowhere,
     n |-> 1, val |-> 0, cond |-> 0]

Move(do, ctx, dest, src, n, pe) ==
    [Op(do, ctx, pe) EXCEPT !.dest = dest, !.src = src, !.n = n]

-----------------------------------------------------------------------------
(* On a context.                                                           *)
ctx_put(ctx, dest, src, size, nelems, pe) ==
    <<Move("put", ctx, dest, src, size * nelems, pe)>>
(* UCX reads word by word, and the call waits for all of them.             *)
ctx_get(ctx, dest, src, size, nelems, pe) ==
    <<Move("get_nbi", ctx, dest, src, size * nelems, pe), Op("get_wait", ctx, pe)>>
ctx_put_nbi(ctx, dest, src, size, nelems, pe) ==
    <<Move("put_nbi", ctx, dest, src, size * nelems, pe)>>
ctx_get_nbi(ctx, dest, src, size, nelems, pe) ==
    <<Move("get_nbi", ctx, dest, src, size * nelems, pe)>>

(* The strided calls put and get element by element.                       *)
ctx_iput(ctx, target, source, tst, sst, size, nelems, pe) ==
    FlattenSeq([i \in 1 .. nelems |->
        ctx_put(ctx, target + (i - 1) * tst * size, source + (i - 1) * sst * size,
                size, 1, pe)])
ctx_iget(ctx, target, source, tst, sst, size, nelems, pe) ==
    FlattenSeq([i \in 1 .. nelems |->
        ctx_get(ctx, target + (i - 1) * tst * size, source + (i - 1) * sst * size,
                size, 1, pe)])

ctx_p(ctx, addr, val, size, pe) ==
    <<[Move("put", ctx, addr, Nowhere, size, pe) EXCEPT !.val = val]>>
ctx_g(ctx, addr, size, pe) == ctx_get(ctx, Nowhere, addr, size, 1, pe)

ctx_putmem(ctx, dest, src, nelems, pe) == ctx_put(ctx, dest, src, 1, nelems, pe)
ctx_getmem(ctx, dest, src, nelems, pe) == ctx_get(ctx, dest, src, 1, nelems, pe)
ctx_putmem_nbi(ctx, dest, src, nelems, pe) == ctx_put_nbi(ctx, dest, src, 1, nelems, pe)
ctx_getmem_nbi(ctx, dest, src, nelems, pe) == ctx_get_nbi(ctx, dest, src, 1, nelems, pe)

(* put8 ... put128 and their kin move as many bytes as their name has      *)
(* bits; the strides count bytes.                                          *)
Sized(bits) == bits \div 8
ctx_put_sized(bits, ctx, dest, src, nelems, pe) == ctx_put(ctx, dest, src, Sized(bits), nelems, pe)
ctx_get_sized(bits, ctx, dest, src, nelems, pe) == ctx_get(ctx, dest, src, Sized(bits), nelems, pe)
ctx_put_sized_nbi(bits, ctx, dest, src, nelems, pe) == ctx_put_nbi(ctx, dest, src, Sized(bits), nelems, pe)
ctx_get_sized_nbi(bits, ctx, dest, src, nelems, pe) == ctx_get_nbi(ctx, dest, src, Sized(bits), nelems, pe)
ctx_iput_sized(bits, ctx, target, source, tst, sst, nelems, pe) ==
    FlattenSeq([i \in 1 .. nelems |->
        ctx_put_sized(bits, ctx, target + ((i - 1) * tst) \div 8,
                      source + ((i - 1) * sst) \div 8, 1, pe)])
ctx_iget_sized(bits, ctx, target, source, tst, sst, nelems, pe) ==
    FlattenSeq([i \in 1 .. nelems |->
        ctx_get_sized(bits, ctx, target + ((i - 1) * tst) \div 8,
                      source + ((i - 1) * sst) \div 8, 1, pe)])

-----------------------------------------------------------------------------
(* On the default context.  The typed iput and iget hand the bytes of the  *)
(* elements on where their number is expected.                             *)
shmem_put(dest, src, size, nelems, pe) == ctx_put(SHMEM_CTX_DEFAULT, dest, src, size, nelems, pe)
shmem_get(dest, src, size, nelems, pe) == ctx_get(SHMEM_CTX_DEFAULT, dest, src, size, nelems, pe)
shmem_iput(dest, src, tst, sst, size, nelems, pe) ==
    ctx_iput(SHMEM_CTX_DEFAULT, dest, src, tst, sst, size, 8 * size * nelems, pe)
shmem_iget(dest, src, tst, sst, size, nelems, pe) ==
    ctx_iget(SHMEM_CTX_DEFAULT, dest, src, tst, sst, size, 8 * size * nelems, pe)
shmem_put_nbi(dest, src, size, nelems, pe) == ctx_put_nbi(SHMEM_CTX_DEFAULT, dest, src, size, nelems, pe)
shmem_get_nbi(dest, src, size, nelems, pe) == ctx_get_nbi(SHMEM_CTX_DEFAULT, dest, src, size, nelems, pe)
shmem_p(addr, val, size, pe) == ctx_p(SHMEM_CTX_DEFAULT, addr, val, size, pe)
shmem_g(addr, size, pe) == ctx_g(SHMEM_CTX_DEFAULT, addr, size, pe)
shmem_putmem(dest, src, nelems, pe) == ctx_putmem(SHMEM_CTX_DEFAULT, dest, src, nelems, pe)
shmem_getmem(dest, src, nelems, pe) == ctx_getmem(SHMEM_CTX_DEFAULT, dest, src, nelems, pe)
shmem_putmem_nbi(dest, src, nelems, pe) == ctx_putmem_nbi(SHMEM_CTX_DEFAULT, dest, src, nelems, pe)
shmem_getmem_nbi(dest, src, nelems, pe) == ctx_getmem_nbi(SHMEM_CTX_DEFAULT, dest, src, nelems, pe)

shmem_put_sized(bits, dest, src, nelems, pe) ==
    ctx_put_sized(bits, SHMEM_CTX_DEFAULT, dest, src, nelems, pe)
shmem_get_sized(bits, dest, src, nelems, pe) ==
    ctx_get_sized(bits, SHMEM_CTX_DEFAULT, dest, src, nelems, pe)
shmem_put_sized_nbi(bits, dest, src, nelems, pe) ==
    ctx_put_sized_nbi(bits, SHMEM_CTX_DEFAULT, dest, src, nelems, pe)
shmem_get_sized_nbi(bits, dest, src, nelems, pe) ==
    ctx_get_sized_nbi(bits, SHMEM_CTX_DEFAULT, dest, src, nelems, pe)
shmem_iput_sized(bits, dest, src, tst, sst, nelems, pe) ==
    ctx_iput_sized(bits, SHMEM_CTX_DEFAULT, dest, src, tst, sst, nelems, pe)
shmem_iget_sized(bits, dest, src, tst, sst, nelems, pe) ==
    ctx_iget_sized(bits, SHMEM_CTX_DEFAULT, dest, src, tst, sst, nelems, pe)

=============================================================================
