------------------------------ MODULE Fortran ------------------------------
(***************************************************************************)
(* The Fortran interface (src/fortran.c): every routine as the call of the *)
(* C API it makes.  Names end in the underscore that FORTRANIFY appends.   *)
(* Arguments come by reference and are read on entry.                      *)
(*                                                                         *)
(* Here memory is words of 8 bytes: what is put or got contiguously is a   *)
(* whole number of them, what is strided has elements of whole words.      *)
(***************************************************************************)
EXTENDS Runtime

(* The bytes of an element, for the kind in the name of a routine.         *)
Bytes(kind) ==
    CASE kind = "character" -> 1
      [] kind \in {"integer", "logical", "real", "4", "32"} -> 4
      [] kind \in {"double", "complex", "8", "64"} -> 8
      [] kind = "128" -> 16

(* The non-blocking routines take 128 for a long long.                     *)
BytesNbi(kind) == IF kind = "128" THEN 8 ELSE Bytes(kind)

InWords(bytes) == bytes \div 8

-----------------------------------------------------------------------------
start_pes_ == shmem_init
shmem_finalize_(p, n) == shmem_finalize(p, n)

shmem_put_(kind, target, source, size, pe) ==
    shmem_put(target, source, 1, InWords(size * Bytes(kind)), pe)
shmem_get_(kind, target, source, size, pe) ==
    shmem_get(target, source, 1, InWords(size * Bytes(kind)), pe)
shmem_put_nbi_(kind, target, source, size, pe) ==
    shmem_put_nbi(target, source, 1, InWords(size * BytesNbi(kind)), pe)
shmem_get_nbi_(kind, target, source, size, pe) ==
    shmem_get_nbi(target, source, 1, InWords(size * BytesNbi(kind)), pe)

shmem_putmem_(target, source, size, pe) == shmem_putmem(target, source, InWords(size), pe)
shmem_getmem_(target, source, size, pe) == shmem_getmem(target, source, InWords(size), pe)
shmem_putmem_nbi_(target, source, size, pe) ==
    shmem_putmem_nbi(target, source, InWords(size), pe)
shmem_getmem_nbi_(target, source, size, pe) ==
    shmem_getmem_nbi(target, source, InWords(size), pe)

(* The complex type has its own strided calls, which hand the number of    *)
(* elements on; the others are those of the C API.                         *)
shmem_complexf_iput(target, source, tst, sst, nelems, pe) ==
    ctx_iput(SHMEM_CTX_DEFAULT, target, source, tst, sst, 1, nelems, pe)
shmem_complexf_iget(target, source, tst, sst, nelems, pe) ==
    ctx_iget(SHMEM_CTX_DEFAULT, target, source, tst, sst, 1, nelems, pe)

shmem_iput_(kind, target, source, tst, sst, size, pe) ==
    IF kind = "complex" THEN shmem_complexf_iput(target, source, tst, sst, size, pe)
    ELSE shmem_iput(target, source, tst, sst, InWords(Bytes(kind)), size, pe)
shmem_iget_(kind, target, source, tst, sst, size, pe) ==
    IF kind = "complex" THEN shmem_complexf_iget(target, source, tst, sst, size, pe)
    ELSE shmem_iget(target, source, tst, sst, InWords(Bytes(kind)), size, pe)

-----------------------------------------------------------------------------
shmem_barrier_(p, start, log, size, psync) == barrier(p, start, log, size, psync)
shmem_barrier_all_(p, npes) == barrier_all(p, npes)
shmem_fence_ == fence
shmem_quiet_ == quiet

shmem_wait_until_(ivar, cmp, cmp_value) == wait_until(ivar, cmp, cmp_value)
shmem_wait_(ivar, cmp_value) == wait(ivar, cmp_value)

shmem_inc_(target, pe) == shmem_atomic_inc(target, pe)
shmem_finc_(target, pe) == shmem_atomic_fetch_inc(target, pe)
shmem_add_(target, value, pe) == shmem_atomic_add(target, value, pe)
shmem_fadd_(target, value, pe) == shmem_atomic_fetch_add(target, value, pe)
shmem_swap_(target, value, pe) == shmem_atomic_swap(target, value, pe)
shmem_cswap_(target, cond, value, pe) == shmem_atomic_compare_swap(target, cond, value, pe)
shmem_fetch_(target, pe) == shmem_atomic_fetch(target, pe)
shmem_set_(target, val, pe) == shmem_atomic_set(target, val, pe)

-----------------------------------------------------------------------------
(* Collectives.  Reductions are of elements of a word.                     *)
shmem_fcollect_(kind, p, target, source, nelems, start, log, size, psync) ==
    fcollect(p, target, source, 1, InWords(nelems * Bytes(kind)), start, log, size, psync)
shmem_alltoall_(bits, p, target, source, nelems, start, log, size) ==
    alltoall(bits, p, target, source, nelems, start, log, size)
shmem_alltoalls_(bits, p, target, source, dst, sst, nelems, start, log, size) ==
    alltoalls(bits, p, target, source, dst, sst, nelems, start, log, size)
shmem_to_all_(p, opcall, target, source, nreduce, start, log, size, pWrk, psync) ==
    to_all(p, opcall, target, source, nreduce, start, log, size, pWrk, psync)

=============================================================================
