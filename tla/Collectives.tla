---------------------------- MODULE Collectives ----------------------------
(***************************************************************************)
(* What a PE does in the calls that are no put, get or atomic, as code for *)
(* Comms: ordering, waiting, barriers, and the collectives that are made   *)
(* of puts and gets (src/reductions.c, src/alltoall.c, shmemc/fcollect.c).  *)
(* "p" is the PE that calls; start, log and size give the active set.      *)
(*                                                                         *)
(* The barrier is the default one, the tree, which TreeBarrier has on its  *)
(* own.                                                                    *)
(***************************************************************************)
EXTENDS Comms

CONSTANT SHMEM_REDUCE_MIN_WRKDATA_SIZE

ASSUME CollectivesAssumption ==
    SHMEM_REDUCE_MIN_WRKDATA_SIZE \in Nat \ {0}

quiet == <<Plain("quiet")>>
fence == <<Plain("fence")>>
ctx_quiet(ctx) == <<Op("quiet", ctx, 0)>>
ctx_fence(ctx) == <<Op("fence", ctx, 0)>>
ctx_create(options) == <<[Plain("ctx_create") EXCEPT !.val = options]>>
ctx_destroy(ctx) == <<Op("ctx_destroy", ctx, 0)>>

wait_until(o, cmp, val) == <<[Plain("wait") EXCEPT !.src = o, !.cond = cmp, !.val = val]>>
wait(o, val) == wait_until(o, "ne", val)
test(o, cmp, val) == <<[Plain("test") EXCEPT !.src = o, !.cond = cmp, !.val = val]>>

-----------------------------------------------------------------------------
(* Barriers.  The first words of the heap are the pSyncs of barrier_all    *)
(* and sync_all.                                                           *)
barrier_all_psync == Globals
sync_all_psync    == Globals + 1
SHMEM_SYNC_VALUE  == 0
tree_degree       == 2

Children(i, size) == {c \in 1 .. size - 1 : (c - 1) \div tree_degree = i}

sync(p, start, log, size, psync) ==
    LET stride == 2 ^ log
        me_as  == (p - start) \div stride
        npokes == Cardinality(Children(me_as, size))
        Await(k) == wait_until(psync, "eq", SHMEM_SYNC_VALUE + k)
    IN  (IF npokes = 0 THEN << >> ELSE Await(npokes))
            \o (IF me_as = 0 THEN << >>
                ELSE shmem_finc(psync, start + ((me_as - 1) \div tree_degree) * stride)
                        \o Await(npokes + 1))
            \o <<[Plain("store") EXCEPT !.dest = psync, !.val = SHMEM_SYNC_VALUE]>>
            \o FlattenSeq([i \in 1 .. npokes |->
                    shmem_inc(psync, start + (tree_degree * me_as + i) * stride)])

(* Faulty variant: the puts before the barrier are not waited for.         *)
barrier_Unflushed(p, start, log, size, psync) == sync(p, start, log, size, psync)
barrier(p, start, log, size, psync) == quiet \o sync(p, start, log, size, psync)

barrier_all(p, npes) == barrier(p, 0, 0, npes, barrier_all_psync)
sync_all(p, npes) == sync(p, 0, 0, npes, sync_all_psync)

-----------------------------------------------------------------------------
(* Every member puts its block to all members.                             *)
fcollect(p, target, source, size, nelems, start, log, npes, psync) ==
    LET step == 2 ^ log
        tidx == nelems * size * ((p - start) \div step)
    IN  FlattenSeq([i \in 1 .. npes |->
            shmem_put(target + tidx, source, size, nelems, start + (i - 1) * step)])
            \o barrier(p, start, log, npes, psync)

(* Everyone gets a block from every member, with no barrier around it; the *)
(* block in the source is that of the caller's rank in the job.            *)
alltoall(bits, p, target, source, nelems, start, log, npes) ==
    LET step  == 2 ^ log
        block == ((bits \div 8) * nelems) \div 8
    IN  FlattenSeq([i \in 1 .. npes |->
            shmem_get_sized(bits, target + block * (i - 1), source + block * p,
                            nelems, start + (i - 1) * step)])

alltoalls(bits, p, target, source, dst, sst, nelems, start, log, npes) ==
    LET step == 2 ^ log
        Index(stride, i) == ((bits \div 8) * nelems * stride * i) \div 8
    IN  FlattenSeq([i \in 1 .. npes |->
            shmem_iget_sized(bits, target + Index(dst, i - 1), source + Index(sst, p),
                             dst, sst, nelems, start + (i - 1) * step)])

(* Reductions of words.  The source and the size in bytes are compared as  *)
(* if they were both elements: areas count as overlapping up to 8 times    *)
(* their distance.  A temporary is private memory.                         *)
inrange(a, b, n) == a >= b /\ a < b + n
overlap(target, source, nreduce) ==
    inrange(target, source, 8 * nreduce) \/ inrange(source, target, 8 * nreduce)

copy(dest, src, n) == <<Move("copy", SHMEM_CTX_DEFAULT, dest, src, n, 0)>>
combine(the_op, dest, src, n) ==
    <<[Move("combine", SHMEM_CTX_DEFAULT, dest, src, n, 0) EXCEPT !.cond = the_op]>>

(* The source of another PE, chunk by chunk, through pWrk.                 *)
reduce_from(pe, the_op, write_to, source, nreduce, pWrk) ==
    LET chunk  == SHMEM_REDUCE_MIN_WRKDATA_SIZE
        nloops == nreduce \div chunk
        Pull(i, n) == shmem_getmem(pWrk, source + i, n, pe)
                        \o combine(the_op, write_to + i, pWrk, n)
    IN  FlattenSeq([k \in 1 .. nloops |-> Pull((k - 1) * chunk, chunk)])
            \o Pull(nloops * chunk, nreduce % chunk)

udr_to_all(p, the_op, target, source, nreduce, start, log, npes, pWrk, psync) ==
    LET step == 2 ^ log
        over == overlap(target, source, nreduce)
        write_to == IF over THEN Private ELSE target
    IN  copy(write_to, source, nreduce)
            \o barrier(p, start, log, npes, psync)
            \o FlattenSeq([i \in 1 .. npes |->
                    LET pe == start + (i - 1) * step IN
                    IF pe = p THEN << >>
                    ELSE reduce_from(pe, the_op, write_to, source, nreduce, pWrk)])
            \o barrier(p, start, log, npes, psync)
            \o (IF over THEN copy(target, write_to, nreduce) ELSE << >>)

to_all(p, opcall, target, source, nreduce, start, log, npes, pWrk, psync) ==
    udr_to_all(p, opcall, target, source, nreduce, start, log, npes, pWrk, psync)

=============================================================================
