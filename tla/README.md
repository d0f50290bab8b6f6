# A TLA+ model of this OpenSHMEM implementation and its checkpoint library

The repository is an OpenSHMEM library over UCX (`src/src`, `src/include`) to which a
resilience layer has been added (`src/resilience-examples`).  A program
is a fixed set of processes, the *PEs*, that put, get and update words in one
another's *symmetric* memory.  The library's own protocols - locks, barriers,
broadcasts, collects and the checkpoint rings - are built from the same one-sided
operations.  They have no messages and hardly any error paths; what is hard about
them is that a word is written by several PEs, that posted operations are applied
later and out of order, and that one word is used again by the next call.

These modules model those protocols step by step, and beneath them the runtime:
how a job starts and ends, how puts, gets and atomics reach memory, the symmetric
heap and its allocator.  TLC checks them on small instances.  TLAPS proves the safety
of the lock for every number of PEs, of the three barriers, the four broadcasts and
the collect for every active set and root, of the checkpoint library for programs that
its ring has room for, and of the symmetric heap for every segment and all calls (that
blocks are the same on all PEs: for alignments up to the page); and
that the lock and the barriers implement what their abstract specifications promise.

Paths below are relative to `src/`.  `api.h` and `defs.h` are in `include/shmem/`,
`locks.c`, `barrier.c`, `broadcast.c`, `collect.c`, `fcollect.c`, `comms.c`,
`ucx-init.c`, `shmemc-init.c` and the PMI clients in `src/shmemc/`, the checkpoint
programs in `resilience-examples/`.

## 1. Inventory

| component | files | state | operations | status |
|---|---|---|---|---|
| locks | `src/lock.c`, `locks.c` | two words per lock: the tail of the queue on its owner, a queue node on each PE | set, test, clear | modelled, proved |
| barrier, sync | `src/barrier.c`, `barrier.c`, `collalgo.c` | `pSync`, one or two words per PE; the algorithm installed at start-up | barrier, barrier_all, sync, sync_all × linear, tree, dissemination | modelled, proved |
| broadcast | `src/broadcast.c`, `broadcast.c`, `collalgo.c` | `pSync`, target | linear, tree, binomial, binomial2 | modelled, proved |
| collect | `src/collect.c`, `collect.c` | `pSync` as offset, then as barrier counter; target | collect32/64 | modelled |
| reductions, fcollect, alltoall | `src/reductions.c`, `fcollect.c`, `src/alltoall.c` | target, a temporary, `pWrk` | `*_to_all`, fcollect, alltoall(s) | modelled |
| RMA, AMO, fence, quiet | `comms.c`, `src/putget.*`, `src/atomics.c`, `src/quiet.c` | symmetric words; what is posted | put, get, strided, by size, non-blocking; fetch ... bitwise; fence, quiet | modelled |
| wait and test | `src/waituntil.c`, `src/shmemc/waituntil.c` | - | wait, wait_until, test | modelled |
| contexts | `src/contexts.c`, `src/shmemc/contexts.c` | table of contexts | create, destroy | partly |
| life cycle | `src/init.c`, `shmemc-init.c`, `src/globalexit.c` | reference count | init, finalize, exit | partly |
| PMI clients | `pmi1-client.c`, `pmix-client.c` | what is published and fetched | publish, fence, exchange, release | PMIx modelled |
| transport set-up | `ucx-init.c` | regions, endpoints, keys | register, connect, disconnect | partly |
| symmetric heap | `src/shmalloc.c`, `src/allocator/` | an mspace per PE: chunks, bins, designated victim, top | malloc, calloc, align, realloc, free | partly |
| Fortran interface | `src/fortran.c` | - | the same calls | partly |
| checkpoint library | `checkpoint.c` | shadow memory, checkpoint table, two rings per storage PE, arrays of roles and types | init, reserve, checkpoint, rollback | partly: many-copy mode |
| checkpoint variants | seven `*_matmul.c` | the same, and flags or random numbers per slot, the word of the table's copy | the same; copy of the table | partly |
| thread layer | `src/shmem_mutex.*` | one process-wide mutex | around every API call | not modelled |
| environment, utilities | `readenv.c`, `unitparse.c`, `shmemu/`, `osh_info.c`, ... | - | parsing, logging, queries | not modelled |

**How they interact.**  Everything is a one-sided operation on another PE's memory.
Three kinds must be told apart.  *Fetching* operations (swap, cswap, fetch, set,
get, fetch-and-add) have been applied when they return.  *Posted* ones (put, add, inc)
return when the source can be reused; they are applied later, in any order.
*Quiet* waits for all of the caller's; *fence* orders the caller's operations to
each PE.  The collectives call one another (`collect` ends in a barrier, the linear
broadcast begins with one, the reductions have two); the calls of the symmetric heap
have barriers around them; start-up and shut-down go through PMIx and a last
barrier; the checkpoint libraries call barriers, atomics, puts and waits.  A PE that waits spins and progresses its transport, so it never blocks what
others send to it.

**What is hard**, with the line where it bites, is the list `hazards` of
`PROJECT.json`: races on one word by several writers, a call of the next collective
overtaking the last step of this one, flags overtaking data, a value read twice with
a message in between, an update that is fetched and swapped, keys used before they
are there or after they are gone, chunks merged and split in any order, rings that
wrap, PEs that die with carriers on their way.

**What makes each component correct**

- lock: exclusion; first come first served; the writes of a critical section are
  there before the next holder is; every call returns.
- barrier: nobody leaves before all have entered; puts are flushed; `pSync` is back
  at its initial value; every call returns.
- broadcast: who is back has the data; one tree seen alike from both ends; `pSync`
  restored; every call returns.
- collect: slices in PE order and complete; every call returns.
- runtime: every operation reaches registered memory of a PE the caller is connected
  to, at the offset that was meant; a program finds what its fences, quiets, waits
  and barriers entitle it to; every job gets from its first call out of its last.
- symmetric heap: chunks tile the segment, headers and feet agree, free chunks are
  merged and can be found again; a block that a PE may use is there on every PE.
- checkpoint: storage PEs that have emptied their rings have every shadow memory;
  rows in order of ids; every part played by one PE; after a rollback all have the
  memory of one checkpoint; nobody waits in vain.

## 2. Modules

    FifoLock  <--implements--  ShmemLock  <--  MCShmemLock
                                   ^----- ShmemLockProofs (TLAPS)

    AbstractBarrier <--implements--+
    BarrierCalls <- LinearBarrier  |
                 <- TreeBarrier    +- Barriers (INSTANCEs of the three)
                 <- DisseminationBarrier
                    TreeBarrier <- Collect <- MCCollect
    Broadcast

    NaturalLemmas <- TreeBarrierProofs <- CollectProofs
                  <- BarriersProofs (the linear barrier, dissemination, and an
                  |                  INSTANCE of TreeBarrierProofs)
                  <- BroadcastProofs                                          (TLAPS)

    PutGet <- Atomics <- Launch <- Comms <- Collectives <- Runtime <- Fortran <- MCRuntime

    Mspace <- SymmetricHeap (with an INSTANCE of AbstractBarrier) <- MCSymmetricHeap
              SymmetricHeap, NaturalLemmas <- HeapProofs (TLAPS)

    Checkpoint <- MCCheckpoint
               <- CheckpointLibraries (with an INSTANCE of MatmulCheckpoint) <-+
                                                     MatmulMains <-------------+- MCCheckpointLibraries
                  CheckpointLibraries, NaturalLemmas <- CheckpointProofs (TLAPS)

### ShmemLock (`locks.c`)

A lock is two 32-bit words, each a 16-bit `locked` flag and a 16-bit `next` rank.
`lock[o]` is the first word on the owner `o`, `node[p]` the second on each PE.
`LockOwner(p)` computes the owner as `lock_owner()` does, from *p*'s own address,
so that addresses that differ between PEs are inputs (`LockAddr`).  One action per
access of shared memory: `ResetNext`, `SwapFree`/`SwapTaken` (one swap, two
outcomes), `MarkLocked`, `LinkToPred`, `WaitUnlocked` are `set_lock`; `GetFree`,
`GetTaken` are `test_lock`, which goes on into `set_lock`; `Quiet`, `CheckNext`,
`CswapLock`, `WaitNext`, `GrantNext` are `shmemc_clear_lock`.  `CriticalPut` is a
program that writes while it holds the lock.  `Int16` keeps the width of the rank.
`queue` is a history variable (the order of the swaps); no guard reads it.

`FifoLock` says what a lock is, without how: a line, and who is inside.

### BarrierCalls, LinearBarrier, TreeBarrier, DisseminationBarrier, Barriers (`barrier.c`)

`BarrierCalls` is what the three algorithms share: the active set, the calls,
whether each is a `shmem_barrier` or a `shmem_sync` (`kind`, chosen for every
episode), the quiet at the start of the former and the program's puts that it
flushes.  Each algorithm adds its `pSync` and what is in flight, with one action
per statement that touches them.  `Barriers` chooses the algorithm as
`shmemc_barrier_init` does and checks all three behind one interface;
`AbstractBarrier` is the promise of `api.h`.

The linear root's acknowledgement value is computed from `pSync` *before* the pokes
are counted (`barrier.c:27`), which is why it is a variable (`poke`).  The tree
algorithm pokes its parent with a fetching increment and its children with posted
ones; the dissemination algorithm counts, so that a poke for the next barrier may
already be there.

### Broadcast (`broadcast.c`)

The helper and the root are chosen in `Init`.  `Children`, `ParentIndex` and `Swap`
translate `collalgo.c:14-59` and the four swaps of the root with the virtual root.
`posted` holds puts and increments with the number of fences made before them; an
operation is applied before those of a later generation to the same PE.  The
barrier of the linear helper is one guard, `LeaveBarrier`: what `AbstractBarrier`
promises and `Barriers` is checked to keep.  Between two broadcasts over one
`pSync` a program must synchronise (the specification of OpenSHMEM says so); `Call`
has that as its guard.

### Collect (`collect.c`)

Extends `TreeBarrier` and lets it run as the closing barrier: it uses the same
`pSync` word for the offset wave and the barrier's counts, and both of the
properties that fail here come from that.  A member's slice is one element of
`writes`, which the closing barrier's quiet waits for.

### Checkpoint (`resilience-examples/checkpoint.c`)

The program is that of `main()`: all PEs reserve their regions; in each round all
call `shmem_cpr_checkpoint` region by region with a barrier after each; between
rounds a PE may die, upon which all others call `shmem_cpr_rollback`; at the end
the storage PEs drain their rings.  `Programs` gives the number of storage PEs, of
regions and the order of rounds and deaths.  Within a stage every PE runs on its
own: `Reserve`, `CheckpointData`, `Send` (claim a slot, post the carrier),
`TestSignal`, `SetSignal` on the computing side; `WaitReserve`, `FileReservation`,
`EndReserve`, `ClearSignal`, `CheckpointStored`, `WaitCheck`, `FileData`,
`EndCheckpoint`, `EmptyQueue`, `TakeOver` on the storage side.  `view[p]` is each
PE's own copy of the arrays of roles, types and storage PEs: nothing keeps them
equal but that everybody computes the same.

Abstractions: the many-copy mode only (in the two-copy mode the copying of the
table is an empty function, `checkpoint.c:647`); a carrier is applied as a whole
(the library waits for its `count` only); a region holds whose it is and how much
work was done on it; symmetric addresses are the same on all PEs; and a death falls
between two stages, after which the PE takes no step.  `main()` itself only plays a
death: PE 3 goes on, and the storage PEs are told by hand at which iteration they
are.  The model has what that stands for.

### MatmulCheckpoint, MatmulMains, CheckpointLibraries (`*_matmul.c`)

Seven programs hold copies of the library that grew apart.  `MatmulCheckpoint`
models them as one, with the differences as fields of the program, and
`MatmulMains` has those fields for each `main()`: its mode, its spare PEs, what it
reserves, and its plan of checkpoints and rollbacks.  What is new against
`Checkpoint`: a flag per slot (`randomness`) that is put after the carrier behind a
fence, as two deliveries of one element of `posted`; regions in pieces, a carrier
each; the drains after a stage, before which `main()` raises the signal by hand;
the two-copy mode with dormant PEs; the copy of the table to a new storage PE, a
handshake over one word with a count and a slot (`info`, `copy`); and in
`checkpoint_matmul.c` the earlier protocol, in which a slot is new when its random
number is not the last one seen there.  `checkpoint_matmul_stale` is that program
where `malloc` does not return zeros: then it reads carriers that nobody sent, and
only its types are checked (`Trusted`).  A piece of memory holds whose it is and how
much work was done on it; the product is not computed.  `twocp_rb_rollback` is `2cp_rb_matmul.c`
with the rollback that its `main()` has in a comment (lines 1159-1173); nothing else
calls its copy of the table.

`CheckpointLibraries` puts the two modules side by side: a job is built with one of
the libraries, the properties are asked of all.

### PutGet, Atomics, Launch, Comms, Collectives, Runtime, Fortran

Here a *program* is data: for each PE a sequence of operations that its `pc` walks
through.  The modules translate the library as it is layered.  A call of the API is
an operator that yields the operations it issues: `PutGet` and `Atomics` for
`putget.*` and `atomics.c`, `Collectives` for barriers, fcollect, alltoall and the
reductions, `Fortran` for the Fortran names.  `Launch` has `shmem_init` and
`shmem_finalize` as operations like the others, with PMIx underneath.  `Comms` says
what an operation does: it translates the address from the caller's heap base to
the target's, takes the endpoint, and posts words; `Deliver` applies a posted word at
any time that no earlier fence of the same worker to the same PE forbids.  A put
carries its value, a non-blocking put reads its source when it is delivered, a get
writes its result then.  Fetching atomics are applied at once, behind the fences;
the bitwise ones are a fetch and a compare-and-swap that jumps back when it fails.
`Runtime` puts it together and adds what a test program needs: an assignment, a loop
and `See`, a look at a word that states what the program may rely on there.  Every
`See` is written where fences, quiets, waits and barriers of the program entitle it
to the value, and `SeenInOrder` says that it is found.

The unit of memory is a word of 8 bytes.  `size` arguments that the code takes for
bytes are kept as the code takes them: the sized calls move as many bytes as their
name has bits (`putget.h:48`) and count strides in bytes, the typed strided ones
pass the product of size and number as the number (`putget.h:396`), alltoall indexes
by the rank in the job (`alltoall.c:76`), the overlap test of the reductions compares
bytes as elements (`reductions.c:44`).  Programs are written so that what is moved
stays within their memory.

### Mspace, SymmetricHeap (`allocator/dlmalloc.c`, `shmalloc.c`)

`Mspace` is the allocator as operators from a heap to the next: `mspace_malloc`,
`calloc`, `memalign`, `realloc` and `free`, each with its cases in the order of the
code (exact bin, designated victim, best fit, top; merge backward, forward, with
victim or top).  A heap has its headers by address, the bins, the victim and the
top; addresses are offsets in the segment and count units of 16 bytes.  An alignment is
raised to a power of two (`Alignment`), as `dlmalloc.c:4889` does; one is given in units,
so the smaller ones, which the code raises to two units in any case, are one.  The spot is
aligned as an *address* (`AlignedSpot` has the base of the segment), so it is the one
place where a heap depends on where it lies.  Sizes are natural numbers: that no power of
two of 64 bits is as large as an alignment above 2^63, for which the loop of
`dlmalloc.c:4892` does not end, is not modelled.  Abstracted: the shape of the trees (their
searches find the best fit; the chain of equal sizes is kept, because its order
decides which chunk is taken) and the contents of blocks.  The build sets
`HAVE_MMAP` and `HAVE_MORECORE` to 0, so what does not fit in the segment fails.
`SymmetricHeap` is one mspace per PE, in a segment that begins at `Base[p]`, with the
pointers of a program as offsets (`comms.c:84` takes an address from PE to PE that way);
`Base` is any function, for UCX picks the address (`ucx-init.c:186`).  A call is the
sequence of its phases, as `shmalloc.c` has its barriers: behind malloc, calloc and
align, before free, on both sides of realloc.  The first PE to get there chooses the
next call, the others make the same.  The barrier is `AbstractBarrier`.

## 3. Runs

| run | instance | shows |
|---|---|---|
| `Lock` | 3 PEs, any calls, addresses apart but congruent | exclusion, order (`FifoSpec`), flushed critical sections, no vain wait, every call returns, `IInv` |
| `LockUnaligned` | 3 PEs, heaps a page apart | *finding*: two owners, two holders |
| `Barriers` | 4 PEs (1, 3, 5, 7), 2 calls, 2 writers, all mixtures of barrier and sync, 3 algorithms | the promise, flushing, `pSync`, every call returns |
| `DissemFivePEs` | 5 PEs | *finding*: a third word of a two-word `pSync` |
| `Broadcast` | 4 PEs (1, 3, 5, 7), 2 calls, 4 helpers × 4 roots | data on return, one tree, no extra poke, `pSync`, served on return, every call returns |
| `CollectWave` | 4 PEs with 1, 2, 3, 4 elements | the wave, slices of leaves, completeness |
| `CollectHangs` | 2 PEs | *finding*: clean-up wipes out a poke |
| `Runtime` | 25 programs of 2 to 4 PEs, over the C and the Fortran interface | operations reach registered memory, what is relied on is found, every job ends |
| `Heap` | 2 PEs, 5 calls, a segment of 21 units, 3 pointers, bases an odd number of 64-byte pages apart, an alignment of 48 bytes | the allocator's own assertions, free chunks found again, blocks symmetric |
| `Checkpoint` | 2 computing PEs, 1 to 3 spare ones; 2 programs over `checkpoint.c`, 8 over the variants | ids are indices, places reserved, stored copies, parts, one checkpoint, the copied table, no vain wait |
| `CheckpointHangs` | 2 computing, 1 storage, 2 regions, one round | *finding*: the second reserve waits for ever |
| `CheckpointWraps` | 2 computing, 1 storage, 2 rounds, ring of 2 | *finding*: a slot's old carrier is filed again |

**Bounds and why they are enough.**  The lock needs no bound but the number of PEs:
with three there is a holder, its successor and one that races the link of the
second.  Two calls of a barrier let a fast PE be in the second while a slow one is
in the first, and nobody can be two ahead; four members make a tree with an inner
node and a leaf at the top level, two rounds of dissemination and three pokes to
the linear root; start 1 and stride 2 keep ranks and indices apart.  For the
broadcasts every root is tried, so the swap is the identity once and moves a leaf
and an inner node otherwise; the binomial tree of four has two levels.  `Collect`
has one call (`OneCall`): the next over the same `pSync` is not allowed to begin as
soon as this one returns (see below).  `Runtime` has one
program per group of calls, each as small as the question allows: two PEs for order
and completion, three for a bit each in one word and a reduction in place, four for
several producers; heaps lie at different addresses (`MCHeapBase`); each job runs
from the first `shmem_init` to the last finalize, one of them started twice and left
by `exit()` with a put on its way.  `Heap`'s sizes are one of the small bins and two
of the trees (`MinLarge`), the segment is large enough for three blocks and small
enough to run full, and TLC's coverage shows that with five calls every case of the
allocator occurs: merging on either side and with victim or top, each way to extend
a block, an aligned block with parts given back.  The bases differ by the alignment that 48 bytes
are raised to and by no multiple of 48, so `SymmetricBlocks` needs the rounding;
`Counts` is the calloc of no
elements, the others being mallocs.
In `Checkpoint` two regions let a reservation of the second be read in the first
call; two storage PEs let the first list of storages be cut; three spare PEs leave
a dormant one in two-copy mode; three items of two to a piece make two pieces, the
last of them not full; two values of `rand` make it repeat or change; the ring holds
all carriers of a program, and `CheckpointWraps` has what happens when it does not.
`Checkpoint.cfg` does not check deadlock, and neither do the other cfgs of that
module: the hang of `CheckpointHangs` and that of the earlier library (`rand` equal
to the number last seen) are states of the code in which nothing moves.  For the
variants with flags `NeverStuck` says instead that a stage that has begun goes on;
it leaves out programs with several regions, which have the hang of
`CheckpointHangs`, and the copy of the table, which may lose a signal.
The two runs of `Collect` have the hang of `CollectHangs`.  The other runs check it.

**Fairness.**  Weak fairness of each PE's steps inside a call (a PE is a running
process), of the holder leaving its critical section, of the members of an active
set calling (OpenSHMEM requires it of a collective), and of the application of
posted operations (UCX progresses them while PEs spin or run).  In `Runtime` it is
weak fairness of every PE's next operation and of the delivery of what is posted.
Nothing makes a PE call a lock.  `Heap` and `Checkpoint` check safety, the latter
with `NeverStuck`, which is one.  Strong fairness is used nowhere.

**Findings.**  Five disagreements with what the repository says, each a run that
TLC refutes and an entry of `findings` with the quotation:

1. `locks.c:45`: the owner of a lock is computed from a local address, and in the
   default build the addresses of symmetric heaps differ (`comms.c:86`).
2. `barrier.c:114`: one word of `pSync` per round, against the two of `defs.h:89`.
3. `collect.c:67`: the clean-up store erases a poke of the closing barrier.
4. `checkpoint.c:520`: the signal is cleared after carriers of the next call have
   been read; the matmul variants raise it by hand before the call.
5. `checkpoint.c:618`: counts of slots are never cleared, so a ring works once.

Seen while modelling, with no run of their own:

- Locks and collectives.  `test_lock` returns 0 when it has the lock and 1 when not,
  against `api.h:2164`; it can wait, against `api.h:2161`; ranks above 32767 do not
  fit the lock's 16 bits (`locks.c:93`).  `collect` re-reads `pSync` for its index
  after its neighbour has been let go (`collect.c:54`), so an inner node can place
  its slice at a poke's count; a first PE that contributes nothing makes its
  neighbour wait for ever (`collect.c:37`).  Two collects in a row over one `pSync`
  go wrong although each ends in a barrier: members leave it at different times, and a
  fast one's next offset replaces the count of a neighbour still in it (with four
  members and elements 2, 1, 1, 1 TLC finds a wrong offset); `OneCall` is the program's
  duty.  "binomial2" is parsed as "binomial"
  (`collalgo.c:79`).
- Symmetric heap.  `shmem_align` aligns the caller's own address (`dlmalloc.c:4916`), so
  for an alignment above the page the block lies at different offsets on PEs whose
  segments are an odd number of pages apart, and is not the symmetric memory of
  `api.h:952`.  TLC refutes `SymmetricBlocks` in one call for two PEs with
  `Base <- KernelPagesApart` and `Alignments = {512}` (8192 bytes) in a segment of 1200
  units (`MstateSize = 60`, `MinLarge = 16`).
- Transport.  Every context uses the endpoints of the default one (`comms.c:28`), so
  fence, quiet and destruction of another context act on a worker that has posted
  nothing.  `addr_accessible` compares a local address with a remote range
  (`comms.c:203`).  A float is swapped as the integer it converts to
  (`atomics.c:63`).  alltoall by 64-bit gets moves eight times its block.  UCX
  is told whether threads share its workers by `osh_tl` (`ucx-init.c:95`), which
  `init.c:95` sets only afterwards.  Keys are destroyed while the pokes of the last barrier may be
  on their way: they name the target's memory, which goes only when endpoints have
  been flushed, so `ReachesMemory` holds.  The PMI-1 client publishes neither heaps
  nor keys.
- Fortran.  put128_nbi and get128_nbi move 8 bytes of 16; `malloc_error` is an `int`
  (`shmalloc.c:18`) that `fortran.c` reads as a `long`; shpalloc and its kin have no
  barrier.
- Checkpoint libraries.  The resurrected PE's `cpr_shadow_mem_tail` stays 0
  (`checkpoint.c:703`), so with a second death it restores nothing; the death of a
  storage PE cuts the list at its end (`checkpoint.c:765`), so another one is no
  longer sent to.  A last piece that is full is not restored, as the number of its
  items is taken modulo the size of a piece.  In the earlier library offsets of
  shadow pieces are never set, the numbers compared with `rand()` come from
  `malloc`, and an equal number makes a storage PE wait for ever.  In the copy of
  the table both sides lower the word they signal by when they come in, so a signal
  can be lost, and the storage PE never lowers its own again, so it runs ahead; the
  candidate's role does not become that of a storage PE.  The ring of 100 slots
  overflows at the sizes the programs are written for (N = 800).

## 4. Proofs

Every theorem is about the specification the runs check (`Spec`), for all values of
its constants.  The assumptions on them are those the modules name, and TLC evaluates
them in the runs: `RanksAssumption`, `AddrAssumption` for the lock,
`ActiveSetAssumption` (start and logarithm of the stride are natural, there is a
member, `MaxEpisodes` is natural), `WritersAssumption` (writers are members) for the
barriers, `BroadcastAssumption`, the same for the broadcasts, `MspaceAssumption` (the
segment is larger than the `malloc_state`, and that than the least large size: it is
256 bytes, the bins alone take more) and `HeapAssumption` (finitely many PEs, at least
one, each with any base; requests and alignments are not 0) for the heap, and `CheckpointAssumption`, `MatmulAssumption` (the programs' fields have their types, the
first step of a plan is a round, and not more PEs die than are spare) and
`ReservationsFit` and `CheckpointsFit` for the checkpoint library.  Bounds on calls are
constants like the others, so they bound nothing in a theorem.

### Lock: `ShmemLockProofs`

    THEOREM Invariance     == AlignedJob => (Spec => []IInv)
    THEOREM TypeCorrect    == AlignedJob => (Spec => []TypeOK)
    THEOREM Exclusion      == AlignedJob => (Spec => []MutualExclusion)
    THEOREM WritesVisible  == AlignedJob => (Spec => []CriticalWritesVisible)
    THEOREM NoVainWait     == AlignedJob => (Spec => []SuccessorExists)
    THEOREM ImplementsFifo == AlignedJob => (Spec => FifoSpec)

`AlignedJob` is that all PEs compute the same owner and that ranks fit 16 bits
(`NRanks <= 32768`).  Without the first exclusion is false: that is
`LockUnaligned`.  Without the second `CswapLock` and `WaitNext` misread ranks.

`MutualExclusion` is not inductive: it does not say why the second in line waits.
`IInv` adds, in named conjuncts, what the protocol relies on:

- `LineInv`: the line holds exactly the PEs from their swap to their release, once;
- `LastInv`: the owner's word names the last of the line, whose `next` is unset;
- `HeadInv`: the first of the line holds the lock, or waits with its flag open or
  with a grant on its way;
- `BehindInv`: everybody else is queued behind its predecessor with its flag
  closed, and the predecessor's `next` is set exactly when the link has arrived;
- `PutsInv`: every link and grant in flight is one of those the first two speak of,
  and data puts belong to a holder that has not passed its quiet;
- `NodeInv`: what a PE has read of its own node still holds.

Only the first of the line can then be a holder (`HolderFirst`), from which
exclusion follows.  `NextInv` has one step per action and one below it per conjunct
that the action touches; `NextType` does the types once.  `ImplementsFifo` maps
every step to a claim, an entry, a release or a stutter (`StepFifo`).

### Numbers: `NaturalLemmas`

The algorithms compute with powers of two.  The lemmas say that they are positive,
grow, exceed their exponent and multiply by adding exponents, that a number is a
power of two times an odd number in one way (its lowest set bit), and what a ring of
positions does under steps of a given distance.  They are inductions over sets of
natural numbers: the set of those for which the claim holds is everything
(`InductionOverSet`, `CourseOfValues`), which needs no operator as a parameter.  The
recursion of `2 ^ n` comes from counting the subsets of `1 .. n` (`PowerNext`),
because the provers know exponentiation by no definition.

### Barriers: `TreeBarrierProofs`, `BarriersProofs`

    THEOREM TreeCorrect          == Spec => [](NobodyEarly /\ NoExtraPoke /\ PSyncRestored)

    THEOREM LinearCorrect        == Linear!Spec =>
                                      [](NobodyEarly /\ AckIsNews /\ PSyncRestored)
    THEOREM DisseminationCorrect == Dissem!Spec =>
                                      [](NobodyEarly /\ TypeOK /\ OnePokeAhead /\ PSyncRestored)

    THEOREM TypeCorrect  == Spec => []TypeOK
    THEOREM PokesCorrect == Spec => []PokesAreCounted
    THEOREM PSyncCorrect == Spec => []PSyncRestored
    THEOREM FlushCorrect == Spec => []FlushedOnReturn
    THEOREM Implements   == Spec => KeepsPromise

What all three need of one another is in `BarrierCalls`: `NobodyEarly` (a member that
has left its n-th call implies that all have entered theirs) and `CallsStep`, the
steps a module may make in the variables of the calls.  From these two alone, without
a look at any `pSync`, follow `FlushedOnReturn` and the refinement of
`AbstractBarrier`.  That `NobodyEarly` holds is the work of each algorithm, and none
of the three is inductive by itself:

- linear: the root gathers in rounds.  `Gathering` is the round it is in; the
  invariant says who has poked in it, that the root's word is the number of pokes
  that have arrived, and that an acknowledgement in flight belongs to this round and
  meets a clear word.
- tree: per edge, what the child has posted up and the parent down, counted over all
  calls.  The four counters differ by at most one, in an order that says who waits for
  whom; `pSync` is the number of pokes that have arrived since it was cleared.
- dissemination: per word, what has been poked and what has been taken away, over all
  calls.  A member in round k has heard of the 2^k members behind it; as 2^rounds is at
  least the size, in the last round of all.

`BarriersProofs` has the proofs of the linear and the dissemination algorithm as the
instances `Linear` and `Dissem` of `Barriers`; that of the tree is a module of its own,
which the collect's proof extends.  At its end the algorithm that `Init` chooses is
installed and the results carried over.  The abstract barrier's steps are those of
`CallsStep`.

### Broadcasts: `BroadcastProofs`

    THEOREM TypeCorrect   == Spec => []TypeOK
    THEOREM DataCorrect   == Spec => []DataOnReturn
    THEOREM ServedCorrect == Spec => []ServedOnReturn
    THEOREM PokesCorrect  == Spec => []NoExtraPoke
    THEOREM TreeCorrect   == Spec => []OneTree
    THEOREM PSyncCorrect  == Spec => []PSyncRestored

The first part is about the trees, with no step in it: virtual indices and members
correspond (`VirtualIndices`), and a member is among the children its parent computes
exactly if it computes that parent (`Edges`), for the tree of degree two and for the
binomial ones, whose parent is found by clearing the lowest set bit.  `NeighboursAre`
counts them: what `GatherAcks` waits for is the number of neighbours.

The invariant looks at edges.  `DataTo` and `IncTo` say from a member's place in its
loop to which children it has posted the data and the increment; `PokedBy(p)` are
the neighbours whose increment has reached `p`.  Then, in named conjuncts:

- `CallInv`: all are in the latest broadcast or back from the one before;
- `LoopInv`: the place in the loop, and that no loop has more fences than children;
- `DataInv`: data in flight goes down an edge, has been sent once and, if the
  increment has been sent as well, has that behind it in a later generation;
- `IncInv`, `OnceInv`: increments in flight go along an edge, one each way;
- `PSyncInv`: `pSync` is the number of neighbours whose increment has arrived;
- `PokedInv`: past its wait a member has been poked by its parent, past its gathering
  by all its neighbours;
- `TargetInv`: target holds the data of this broadcast exactly if it has arrived.

The heart of it is `WaitParentStep`: the word is no longer zero, so somebody has poked;
that it was the parent, and not an early child, holds because a child acknowledges
only after it has been let go.  The rest of `PSyncInv` is that a sum which is tested
for equality is reached exactly when the set is complete.  The linear broadcast has a
small invariant of its own (`LinearInv`).

### Collect: `CollectProofs`

    THEOREM CollectTypes   == CollectSpec => []CollectTypeOK
    THEOREM OffsetsCorrect == CollectSpec => []OffsetsInOrder
    THEOREM LeavesCorrect  == CollectSpec => []LeavesInOrder
    THEOREM SlicesArrive   == CollectSpec => []FlushedOnReturn

For every active set and all contributions, under `OneCall`.  The closing barrier is not
the barrier of `TreeBarrierProofs`: `CleanUp` may erase pokes of children that are ahead,
so the equations of that proof are false here, and the collect may hang (finding 3).  What
is left is one-sided, in named conjuncts of `WaveInv`:

- `OrderInv`: nobody has its offset before all to its left have passed it on;
- `HeldInv`, `OffsInv`: until a member has its offset its word is 0 or that offset, and
  an offset on its way finds a word of 0.  A poke cannot be there, since a child has a
  higher rank, so the wave passes it later, and a parent pokes only those it has heard from;
- `CountBound`: a word is at most the offset, if it has not been cleared, and the pokes
  that have arrived from children and parent.  Pokes may be missing, but what has been
  counted has been sent; so a member whose count is reached has heard from all it waits for;
- `PokesInv`: a poke in flight has been sent and not yet been counted, and nobody has
  gathered before its children have climbed, nor is awake before it has been poked;
- `SliceInv`: a slice in flight is of a member still before its quiet.

With these, when one is back all have gathered (`AllHaveGathered`), and have flushed
their slices before.  A leaf's word is touched by nobody between its offset and its slice,
which is `LeavesInOrder`; an inner node's may be, which is the divergence noted above
(section 3).  The sums over members are a `CHOOSE`n recursive function in the community modules;
`SumsExist` and `SumsAgree` show that there is one and that the order of adding does not
matter, by induction over a set of numbers.

### Checkpoints: `CheckpointProofs`

    THEOREM Invariance          == AnySpec /\ IsPlain => []IInv
    THEOREM TypeCorrect         == AnySpec /\ IsPlain => []AnyTypeOK
    THEOREM IdsAreIndicesAlways == AnySpec /\ IsPlain => []IdsAreIndices
    THEOREM PlacesReserved      == AnySpec /\ IsPlain => []PlaceReserved
    THEOREM CopiesInvariance    == AnySpec /\ IsPlain => [](IInv /\ Copies)
    THEOREM CopiesStored        == AnySpec /\ IsPlain => []StoredCopies
    THEOREM PartsAlwaysPlayed   == ASSUME Replaceable
                                   PROVE  AnySpec /\ IsPlain => []PartsPlayed
    THEOREM OneCheckpointAfterwards == ASSUME SingleDeath
                                       PROVE  AnySpec /\ IsPlain => []OneCheckpoint

`IsPlain` says that the job was built with the library of `checkpoint.c`; those of the
other programs have a protocol and an invariant of their own.  The theorems hold for
any number of computing and spare PEs and any plan of rounds and deaths.
`ReservationsFit` is what the code leaves to its user: the 100 slots of a ring take the
reservations of all computing PEs, if no storage PE files one before the last has come.
`main()` reserves two regions, which does for 50 computing PEs.  `CheckpointsFit` says
the same of the carriers of checkpoints, of which there are `Originals` times regions
times rounds: twelve computing PEs in the four rounds of `main()`.  It is not that a
storage PE might be slow: the code never empties a slot, so once a ring has come round
it takes an old carrier for a new one however quickly it files them.  The finding
`CheckpointWraps` is what happens without it.  Only `CopiesStored` and what follows from
it need it.

That the id of a region is its index in the row ("I'm assuming id = index here") holds
for two reasons that no single line shows: reservations of different PEs arrive in any
order, but a PE posts its own in the order of their ids, and a slot is claimed before
the carrier is put.  `IInv` states this about what is claimed (`Claimed`: a carrier in
its slot, or on its way there), which delivery does not change:

- `SlotsClaimed`: each slot below the tail has one carrier, in place or on its way, so
  that the storage PE cannot pass over one that has not come;
- `Reservations`: these are exactly the reservations sent, those of a PE in the order of
  their ids; a slot is behind the head exactly if its id is below the length of the row.
  The next one filed is then the next id of its row (`NextReservation`);
- `Drained`: a storage PE turns to checkpoints when it has filed all reservations, so
  every place a checkpoint asks for is there (`AllFiled`);
- `Calls`, `Shadows`: reservations are made in the first stage only, and the shadow
  memory of a computing PE is as long as it has made calls;
- `Views`, `Numbers`, `Parts`, `Placed`: before its own rollback a PE sees the others as
  everybody does who is not done, and after it as everybody who is; every death takes one
  spare PE, so one is left to be chosen, and the one chosen is a storage PE.

`Room` is the counting argument: no two carriers of the ring are for the same region of
the same PE, so the tail stays below `Originals * Regions` until the last is sent.

`StoredCopies` compares two memories when nothing is on its way between them; `Copies`
says how they are related at any other time, in terms of sets of rounds:

- `ShadowData`: shadow memory has the latest of the rounds whose checkpoint of a region
  its PE has taken (`Kept`: those begun, but for a call still to come);
- `Senders`: the carriers of a part and region in the ring of a storage PE (`Works`) are
  those of the rounds in which its loop has passed that PE (`Gone`).  For a dead PE this
  still holds as long as its part has not been taken over, so the one that takes over
  finds all its rounds;
- `CheckRings`: as for reservations, each claimed slot has one carrier, and the rounds of
  a region of a part grow with the slot.  `CheckRoom` counts them, by `CheckpointsFit`;
- `TableData`: a table has the latest of the rounds behind the head (`FiledWorks`);
- `Emptied`: who restores has emptied its ring of checkpoints, and who has been through
  its first checkpoint that of reservations;
- `Roles`: no part is played twice, not even while some PEs have learned of a death and
  others have not; `Timing`, `MemNow`: a checkpoint is of the round that is going on.

With empty rings `FiledWorks` is `Works`, between calls `Gone` is `Kept`, and both
memories have the latest of the same rounds (`CallsAreComplete`).

`Players` is what `PartsPlayed` needs besides: the PEs left in the list of storage PEs
are alive and store, so the last of them can take over.  That fails when a PE that stores
dies before another death, since the list is then cut at its end (`checkpoint.c:765`) and
not at the dead one: hence `Replaceable`, by which either all that die compute at the
start, or only one PE dies.  `MemBack` is what `OneCheckpoint` needs: a PE that took over
earlier does not restore in a later rollback (`checkpoint.c:703` leaves its
`cpr_shadow_mem_tail` at 0), hence `SingleDeath`.  Both are what the code leaves true,
not a convenience of the proof: with two deaths TLC refutes `EveryPartPlayed` when one
of them is a storage PE's, and `RollbackConsistent` when both PEs compute.  `main()` has
one rollback.

### Heap: `HeapProofs`

    THEOREM HeapTypes       == Spec => []TypeOK
    THEOREM HeapStaysSound  == Spec => []HeapSound
    THEOREM ChunksBinned    == Spec => []FreeChunksBinned
    THEOREM BlocksSymmetric == BasesAgree => (Spec => []SymmetricBlocks)
    COROLLARY PagesSymmetric: Spec => []SymmetricBlocks where segments begin on pages
        (of 2^k units) and no alignment is above the page

For every size of the segment, any sizes and alignments, any number of PEs, pointers
and calls.  The run has one segment with two or three large bins; nothing of that is left
in the theorems.  The first three hold wherever the segments lie.  The fourth does not:
`BasesAgree` says that the bases differ by multiples of every `Alignment(a)`, and without
it the theorem is false (section 3, symmetric heap).  What the code guarantees is that a
mapping begins on a page, and `PagesSuffice` derives `BasesAgree` from that: alignments
have become powers of two, so those up to the page divide it.  For larger ones nothing in
the code makes the bases agree.

*One heap.*  `Sound(h)` is the invariant of the allocator between calls: `Shaped` (the
chunks tile the segment from the `malloc_state` to the top, no two free ones touch, what
a header says of the chunk before it is true), the designated victim is a free chunk or
there is none, and the bins are lists without repetitions of just the other free chunks.
It implies `HeadersAgree`, `Coalesced` and `BinsExact`, which are what the code asserts
when it is debugged.  It is not true inside of a call, so each lemma says what is:

- what a function writes (`SetInuseIs`, `SetFreeIs` ... `SetTopIs`): `Wrote` names the
  chunk and the one behind it, all other headers are as before;
- `Retiled`: a heap in which only the part from a to b is drawn anew is `Shaped` when
  that part fits in.  The parts are a free or used chunk (`OneChunk`), two that meet
  (`TwoChunks`), the top (`TopAlone`), a block and the top (`UsedAndTop`);
- `Holds(h, p)`: p has been unlinked but not yet put to use; `Gives(h, p, s)`: from p to
  p + s there is what a call gives back, in use or free but unbinned.  From the first
  comes `SplitUnlinkedIs`, hence `TakeChunkGot` (malloc), from the second `DisposeIs`,
  by the cases of what is behind and what is before (`ConsolidateIs`, `TakenBack`);
- realloc grows into the top, the victim or a free chunk (`GrownIntoTop`,
  `GrownIntoDv`, `GrownIntoFree`) or moves; memalign cuts a block in front and behind
  (`CutInFront`, `CutBehind`), at the spot that `AlignedSpotIs` finds inside of it.

Together they are `CallOwns`: if each pointer of a program is a block of its own
(`Owns`), it is so after any call, and no block but the call's own has moved or changed
its size.  `TypeInv` says that of every PE and is inductive without looking at another.

*All heaps.*  No heap refers to another, so that the PEs agree is a matter of the order
of calls alone, and `SymmetricBlocks` is not inductive.  `HistoryInv` says that there is
a history: a sequence of calls, each with the heap and the pointers it leaves and the
number of barriers of the calls up to it, such that each PE's heap and pointers are
those of its place in it (`At`) and the barriers it has left are those of the calls
before plus those of its own call that are behind it.  It is an existential over
histories, extended by `PastGrows` when the first PE chooses a call; `NoneSkipped`, no
PE is more than a call ahead, is what makes "the first" the end of the history.  Let p
be a PE that may use a pointer and q another:

- q behind p (`UntouchedBehind`): the last call about the pointer that q has not made
  did not free it, for p has it, so a barrier is behind that call; p has left it and q
  cannot have entered it;
- q ahead of p (`UntouchedAhead`): the first call about the pointer that p has not made
  is a free or a realloc, for the program has the pointer before; it begins with a
  barrier, q has left it and p has not entered it.

Both contradict `InStep` of the abstract barrier, so the block has not been touched
between p and q.  This is where the barriers of `shmalloc.c` are needed, those behind
malloc, calloc and align and those before free, and that realloc has both.  That
`TypeInv` holds even where the program frees a null pointer (`mspace_free` ignores it)
makes it independent of the other PEs.

The history has one heap per call, of a segment at the base of some PE (`Home`): with
`BasesAgree` a call does the same to a heap there as anywhere else (`SameAnywhere`, from
`SpotAgrees`: the spot is the same offset for bases that differ by a multiple of the
alignment).

### What is not proved

Liveness everywhere (fairness and `ENABLED` are out of the prover's reach), and
everything about the runtime (`TypeOK`, `ReachesMemory`, `SeenInOrder`) and the
libraries of the `*_matmul.c` programs (`CandidateCopies`, `NeverStuck`) is only
model-checked.
`Comms` uses `Bitwise`, whose operators are recursive; tlapm has no SMT
backend in a module that reaches one, so theorems about the runtime would have to be
about modules below it (`Launch` and what it extends).

## 5. What is left

**Not modelled, and why**

- Thread layer: disabled by default (`config/m4/confargs.m4:69`); the macro around
  each call is then the call.  With it, `wait_until` returns from inside the macro and
  leaves the mutex locked (`src/waituntil.c:58`), and `set_lock` waits while it holds
  it (`src/lock.c:23`).
- `shmem_global_exit` ends the job at once, in any state.
- Reuse of freed entries in the table of contexts, and running out of memory there:
  a program of the runs creates one context.
- Elements of 2 and 4 bytes share the control of those of 8; a model of words cannot
  tell them apart, nor the bytes that the sized calls move too many.
- Of dlmalloc: system calls for more memory, mmap, footprints, independent
  allocation and statistics, which the build disables or nothing calls.
- The Fortran heap routines: their outcome is undefined (see above).
- Of the checkpoint programs: the product, timing, a ring that overflows, the
  rollback of a storage PE, and in the earlier library memory at offsets nobody set.
- Environment, parsing, logging, queries, statistics, the PMI-1 client.

**Next.**  In the model, the rollback of a storage PE, and one PE's death in the middle
of a call.
