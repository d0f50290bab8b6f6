------------------------------- MODULE Mspace -------------------------------
(***************************************************************************)
(* The allocator of the symmetric heap: an mspace of allocator/dlmalloc.c, *)
(* as operators from a heap to the next one.  It is compiled with          *)
(* HAVE_MMAP=0 and HAVE_MORECORE=0 and lives in one segment, which never   *)
(* grows: what does not fit in it fails.                                   *)
(*                                                                         *)
(* Addresses and sizes count units of MALLOC_ALIGNMENT (16) bytes, only    *)
(* requests count bytes; addresses are offsets in the segment.  A heap has *)
(* the headers of its chunks, by address, a bin per chunk size, the        *)
(* designated victim and the top.  Each header repeats what the neighbour  *)
(* says of itself: pinuse is its cinuse, prev_foot its size while it is    *)
(* free.  A tree of the large sizes is abstracted to the chains of its     *)
(* nodes: the searches in it find the best fit.                            *)
(***************************************************************************)
EXTENDS Integers, SequencesExt

CONSTANTS
    HeapSize,              \* capacity, without the foot of the segment
    MstateSize,            \* the malloc_state at its start
    MinLarge               \* the smallest size that goes to a tree bin

MIN_CHUNK_SIZE == 2
NULL == 0                  \* where the malloc_state is: never a user's

(* The least large size is 256 bytes; the malloc_state alone is larger.     *)
ASSUME MspaceAssumption ==
    /\ MstateSize \in Nat \ {0} /\ HeapSize \in Nat /\ HeapSize > MstateSize
    /\ MinLarge \in Nat /\ MinLarge > MIN_CHUNK_SIZE /\ MinLarge <= HeapSize

Sizes == MIN_CHUNK_SIZE .. HeapSize
is_small(s) == s < MinLarge

Larger(a, b) == IF a >= b THEN a ELSE b
request2size(bytes) == Larger(MIN_CHUNK_SIZE, (bytes + 23) \div 16)
chunk2mem(p) == p + 1
mem2chunk(mem) == mem - 1

-----------------------------------------------------------------------------
(* Headers.  A chunk that is written hides the headers inside it.          *)
Blank == [size |-> 0, cinuse |-> FALSE, pinuse |-> FALSE, prev_foot |-> 0]
HeadOf(h, p) == IF p \in DOMAIN h.head THEN h.head[p] ELSE Blank
Write(h, p, hd) ==
    [h EXCEPT !.head =
        [q \in {p} \union (DOMAIN @ \ (p + 1 .. p + hd.size - 1)) |->
            IF q = p THEN hd ELSE @[q]]]

chunksize(h, p) == HeadOf(h, p).size
cinuse(h, p) == HeadOf(h, p).cinuse
pinuse(h, p) == HeadOf(h, p).pinuse

set_pinuse(h, n) == Write(h, n, [HeadOf(h, n) EXCEPT !.pinuse = TRUE, !.prev_foot = 0])
set_foot(h, n, s) == Write(h, n, [HeadOf(h, n) EXCEPT !.prev_foot = s])

set_inuse(h, p, s) ==
    set_pinuse(Write(h, p, [HeadOf(h, p) EXCEPT !.size = s, !.cinuse = TRUE]), p + s)

set_size_and_pinuse_of_inuse_chunk(h, p, s) ==
    Write(h, p, [HeadOf(h, p) EXCEPT !.size = s, !.cinuse = TRUE, !.pinuse = TRUE])

set_inuse_and_pinuse(h, p, s) ==
    set_inuse(set_size_and_pinuse_of_inuse_chunk(h, p, s), p, s)

set_size_and_pinuse_of_free_chunk(h, p, s) ==
    set_foot(Write(h, p, [HeadOf(h, p) EXCEPT !.size = s, !.cinuse = FALSE, !.pinuse = TRUE]),
             p + s, s)

clear_pinuse(h, n) == Write(h, n, [HeadOf(h, n) EXCEPT !.pinuse = FALSE])

set_free_with_pinuse(h, p, s, n) ==
    set_size_and_pinuse_of_free_chunk(clear_pinuse(h, n), p, s)

set_top(h, p, s) ==
    [Write(h, p, [size |-> s, cinuse |-> FALSE, pinuse |-> TRUE, prev_foot |-> 0])
        EXCEPT !.top = p, !.topsize = s]

-----------------------------------------------------------------------------
(* Bins.  A small bin is a list that grows at its front.  A large size is  *)
(* a ring: its first chunk is the node of the tree, the others come right  *)
(* behind it, and when the node goes the last one takes its place.         *)
insert_small_chunk(h, p, s) == [h EXCEPT !.bins[s] = <<p>> \o @]
insert_large_chunk(h, p, s) ==
    [h EXCEPT !.bins[s] = IF @ = << >> THEN <<p>> ELSE <<Head(@), p>> \o Tail(@)]
insert_chunk(h, p, s) ==
    IF is_small(s) THEN insert_small_chunk(h, p, s) ELSE insert_large_chunk(h, p, s)

unlink_small_chunk(h, p, s) == [h EXCEPT !.bins[s] = RemoveFirst(@, p)]
unlink_large_chunk(h, p, s) ==
    [h EXCEPT !.bins[s] = IF p = Head(@) /\ Len(@) > 1 THEN <<Last(@)>> \o Front(Tail(@))
                          ELSE RemoveFirst(@, p)]
unlink_chunk(h, p, s) ==
    IF is_small(s) THEN unlink_small_chunk(h, p, s) ELSE unlink_large_chunk(h, p, s)

Filled(h, from, to) == {s \in from .. to : s \in Sizes /\ h.bins[s] # << >>}
Least(S) == CHOOSE s \in S : \A t \in S : s <= t

replace_dv(h, p, s) ==
    [IF h.dvsize # 0 THEN insert_small_chunk(h, h.dv, h.dvsize) ELSE h
        EXCEPT !.dv = p, !.dvsize = s]

-----------------------------------------------------------------------------
(* mspace_malloc.  What is left of a chunk becomes the designated victim   *)
(* when the request is small; it is binned when the request is large.      *)

(* Whether what is left of a chunk is one of its own.                      *)
IsChunk(rsize) == rsize >= MIN_CHUNK_SIZE

Given(h, p) == [heap |-> h, mem |-> chunk2mem(p)]
Failed(h) == [heap |-> h, mem |-> NULL]

(* Splits nb units off the unlinked chunk p; "keep" says what becomes of   *)
(* its rest.                                                               *)
Split(h, p, nb, rsize) ==
    set_size_and_pinuse_of_free_chunk(
        set_size_and_pinuse_of_inuse_chunk(h, p, nb), p + nb, rsize)

SplitUnlinked(h, p, s, nb, keep) ==
    CASE ~IsChunk(s - nb) -> Given(set_inuse_and_pinuse(h, p, s), p)
      [] IsChunk(s - nb) /\ keep = "dv" ->
            Given(replace_dv(Split(h, p, nb, s - nb), p + nb, s - nb), p)
      [] IsChunk(s - nb) /\ keep = "bin" ->
            Given(insert_chunk(Split(h, p, nb, s - nb), p + nb, s - nb), p)

(* Takes the first chunk of size s from its bin.                           *)
SplitBinned(h, s, nb, keep) ==
    SplitUnlinked(unlink_chunk(h, Head(h.bins[s]), s), Head(h.bins[s]), s, nb, keep)

SplitDv(h, nb) ==
    LET p == h.dv  rsize == h.dvsize - nb
    IN  IF IsChunk(rsize)
        THEN Given([set_size_and_pinuse_of_inuse_chunk(
                        set_size_and_pinuse_of_free_chunk(h, p + nb, rsize), p, nb)
                    EXCEPT !.dv = p + nb, !.dvsize = rsize], p)
        ELSE Given([set_inuse_and_pinuse(h, p, h.dvsize) EXCEPT !.dv = NULL, !.dvsize = 0], p)

(* The top is never used up: its header ends the segment.                  *)
(* Faulty variant: it may be.                                              *)
FitsTop_Whole(h, nb) == nb <= h.topsize
FitsTop(h, nb) == nb < h.topsize

SplitTop(h, nb) ==
    Given(set_size_and_pinuse_of_inuse_chunk(
        set_top(h, h.top + nb, h.topsize - nb), h.top, nb), h.top)

(* A large request takes the best fit of the trees, unless the designated  *)
(* victim fits at least as well.                                           *)
BinBeatsDv(h, nb) ==
    /\ Filled(h, nb, HeapSize) # {}
    /\ h.dvsize >= nb => Least(Filled(h, nb, HeapSize)) < h.dvsize

(* The least size that fits, from the small bins up into the trees.        *)
tmalloc_small(h, nb) == SplitBinned(h, Least(Filled(h, nb, HeapSize)), nb, "dv")
tmalloc_large(h, nb) == SplitBinned(h, Least(Filled(h, nb, HeapSize)), nb, "bin")

TakeChunk(h, nb) ==
    CASE is_small(nb) /\ h.bins[nb] # << >> -> SplitBinned(h, nb, nb, "dv")
      [] is_small(nb) /\ h.bins[nb] = << >> /\ nb > h.dvsize
            /\ Filled(h, nb, HeapSize) # {} -> tmalloc_small(h, nb)
      [] ~is_small(nb) /\ BinBeatsDv(h, nb) -> tmalloc_large(h, nb)
      [] OTHER -> IF nb <= h.dvsize THEN SplitDv(h, nb)
                  ELSE IF FitsTop(h, nb) THEN SplitTop(h, nb)
                  ELSE Failed(h)                       \* sys_alloc

mspace_malloc(h, bytes) == TakeChunk(h, request2size(bytes))

(* As many bytes as the elements have (the check of the product is for     *)
(* products that do not fit a size_t); contents are not modelled.          *)
mspace_calloc(h, n_elements, elem_size) == mspace_malloc(h, n_elements * elem_size)

-----------------------------------------------------------------------------
(* mspace_free, and the same for the parts that realloc and memalign give  *)
(* back: the chunk is merged with its free neighbours.                     *)
(* Faulty variant: the chunk behind is not looked at.                      *)
Consolidate_Backward(h, p, s) ==
    IF p = h.dv
    THEN [set_free_with_pinuse(h, p, s, p + s) EXCEPT !.dvsize = s]
    ELSE insert_chunk(set_free_with_pinuse(h, p, s, p + s), p, s)

Kept(h, p, size) ==
    IF p = h.dv THEN [h EXCEPT !.dvsize = size] ELSE insert_chunk(h, p, size)

Consolidate(h, p, s) ==
    LET next == p + s  whole == s + chunksize(h, next)
    IN  CASE cinuse(h, next) -> Kept(set_free_with_pinuse(h, p, s, next), p, s)
          [] ~cinuse(h, next) /\ next = h.top ->
                [set_top(h, p, whole) EXCEPT !.dv = IF @ = p THEN NULL ELSE @,
                                             !.dvsize = IF h.dv = p THEN 0 ELSE @]
          [] ~cinuse(h, next) /\ next # h.top /\ next = h.dv ->
                [set_size_and_pinuse_of_free_chunk(h, p, whole)
                    EXCEPT !.dv = p, !.dvsize = whole]
          [] OTHER -> Kept(set_size_and_pinuse_of_free_chunk(
                                unlink_chunk(h, next, whole - s), p, whole), p, whole)

(* With the chunk before it, unless that one is in use.                    *)
dispose_chunk(h, p, s) ==
    LET prev == p - HeadOf(h, p).prev_foot
        alone == pinuse(h, p)
    IN  Consolidate(IF alone \/ prev = h.dv THEN h ELSE unlink_chunk(h, prev, p - prev),
                    IF alone THEN p ELSE prev, IF alone THEN s ELSE s + p - prev)

mspace_free(h, mem) ==
    IF mem = NULL THEN h
    ELSE dispose_chunk(h, mem2chunk(mem), chunksize(h, mem2chunk(mem)))

-----------------------------------------------------------------------------
(* The chunk keeps nb units, the rest is given back.                       *)
GiveBack(h, p, nb) ==
    LET rsize == chunksize(h, p) - nb
    IN  dispose_chunk(set_inuse(set_inuse(h, p, nb), p + nb, rsize), p + nb, rsize)

Shrunk(h, p, nb) == IF IsChunk(chunksize(h, p) - nb) THEN GiveBack(h, p, nb) ELSE h

(* Faulty variant: the size of the victim is forgotten.                    *)
ExtendIntoDv_OldSize(h, p, nb) ==
    LET whole == chunksize(h, p) + h.dvsize  dsize == whole - nb
    IN  IF IsChunk(dsize)
        THEN [clear_pinuse(set_size_and_pinuse_of_free_chunk(
                    set_inuse(h, p, nb), p + nb, dsize), p + nb + dsize)
                EXCEPT !.dv = p + nb]
        ELSE [set_inuse(h, p, whole) EXCEPT !.dv = NULL, !.dvsize = 0]

ExtendIntoDv(h, p, nb) ==
    LET whole == chunksize(h, p) + h.dvsize  dsize == whole - nb
    IN  IF IsChunk(dsize)
        THEN [clear_pinuse(set_size_and_pinuse_of_free_chunk(
                    set_inuse(h, p, nb), p + nb, dsize), p + nb + dsize)
                EXCEPT !.dv = p + nb, !.dvsize = dsize]
        ELSE [set_inuse(h, p, whole) EXCEPT !.dv = NULL, !.dvsize = 0]

(* try_realloc_chunk: the chunk is made as large as asked where it is, or  *)
(* the call fails.                                                         *)
CanExtend(h, p, nb) ==
    LET oldsize == chunksize(h, p)  next == p + oldsize
    IN  \/ oldsize >= nb
        \/ next = h.top /\ oldsize + h.topsize > nb
        \/ next = h.dv /\ oldsize + h.dvsize >= nb
        \/ next \notin {h.top, h.dv} /\ ~cinuse(h, next)
           /\ oldsize + chunksize(h, next) >= nb

try_realloc_chunk(h, p, nb) ==
    LET oldsize == chunksize(h, p)  next == p + oldsize  nsize == chunksize(h, next)
    IN  CASE oldsize >= nb -> Shrunk(h, p, nb)
          [] oldsize < nb /\ next = h.top ->
                Write(set_top(h, p + nb, oldsize + h.topsize - nb), p,
                      [HeadOf(h, p) EXCEPT !.size = nb])
          [] oldsize < nb /\ next # h.top /\ next = h.dv -> ExtendIntoDv(h, p, nb)
          [] OTHER -> Shrunk(set_inuse(unlink_chunk(h, next, nsize), p, oldsize + nsize), p, nb)

Moved(r, mem) == IF r.mem = NULL THEN r ELSE [r EXCEPT !.heap = mspace_free(@, mem)]

mspace_realloc(h, mem, bytes) ==
    CASE mem = NULL -> mspace_malloc(h, bytes)
      [] mem # NULL /\ bytes = 0 -> Failed(mspace_free(h, mem))
      [] mem # NULL /\ bytes # 0 ->
            IF CanExtend(h, mem2chunk(mem), request2size(bytes))
            THEN Given(try_realloc_chunk(h, mem2chunk(mem), request2size(bytes)), mem2chunk(mem))
            ELSE Moved(mspace_malloc(h, bytes), mem)

(* internal_memalign: takes enough for an aligned spot with room for a     *)
(* chunk in front of it, and gives back what is before and behind.  The    *)
(* alignment is that of the address, so the spot depends on where the      *)
(* segment is mapped, its base.                                            *)
PowerOfTwo(n) ==
    2 ^ (CHOOSE k \in 0 .. n : n <= 2 ^ k /\ \A j \in 0 .. k - 1 : 2 ^ j < n)

Alignment(alignment) == PowerOfTwo(Larger(alignment, MIN_CHUNK_SIZE))

AlignedSpot(base, mem, align) ==
    LET address == base + mem
        br == mem2chunk(((address + align - 1) \div align) * align - base)
    IN  IF address % align = 0 \/ br - mem2chunk(mem) >= MIN_CHUNK_SIZE
        THEN br ELSE br + align

GiveLeader(h, p, pos) ==
    IF p = pos THEN h
    ELSE dispose_chunk(set_inuse(set_inuse(h, pos, chunksize(h, p) - (pos - p)), p, pos - p),
                       p, pos - p)

Trimmed(h, p, nb) ==
    Given(IF chunksize(h, p) > nb + MIN_CHUNK_SIZE THEN GiveBack(h, p, nb) ELSE h, p)

Realigned(r, base, align, nb) ==
    IF r.mem = NULL THEN r
    ELSE Trimmed(GiveLeader(r.heap, mem2chunk(r.mem), AlignedSpot(base, r.mem, align)),
                 AlignedSpot(base, r.mem, align), nb)

mspace_memalign(h, base, alignment, bytes) ==
    LET align == Alignment(alignment)
        nb == request2size(bytes)
    IN  IF alignment <= 1 THEN mspace_malloc(h, bytes)
        ELSE Realigned(TakeChunk(h, nb + align + MIN_CHUNK_SIZE), base, align, nb)

(* init_user_mstate: the malloc_state, then the top.                       *)
create_mspace_with_base ==
    set_top([head |-> [p \in {0} |-> [size |-> MstateSize, cinuse |-> TRUE, pinuse |-> TRUE,
                                      prev_foot |-> 0]],
             bins |-> [s \in Sizes |-> << >>],
             dv |-> NULL, dvsize |-> 0, top |-> NULL, topsize |-> 0],
            MstateSize, HeapSize - MstateSize)

-----------------------------------------------------------------------------
(* What do_check_malloc_state of the debugging build asserts.              *)
Chunks(h) == DOMAIN h.head
Binned(h) == UNION {ToSet(h.bins[s]) : s \in Sizes}

(* The chunks tile the segment; every header says of the chunk before it   *)
(* what that one says of itself; the top ends the segment.                 *)
HeadersAgree(h) ==
    /\ \A p \in Chunks(h) \ {h.top} :
        LET n == p + chunksize(h, p) IN
        /\ chunksize(h, p) > 0 /\ n \in Chunks(h)
        /\ pinuse(h, n) = cinuse(h, p)
        /\ ~cinuse(h, p) => h.head[n].prev_foot = chunksize(h, p)
        /\ \A q \in Chunks(h) : ~(p < q /\ q < n)
    /\ h.top \in Chunks(h) /\ chunksize(h, h.top) = h.topsize
    /\ h.topsize > 0 /\ h.top + h.topsize = HeapSize

(* No two free chunks touch, the top included, and none is a sliver.       *)
Coalesced(h) ==
    \A p \in Chunks(h) : ~cinuse(h, p) =>
        /\ pinuse(h, p)
        /\ p # h.top => chunksize(h, p) >= MIN_CHUNK_SIZE

(* Every free chunk but the top is the designated victim or in the bin of  *)
(* its size, once, and nothing else is.                                    *)
BinsExact(h) ==
    /\ \A s \in Sizes : /\ IsInjective(h.bins[s])
                        /\ \A p \in ToSet(h.bins[s]) : p \in Chunks(h) /\ chunksize(h, p) = s
    /\ Binned(h) \union ({h.dv} \ {NULL}) = {p \in Chunks(h) \ {h.top} : ~cinuse(h, p)}
    /\ h.dv \notin Binned(h)
    /\ h.dvsize = IF h.dv = NULL THEN 0 ELSE chunksize(h, h.dv)

=============================================================================
