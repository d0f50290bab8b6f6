------------------------------- MODULE Comms -------------------------------
(***************************************************************************)
(* The transport (src/shmemc/comms.c, contexts.c, waituntil.c): how the    *)
(* operations of a program reach the memory of another PE.                 *)
(*                                                                         *)
(* What UCX promises is taken word by word.  A posted word is applied at   *)
(* some time; ucp_worker_fence puts what the worker posts later behind     *)
(* what it has posted to the same PE, ucp_worker_flush waits for all of    *)
(* it.  A put has read its source when it returns, a non-blocking one has  *)
(* not.                                                                    *)
(***************************************************************************)
EXTENDS Launch, Bitwise

CONSTANT Privates          \* words of its own that a PE may malloc

ASSUME CommsAssumption == Privates \in Nat

VARIABLES
    mem,                   \* the words of every PE: symmetric ones, by offset,
                           \* and behind them its own
    ctxts,                 \* every PE's table of contexts
    posted,                \* words on their way
    result                 \* what a PE's last fetching operation returned

commVars == <<mem, ctxts, posted, result>>
vars == <<pc, launchVars, commVars>>

Offsets == 0 .. Globals + HeapSize - 1
Private == Globals + HeapSize
Words   == 0 .. Private + Privates - 1

CommsInit ==
    /\ LaunchInit
    /\ mem = [p \in PE |-> [o \in Words |-> 0]]
    /\ ctxts = [p \in PE |-> << >>]
    /\ posted = {}
    /\ result = [p \in PE |-> 0]

-----------------------------------------------------------------------------
(* Addresses.  A global has the same address everywhere, a word of the     *)
(* heap has not.                                                           *)
in_heap(p, addr, q) == addr - base[p][q] \in 0 .. HeapSize - 1

lookup_region(p, addr) ==
    IF addr \in 0 .. Globals - 1 THEN 0 ELSE IF in_heap(p, addr, p) THEN 1 ELSE -1

translate_address(p, addr, region, q) ==
    IF region = 0 THEN addr ELSE addr - base[p][p] + base[p][q]

(* The program's own address of a variable, and the word at an address.    *)
AddressOf(p, o) == IF o < Globals THEN o ELSE base[p][p] + o - Globals
OffsetAt(q, addr) == IF addr < Globals THEN addr ELSE addr - HeapBase[q + 1] + Globals
IsMapped(q, addr) == registered[q] /\ OffsetAt(q, addr) \in Offsets

get_remote_addr(p, o, q) ==
    translate_address(p, AddressOf(p, o), lookup_region(p, AddressOf(p, o)), q)

-----------------------------------------------------------------------------
(* Contexts and workers.                                                   *)
SHMEM_CTX_NOSTORE == 4

NewContext(options) == [live |-> TRUE, nostore |-> options & SHMEM_CTX_NOSTORE # 0, gen |-> 0]

(* All endpoints are those of the default context's worker.                *)
lookup_ucp_ep(ctx) == SHMEM_CTX_DEFAULT

Flushed(p, w) == \A m \in posted : m.from = p => m.wrkr # w

(* What worker w of p has posted to q before generation g.                 *)
Earlier(p, w, q, g) == {m \in posted : m.from = p /\ m.wrkr = w /\ m.to = q /\ m.gen < g}
Generation(p, op) == ctxts[p][lookup_ucp_ep(op.ctx)].gen
InTurn(p, op) == Earlier(p, lookup_ucp_ep(op.ctx), op.pe, Generation(p, op)) = {}

ContextCreate(p, op) ==
    /\ op.do = "ctx_create"
    /\ Continue(p)
    /\ ctxts' = [ctxts EXCEPT ![p] = Append(@, NewContext(op.val))]
    /\ UNCHANGED <<launchVars, mem, posted, result>>

(* The default context is not destroyed.                                   *)
ContextDestroy(p, op) ==
    /\ op.do = "ctx_destroy"
    /\ Continue(p)
    /\ IF op.ctx = SHMEM_CTX_DEFAULT THEN UNCHANGED ctxts
       ELSE /\ ctxts[p][op.ctx].nostore \/ Flushed(p, op.ctx)
            /\ ctxts' = [ctxts EXCEPT ![p][op.ctx].live = FALSE]
    /\ UNCHANGED <<launchVars, mem, posted, result>>

Fence(p, op) ==
    /\ op.do = "fence"
    /\ Continue(p)
    /\ ctxts' = [ctxts EXCEPT ![p][op.ctx].gen = IF ctxts[p][op.ctx].nostore THEN @ ELSE @ + 1]
    /\ UNCHANGED <<launchVars, mem, posted, result>>

Quiet(p, op) ==
    /\ op.do = "quiet"
    /\ ctxts[p][op.ctx].nostore \/ Flushed(p, op.ctx)
    /\ Continue(p)
    /\ UNCHANGED <<launchVars, commVars>>

-----------------------------------------------------------------------------
(* Posted operations.                                                      *)
Word(p, op, do, i, remote, local, val) ==
    [do |-> do, from |-> p, to |-> op.pe, wrkr |-> lookup_ucp_ep(op.ctx),
     gen |-> Generation(p, op), at |-> <<pc[p], i>>,
     addr |-> get_remote_addr(p, remote, op.pe) + i,
     local |-> IF local = Nowhere THEN Nowhere ELSE local + i, val |-> val]

Post(p, words) ==
    /\ Continue(p)
    /\ posted' = posted \union words
    /\ UNCHANGED <<launchVars, mem, ctxts, result>>

Put(p, op) ==
    /\ op.do = "put"
    /\ Post(p, {Word(p, op, "put", i, op.dest, Nowhere,
                     IF op.src = Nowhere THEN op.val ELSE mem[p][op.src + i]) : i \in 0 .. op.n - 1})

PutNbi(p, op) ==
    /\ op.do = "put_nbi"
    /\ Post(p, {Word(p, op, "put_nbi", i, op.dest, op.src, 0) : i \in 0 .. op.n - 1})

GetNbi(p, op) ==
    /\ op.do = "get_nbi"
    /\ Post(p, {Word(p, op, "get_nbi", i, op.src, op.dest, 0) : i \in 0 .. op.n - 1})

(* A blocking get waits for the words it has asked for.                    *)
GetWait(p, op) ==
    /\ op.do = "get_wait"
    /\ \A m \in posted : m.from = p => m.at[1] # pc[p] - 1
    /\ Continue(p)
    /\ UNCHANGED <<launchVars, commVars>>

Add(p, op) ==
    /\ op.do = "add"
    /\ Post(p, {Word(p, op, "add", 0, op.dest, Nowhere, op.val)})

(* UCX applies a word that no fence keeps behind another one.              *)
Deliver(m) ==
    /\ Earlier(m.from, m.wrkr, m.to, m.gen) = {}
    /\ posted' = posted \ {m}
    /\ \E o \in {OffsetAt(m.to, m.addr)} :
        IF m.do = "get_nbi"
        THEN IF m.local = Nowhere
             THEN result' = [result EXCEPT ![m.from] = mem[m.to][o]] /\ UNCHANGED mem
             ELSE mem' = [mem EXCEPT ![m.from][m.local] = mem[m.to][o]] /\ UNCHANGED result
        ELSE /\ mem' = [mem EXCEPT ![m.to][o] =
                            CASE m.do = "put"     -> m.val
                              [] m.do = "put_nbi" -> mem[m.from][m.local]
                              [] m.do = "add"     -> @ + m.val]
             /\ UNCHANGED result
    /\ UNCHANGED <<pc, launchVars, ctxts>>

-----------------------------------------------------------------------------
(* Fetching atomics: applied when they return.                             *)
Fetching == {"fadd", "swap", "cswap"}

NewValue(op, old) ==
    CASE op.do = "fadd"  -> old + op.val
      [] op.do = "swap"  -> op.val
      [] op.do = "cswap" -> IF old = op.cond THEN op.val ELSE old

Target(p, op) == OffsetAt(op.pe, get_remote_addr(p, op.dest, op.pe))

FetchingAtomic(p, op) ==
    /\ op.do \in Fetching
    /\ InTurn(p, op)
    /\ Continue(p)
    /\ \E o \in {Target(p, op)} :
        /\ result' = [result EXCEPT ![p] = mem[op.pe][o]]
        /\ mem' = [mem EXCEPT ![op.pe][o] = NewValue(op, @)]
    /\ UNCHANGED <<launchVars, ctxts, posted>>

(* A bitwise operation: swap the word that has been fetched for the new    *)
(* one, or fetch it again.                                                 *)
Combined(opname, old, val) ==
    CASE opname = "and" -> old & val [] opname = "or" -> old | val [] opname = "xor" -> old ^^ val

(* Faulty variant: the word is put back whatever it has become.            *)
BitwiseSwap_Blind(p, op) ==
    /\ op.do \in {"and", "or", "xor"}
    /\ InTurn(p, op)
    /\ \E o \in {Target(p, op)} :
        /\ Continue(p)
        /\ mem' = [mem EXCEPT ![op.pe][o] = Combined(op.do, result[p], op.val)]
    /\ UNCHANGED <<launchVars, ctxts, posted, result>>

BitwiseSwap(p, op) ==
    /\ op.do \in {"and", "or", "xor"}
    /\ InTurn(p, op)
    /\ \E o \in {Target(p, op)} :
        IF mem[op.pe][o] = result[p]
        THEN /\ Continue(p)
             /\ mem' = [mem EXCEPT ![op.pe][o] = Combined(op.do, result[p], op.val)]
        ELSE Jump(p, -2) /\ UNCHANGED mem
    /\ UNCHANGED <<launchVars, ctxts, posted, result>>

-----------------------------------------------------------------------------
(* A PE's own memory.                                                      *)
Holds(cmp, a, b) ==
    CASE cmp = "eq" -> a = b [] cmp = "ne" -> a # b [] cmp = "gt" -> a > b
      [] cmp = "le" -> a <= b [] cmp = "lt" -> a < b [] cmp = "ge" -> a >= b

WaitUntil(p, op) ==
    /\ op.do = "wait"
    /\ Holds(op.cond, mem[p][op.src], op.val)
    /\ Continue(p)
    /\ UNCHANGED <<launchVars, commVars>>

Test(p, op) ==
    /\ op.do = "test"
    /\ Continue(p)
    /\ result' = [result EXCEPT ![p] =
            IF Holds(op.cond, mem[p][op.src], op.val) THEN 1 ELSE 0]
    /\ UNCHANGED <<launchVars, mem, ctxts, posted>>

Store(p, op) ==
    /\ op.do = "store"
    /\ Continue(p)
    /\ mem' = [mem EXCEPT ![p][op.dest] = op.val]
    /\ UNCHANGED <<launchVars, ctxts, posted, result>>

(* What the reductions do with words that nobody else touches.             *)
Apply(the_op, a, b) ==
    CASE the_op = "sum" -> a + b [] the_op = "prod" -> a * b
      [] the_op = "and" -> a & b [] the_op = "or" -> a | b [] the_op = "xor" -> a ^^ b
      [] the_op = "max" -> (IF a > b THEN a ELSE b) [] the_op = "min" -> (IF a < b THEN a ELSE b)

Compute(p, op) ==
    /\ op.do \in {"copy", "combine"}
    /\ Continue(p)
    /\ mem' = [mem EXCEPT ![p] = [o \in Words |->
            IF o \notin op.dest .. op.dest + op.n - 1 THEN @[o]
            ELSE IF op.do = "copy" THEN @[op.src + o - op.dest]
            ELSE Apply(op.cond, @[o], @[op.src + o - op.dest])]]
    /\ UNCHANGED <<launchVars, ctxts, posted, result>>

=============================================================================
