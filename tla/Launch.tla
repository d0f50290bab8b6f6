------------------------------- MODULE Launch -------------------------------
(***************************************************************************)
(* How a PE joins and leaves the job (src/init.c, src/shmemc/shmemc-init.c, *)
(* pmix-client.c, ucx-init.c): it maps its heap, publishes where it is,    *)
(* its worker's address and its keys through PMIx, and reads those of all  *)
(* others.  Every PE runs a program, a sequence of operations "pc" walks   *)
(* through; shmem_init and shmem_finalize are operations like the others.  *)
(***************************************************************************)
EXTENDS Atomics, FiniteSets

CONSTANTS
    HeapBase,              \* the address UCX maps the heap at, by PE
    Globals, HeapSize,     \* symmetric words outside and inside the heap
    Programs               \* the code of each PE, for each program

MaxPEs == Len(HeapBase)

ASSUME LaunchAssumption ==
    /\ Globals \in Nat \ {0} /\ HeapSize \in Nat \ {0}
    /\ \A i \in 1 .. MaxPEs : HeapBase[i] >= Globals
    /\ \A i \in 1 .. Len(Programs) : Len(Programs[i]) \in 1 .. MaxPEs

VARIABLES
    prog, pc,
    refcount,              \* initializations not yet finalized
    registered,            \* is the PE's symmetric memory registered with UCX?
    base,                  \* minfo[pe].base of the heap, as each PE knows it
    published,             \* what each PE has published
    fences,                \* PMIx fences each PE has entered
    workers,               \* whose worker address each PE has
    ep,                    \* to whom each PE has an endpoint
    rkey                   \* of whom each PE has the keys

launchVars ==
    <<prog, refcount, registered, base, published, fences, workers, ep, rkey>>

Unknown == -1

PE       == DOMAIN pc
Code(p)  == Programs[prog][p + 1]
Ended(p) == pc[p] > Len(Code(p))
Now(p)   == Code(p)[pc[p]]

Jump(p, n)  == pc' = [pc EXCEPT ![p] = @ + n]
Continue(p) == Jump(p, 1)

LaunchInit ==
    /\ prog \in 1 .. Len(Programs)
    /\ pc = [p \in 0 .. Len(Programs[prog]) - 1 |-> 1]
    /\ refcount = [p \in PE |-> 0]
    /\ registered = [p \in PE |-> FALSE]
    /\ base = [p \in PE |-> [q \in PE |-> Unknown]]
    /\ published = [p \in PE |-> {}]
    /\ fences = [p \in PE |-> 0]
    /\ workers = [p \in PE |-> {}]
    /\ ep = [p \in PE |-> {}]
    /\ rkey = [p \in PE |-> {}]

-----------------------------------------------------------------------------
(* The calls as code.  The first operation skips the body of a call that   *)
(* has nothing to do.                                                      *)
Plain(what) == Op(what, SHMEM_CTX_DEFAULT, 0)
Unless(what, body) == <<[Plain(what) EXCEPT !.n = Len(body)]>> \o body

(* Faulty variant: the workers are looked up before they are published.    *)
shmemc_init_EarlyExchange ==
    <<"ucx_init", "publish_heap", "exchange_workers", "publish_worker", "pmi_fence", "pmi_fenced",
      "exchange_heap", "make_endpoints", "publish_rkeys", "pmi_fence",
      "pmi_fenced", "exchange_rkeys">>

shmemc_init ==
    <<"ucx_init", "publish_heap", "publish_worker", "pmi_fence", "pmi_fenced",
      "exchange_heap", "exchange_workers", "make_endpoints",
      "publish_rkeys", "pmi_fence", "pmi_fenced", "exchange_rkeys">>

shmem_init ==
    Unless("init", [i \in DOMAIN shmemc_init |-> Plain(shmemc_init[i])])
        \o <<Plain("initialized")>>

-----------------------------------------------------------------------------
(* shmem_init.                                                             *)
(* Faulty variant: the job is started again.                               *)
EnterInit_Always(p, op) ==
    /\ op.do = "init"
    /\ Continue(p)
    /\ UNCHANGED launchVars

EnterInit(p, op) ==
    /\ op.do = "init"
    /\ Jump(p, IF refcount[p] = 0 THEN 1 ELSE 1 + op.n)
    /\ UNCHANGED launchVars

Initialized(p, op) ==
    /\ op.do = "initialized"
    /\ Continue(p)
    /\ refcount' = [refcount EXCEPT ![p] = @ + 1]
    /\ UNCHANGED <<prog, registered, base, published, fences, workers, ep, rkey>>

(* shmemc_ucx_init: globals and heap are mapped, and the default context   *)
(* made (see Runtime).                                                     *)
RegisterMemory(p) ==
    /\ registered' = [registered EXCEPT ![p] = TRUE]
    /\ base' = [base EXCEPT ![p][p] = HeapBase[p + 1]]
    /\ UNCHANGED <<prog, refcount, published, fences, workers, ep, rkey>>

Publish(p, op, what, key) ==
    /\ op.do = what
    /\ Continue(p)
    /\ published' = [published EXCEPT ![p] = @ \union {key}]
    /\ UNCHANGED <<prog, refcount, registered, base, fences, workers, ep, rkey>>

PmiFence(p, op) ==
    /\ op.do = "pmi_fence"
    /\ Continue(p)
    /\ fences' = [fences EXCEPT ![p] = @ + 1]
    /\ UNCHANGED <<prog, refcount, registered, base, published, workers, ep, rkey>>

PmiFenced(p, op) ==
    /\ op.do = "pmi_fenced"
    /\ \A q \in PE : fences[q] >= fences[p]
    /\ Continue(p)
    /\ UNCHANGED launchVars

(* A lookup waits until the key is there.                                  *)
LookUp(p, op, what, key) ==
    /\ op.do = what
    /\ \A q \in PE : key \in published[q]
    /\ Continue(p)

ExchangeHeap(p, op) ==
    /\ LookUp(p, op, "exchange_heap", "heap")
    /\ base' = [base EXCEPT ![p] = [q \in PE |-> base[q][q]]]
    /\ UNCHANGED <<prog, refcount, registered, published, fences, workers, ep, rkey>>

ExchangeWorkers(p, op) ==
    /\ LookUp(p, op, "exchange_workers", "worker")
    /\ workers' = [workers EXCEPT ![p] = PE]
    /\ UNCHANGED <<prog, refcount, registered, base, published, fences, ep, rkey>>

MakeEndpoints(p, op) ==
    /\ op.do = "make_endpoints"
    /\ Continue(p)
    /\ ep' = [ep EXCEPT ![p] = workers[p]]
    /\ UNCHANGED <<prog, refcount, registered, base, published, fences, workers, rkey>>

(* Keys are unpacked for an endpoint.                                      *)
ExchangeRkeys(p, op) ==
    /\ LookUp(p, op, "exchange_rkeys", "rkey")
    /\ rkey' = [rkey EXCEPT ![p] = ep[p]]
    /\ UNCHANGED <<prog, refcount, registered, base, published, fences, workers, ep>>

-----------------------------------------------------------------------------
(* shmem_finalize, also run at exit.                                       *)
EnterFinalize(p, op) ==
    /\ op.do = "finalize"
    /\ Jump(p, IF refcount[p] > 0 THEN 1 ELSE 1 + op.n)
    /\ UNCHANGED launchVars

PmiFinalize(p, op) ==
    /\ op.do = "pmi_finalize"
    /\ Continue(p)
    /\ workers' = [workers EXCEPT ![p] = {}]
    /\ rkey' = [rkey EXCEPT ![p] = {}]
    /\ UNCHANGED <<prog, refcount, registered, base, published, fences, ep>>

(* An endpoint is closed when what was posted to it has been flushed.      *)
DisconnectAll(p, op, flushed) ==
    /\ op.do = "disconnect_all"
    /\ flushed
    /\ Continue(p)
    /\ ep' = [ep EXCEPT ![p] = {}]
    /\ UNCHANGED <<prog, refcount, registered, base, published, fences, workers, rkey>>

DeregisterMemory(p, op) ==
    /\ op.do = "deregister"
    /\ Continue(p)
    /\ registered' = [registered EXCEPT ![p] = FALSE]
    /\ UNCHANGED <<prog, refcount, base, published, fences, workers, ep, rkey>>

Finalized(p, op) ==
    /\ op.do = "finalized"
    /\ Continue(p)
    /\ refcount' = [refcount EXCEPT ![p] = 0]
    /\ UNCHANGED <<prog, registered, base, published, fences, workers, ep, rkey>>

LaunchStep(p, op) ==
    \/ EnterInit(p, op) \/ Initialized(p, op)
    \/ Publish(p, op, "publish_heap", "heap") \/ Publish(p, op, "publish_worker", "worker")
    \/ Publish(p, op, "publish_rkeys", "rkey")
    \/ PmiFence(p, op) \/ PmiFenced(p, op)
    \/ ExchangeHeap(p, op) \/ ExchangeWorkers(p, op) \/ MakeEndpoints(p, op) \/ ExchangeRkeys(p, op)
    \/ EnterFinalize(p, op) \/ PmiFinalize(p, op)
    \/ DeregisterMemory(p, op) \/ Finalized(p, op)

LaunchTypeOK ==
    /\ prog \in 1 .. Len(Programs)
    /\ \A p \in PE :
        /\ pc[p] \in 1 .. Len(Code(p)) + 1
        /\ refcount[p] \in Nat
        /\ registered[p] \in BOOLEAN
        /\ \A q \in PE : base[p][q] \in {Unknown, HeapBase[q + 1]}
        /\ published[p] \subseteq {"heap", "worker", "rkey"}
        /\ fences[p] \in 0 .. 2
        /\ workers[p] \subseteq PE /\ ep[p] \subseteq PE /\ rkey[p] \subseteq ep[p] \union PE

=============================================================================
