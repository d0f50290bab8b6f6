------------------------------ MODULE Runtime ------------------------------
(***************************************************************************)
(* A whole job: every PE starts, communicates and ends.  A program is put  *)
(* together from the calls of the API, assignments, loops and looks at     *)
(* what it relies on.                                                      *)
(***************************************************************************)
EXTENDS Collectives

(* An assignment, a loop around what comes before, and a look at a word of *)
(* a PE (or at what was returned last): those bits of it that "mask" has,  *)
(* all for 0, must be "val".                                               *)
store(o, val) == <<[Plain("store") EXCEPT !.dest = o, !.val = val]>>
until(body) == body \o <<[Plain("until") EXCEPT !.n = Len(body)]>>
SeeBits(o, q, mask, val) ==
    <<[Op("see", SHMEM_CTX_DEFAULT, q) EXCEPT !.src = o, !.val = val, !.cond = mask]>>
See(o, q, val) == SeeBits(o, q, 0, val)

shmem_finalize(p, n) ==
    Unless("finalize",
        barrier_all(p, n)
            \o <<Plain("pmi_finalize"), Plain("disconnect_all"), Plain("free_contexts"),
                 Plain("deregister"), Plain("finalized")>>)

-----------------------------------------------------------------------------
Init == CommsInit

UcxInit(p, op) ==
    /\ op.do = "ucx_init"
    /\ Continue(p)
    /\ RegisterMemory(p)
    /\ ctxts' = [ctxts EXCEPT ![p] = <<NewContext(0)>>]
    /\ UNCHANGED <<mem, posted, result>>

Disconnect(p, op) ==
    /\ DisconnectAll(p, op, \A m \in posted : m.from # p)
    /\ UNCHANGED commVars

FreeContexts(p, op) ==
    /\ op.do = "free_contexts"
    /\ Continue(p)
    /\ ctxts' = [ctxts EXCEPT ![p] = << >>]
    /\ UNCHANGED <<launchVars, mem, posted, result>>

Look(p, op) ==
    /\ op.do = "see"
    /\ Continue(p)
    /\ UNCHANGED <<launchVars, commVars>>

(* The body comes again unless its last call has returned something.       *)
Until(p, op) ==
    /\ op.do = "until"
    /\ Jump(p, IF result[p] = 0 THEN -op.n ELSE 1)
    /\ UNCHANGED <<launchVars, commVars>>

Act(p, op) ==
    \/ LaunchStep(p, op) /\ UNCHANGED commVars
    \/ UcxInit(p, op) \/ Disconnect(p, op) \/ FreeContexts(p, op)
    \/ ContextCreate(p, op) \/ ContextDestroy(p, op) \/ Fence(p, op) \/ Quiet(p, op)
    \/ Put(p, op) \/ PutNbi(p, op) \/ GetNbi(p, op) \/ GetWait(p, op) \/ Add(p, op)
    \/ FetchingAtomic(p, op) \/ BitwiseSwap(p, op)
    \/ WaitUntil(p, op) \/ Test(p, op) \/ Store(p, op) \/ Compute(p, op)
    \/ Look(p, op) \/ Until(p, op)

Step(p) == ~Ended(p) /\ \E op \in {Now(p)} : Act(p, op)

(* A job that has ended stays as it is.                                    *)
Done == (\A p \in PE : Ended(p)) /\ posted = {} /\ UNCHANGED vars

Next ==
    \/ \E p \in PE : Step(p)
    \/ \E m \in posted : Deliver(m)
    \/ Done

(* PEs run, and UCX gets to every word that has been posted.               *)
Fairness ==
    /\ \A p \in 0 .. MaxPEs - 1 : WF_vars(p \in PE /\ Step(p))
    /\ WF_vars(\E m \in posted : Deliver(m))

Spec == Init /\ [][Next]_vars /\ Fairness

-----------------------------------------------------------------------------
(* Types.  A posted word keeps the names of its worker and its words.      *)
TypeOK ==
    /\ LaunchTypeOK
    /\ \A p \in PE :
        /\ mem[p] \in [Words -> Int]
        /\ \A c \in DOMAIN ctxts[p] :
            ctxts[p][c].live \in BOOLEAN /\ ctxts[p][c].nostore \in BOOLEAN /\ ctxts[p][c].gen \in Nat
        /\ result[p] \in Int
    /\ \A m \in posted :
        /\ m.do \in {"put", "put_nbi", "get_nbi", "add"}
        /\ m.from \in PE /\ m.to \in PE /\ m.wrkr \in DOMAIN ctxts[m.from]
        /\ m.local \in Words \union {Nowhere}

RemoteOps == {"put", "put_nbi", "get_nbi", "add", "and", "or", "xor"} \union Fetching

(* Whatever a PE asks for or has asked for names registered memory of a PE *)
(* it has a connection to and keys of, from the first operation after      *)
(* start-up to the last poke of the barrier that ends the job.             *)
ReachesMemory ==
    /\ \A m \in posted : m.to \in ep[m.from] /\ IsMapped(m.to, m.addr)
    /\ \A p \in {q \in PE : ~Ended(q)} : \A op \in {Now(p)} :
        op.do \in RemoteOps =>
            /\ op.pe \in ep[p] \intersect rkey[p]
            /\ \A o \in {IF op.do = "get_nbi" THEN op.src ELSE op.dest} :
                /\ IsMapped(op.pe, get_remote_addr(p, o, op.pe))
                /\ OffsetAt(op.pe, get_remote_addr(p, o, op.pe)) = o

(* Wherever a program looks it finds what its own order of puts, fences,   *)
(* quiets, waits and barriers lets it rely on.                             *)
SeenInOrder ==
    \A p \in {q \in PE : ~Ended(q)} : \A op \in {Now(p)} :
        op.do = "see" =>
            \E v \in {IF op.src = Nowhere THEN result[p] ELSE mem[op.pe][op.src]} :
                IF op.cond = 0 THEN v = op.val ELSE v & op.cond = op.val

(* Every PE gets through its program and out of the job.                   *)
EveryProgramEnds == <>(\A p \in PE : Ended(p))

=============================================================================
