----------------------------- MODULE Checkpoint -----------------------------
(***************************************************************************)
(* The checkpoint library of resilience-examples/checkpoint.c in its       *)
(* many-copy mode, driven by the program of its main().                    *)
(*                                                                         *)
(* PEs 0 .. Originals-1 compute; each keeps a copy of what it checkpoints  *)
(* in its shadow memory and sends one to every storage PE.  A carrier is   *)
(* sent in three steps: claim a slot of the storage PE's ring by fetch and *)
(* increment of its tail, put the carrier there, raise a signal if it is   *)
(* down.  A storage PE waits for the signal, empties the ring and files    *)
(* the carriers in its table, one row per computing PE.  When a PE dies    *)
(* the others roll back and the last storage PE plays the dead one's part. *)
(*                                                                         *)
(* All PEs go through the same stages, with shmem_barrier_all in between.  *)
(* A PE dies between two stages and takes no further step.                 *)
(***************************************************************************)
EXTENDS Integers, Sequences, FiniteSets

CONSTANTS
    Originals,             \* how many PEs compute
    Programs,              \* spare PEs, regions, what happens in which order
    QueueLen,              \* CPR_STARTING_QUEUE_LEN
    MayDie                 \* PEs that may die

(* The plan is a program's checkpoint rounds and the deaths between them.  *)
ASSUME CheckpointAssumption ==
    /\ Originals \in Nat \ {0} /\ QueueLen \in Nat \ {0} /\ MayDie \subseteq Nat
    /\ \A prog \in Programs :
        /\ prog.spes \in Nat \ {0} /\ prog.regions \in Nat \ {0}
        /\ prog.plan \in Seq({"round", "death"}) /\ Head(prog.plan) = "round"
        /\ Cardinality({i \in DOMAIN prog.plan : prog.plan[i] = "death"}) <= prog.spes

VARIABLE program           \* the program that runs

Spares == program.spes
PEs == 0 .. Originals + Spares - 1
AnyPE == UNION {0 .. Originals + prog.spes - 1 : prog \in Programs}
Rows == 0 .. Originals - 1
Storing == PEs \ Rows                     \* at the start
Regions == program.regions
Ids == 0 .. Regions - 1
cpr_storage_pes(i) == Originals + i

(* What a region holds: whose part it belongs to, and the work done on it. *)
plan == program.plan
MaxWork == Len(plan)
NoData == [row |-> -1, work |-> 0]
Data == [row : PEs, work : 0 .. MaxWork] \union {NoData}

Queues == {"resrv", "check"}
Empty == [pe_num |-> -1, id |-> 0, data |-> NoData]     \* count is 0
Carriers == [pe_num : Rows, id : Ids, data : Data]

Stages == [op : {"reserve"}] \union [op : {"checkpoint"}, id : Ids]
          \union [op : {"rollback"}, dead : PEs] \union [op : {"drain"}]

VARIABLES
    stage,             \* what the program does between two barriers
    step,              \* how much of the plan has been begun
    alive,             \* PEs that have not died
    pc,                \* where each PE is in its call
    calls,             \* calls of shmem_cpr_reserve it has finished
    at,                \* the storage PE it sends to: its index in the list
    part,              \* cpr_pe[me]: whose part it plays
    view,              \* its copy of the arrays that describe the PEs
    mem,               \* the memory it checkpoints
    shadow,            \* cpr_shadow_mem: a sequence of data ...
    shadow_mem_tail,   \* ... and cpr_shadow_mem_tail
    queue,             \* the two rings of each storage PE
    table,             \* cpr_checkpoint_table: rows of [id, data]
    posted             \* puts of carriers that have not been applied

progress == <<program, stage, step, alive>>
sending == <<calls, at>>
pes == <<part, view>>
memory == <<mem, shadow, shadow_mem_tail>>
vars == <<progress, pc, sending, pes, memory, queue, table, posted>>

TypeOK ==
    /\ program \in Programs
    /\ stage \in Stages /\ step \in 0 .. Len(plan)
    /\ alive \in SUBSET PEs
    /\ pc \in [PEs -> {"call", "send", "signal", "set", "rwait", "rloop", "rclear",
                       "cwait", "cloop", "restore", "done"}]
    /\ calls \in [PEs -> 0 .. Regions]
    /\ at \in [PEs -> 0 .. Spares - 1]
    /\ part \in [PEs -> PEs]
    /\ view \in [PEs -> [active : SUBSET PEs, dead : SUBSET PEs, num : 0 .. Spares]]
    /\ mem \in [PEs -> [Ids -> Data]]
    /\ \A p \in PEs : shadow[p] \in Seq(Data) /\ Len(shadow[p]) <= Regions
    /\ shadow_mem_tail \in [PEs -> 0 .. Regions]
    /\ queue \in [Queues -> [Storing ->
            [head : Nat, tail : Nat, sig : {0, 1},
             slots : [0 .. QueueLen - 1 -> Carriers \union {Empty}]]]]
    /\ \A s \in Storing, r \in Rows : table[s][r] \in Seq([id : Ids, data : Data])
    /\ posted \in SUBSET [to : PEs, queue : Queues, slot : 0 .. QueueLen - 1,
                          carrier : Carriers]

Init ==
    /\ program \in Programs
    /\ stage = [op |-> "reserve"] /\ step = 0
    /\ alive = PEs
    /\ pc = [p \in PEs |-> "call"]
    /\ calls = [p \in PEs |-> 0]
    /\ at = [p \in PEs |-> 0]
    /\ part = [p \in PEs |-> p]
    /\ view = [p \in PEs |-> [active |-> Rows, dead |-> {}, num |-> Spares]]
    /\ mem = [p \in PEs |-> [i \in Ids |-> [row |-> p, work |-> 0]]]
    /\ shadow = [p \in PEs |-> << >>]
    /\ shadow_mem_tail = [p \in PEs |-> 0]
    /\ queue = [k \in Queues |-> [s \in Storing |->
                 [head |-> 0, tail |-> 0, sig |-> 0,
                  slots |-> [i \in 0 .. QueueLen - 1 |-> Empty]]]]
    /\ table = [s \in Storing |-> [r \in Rows |-> << >>]]
    /\ posted = {}

Goto(p, from, to) == pc[p] = from /\ pc' = [pc EXCEPT ![p] = to]

RoleOf(p, q) == IF q \in view[p].active THEN "active" ELSE "storage"
role(p) == RoleOf(p, p)                                \* cpr_pe_role
Storages(p) == {cpr_storage_pes(i) : i \in 0 .. view[p].num - 1} \ view[p].dead
Pending(k, s) == queue[k][s].head < queue[k][s].tail

-----------------------------------------------------------------------------
(* A computing PE sends a carrier to every storage PE it believes alive.   *)
Kind == IF stage.op = "reserve" THEN "resrv" ELSE "check"

Carrier(p) ==
    IF stage.op = "reserve"
        THEN [pe_num |-> part[p], id |-> calls[p], data |-> NoData]
        ELSE [pe_num |-> part[p], id |-> stage.id, data |-> mem[p][stage.id]]

(* The loop over the storage PEs, from index i: the next one, or the end   *)
(* of the call, which in the first stage is followed by the next one.      *)
SendFrom(p, from, i) ==
    LET more == {j \in i .. view[p].num - 1 : cpr_storage_pes(j) \notin view[p].dead}
        reserved == calls[p] + (IF stage.op = "reserve" THEN 1 ELSE 0)
    IN  IF more # {}
        THEN /\ Goto(p, from, "send")
             /\ at' = [at EXCEPT ![p] = CHOOSE j \in more : \A k \in more : j <= k]
             /\ UNCHANGED calls
        ELSE /\ Goto(p, from, IF stage.op = "reserve" /\ reserved < Regions
                              THEN "call" ELSE "done")
             /\ calls' = [calls EXCEPT ![p] = reserved]
             /\ UNCHANGED at

(* Faulty variant: the tail of the shadow memory is moved on twice.        *)
Reserve_Twice(p) ==
    /\ pc[p] = "call" /\ stage.op = "reserve" /\ role(p) = "active"
    /\ calls[p] >= shadow_mem_tail[p]
    /\ shadow' = [shadow EXCEPT ![p] = Append(@, NoData)]
    /\ shadow_mem_tail' = [shadow_mem_tail EXCEPT ![p] = @ + 2]
    /\ SendFrom(p, "call", 0)
    /\ UNCHANGED <<progress, pes, mem, queue, table, posted>>

Reserve(p) ==
    /\ pc[p] = "call" /\ stage.op = "reserve" /\ role(p) = "active"
    /\ calls[p] >= shadow_mem_tail[p]                  \* is_new_reservation
    /\ shadow' = [shadow EXCEPT ![p] = Append(@, NoData)]
    /\ shadow_mem_tail' = [shadow_mem_tail EXCEPT ![p] = @ + 1]
    /\ SendFrom(p, "call", 0)
    /\ UNCHANGED <<progress, pes, mem, queue, table, posted>>

CheckpointData(p) ==
    /\ pc[p] = "call" /\ stage.op = "checkpoint" /\ role(p) = "active"
    /\ shadow' = [shadow EXCEPT ![p][stage.id + 1] = mem[p][stage.id]]
    /\ SendFrom(p, "call", 0)
    /\ UNCHANGED <<progress, pes, mem, shadow_mem_tail, queue, table, posted>>

(* Fetch and increment, then the put, which nobody can see before it is    *)
(* applied.                                                                *)
Send(p) ==
    LET s == cpr_storage_pes(at[p])
    IN  /\ Goto(p, "send", "signal")
        /\ queue' = [queue EXCEPT ![Kind][s].tail = @ + 1]
        /\ posted' = posted \union
              {[to |-> s, queue |-> Kind, carrier |-> Carrier(p),
                slot |-> queue[Kind][s].tail % QueueLen]}
        /\ UNCHANGED <<progress, sending, pes, memory, table>>

TestSignal(p) ==
    /\ pc[p] = "signal"
    /\ \/ queue[Kind][cpr_storage_pes(at[p])].sig = 0 /\ Goto(p, "signal", "set")
          /\ UNCHANGED sending
       \/ queue[Kind][cpr_storage_pes(at[p])].sig # 0 /\ SendFrom(p, "signal", at[p] + 1)
    /\ UNCHANGED <<progress, pes, memory, queue, table, posted>>

SetSignal(p) ==
    /\ pc[p] = "set" /\ SendFrom(p, "set", at[p] + 1)
    /\ queue' = [queue EXCEPT ![Kind][cpr_storage_pes(at[p])].sig = 1]
    /\ UNCHANGED <<progress, pes, memory, table, posted>>

-----------------------------------------------------------------------------
(* shmem_cpr_reserve on a storage PE.                                      *)
WaitReserve(s) ==
    /\ \/ stage.op = "reserve" /\ role(s) = "storage" /\ Goto(s, "call", "rloop")
       \/ Goto(s, "rwait", "rloop")
    /\ queue["resrv"][s].sig > 0
    /\ UNCHANGED <<progress, sending, pes, memory, queue, table, posted>>

EndReserve(s) ==
    /\ Goto(s, "rloop", "rclear")
    /\ ~Pending("resrv", s)
    /\ UNCHANGED <<progress, sending, pes, memory, queue, table, posted>>

(* The carrier at the head of a ring, once its count is there.             *)
First(k, s) == queue[k][s].slots[queue[k][s].head % QueueLen]

(* Faulty variant: the row's tail is not moved on.                         *)
FileReservation_Overwrite(s) ==
    LET c == First("resrv", s)
    IN  /\ Goto(s, "rloop", "rloop")
        /\ Pending("resrv", s) /\ c # Empty
        /\ queue' = [queue EXCEPT !["resrv"][s].head = @ + 1]
        /\ table' = [table EXCEPT ![s][c.pe_num] = <<[id |-> c.id, data |-> NoData]>>]
        /\ UNCHANGED <<progress, sending, pes, memory, posted>>

FileReservation(s) ==
    LET c == First("resrv", s)
    IN  /\ Goto(s, "rloop", "rloop")
        /\ Pending("resrv", s) /\ c # Empty
        /\ queue' = [queue EXCEPT !["resrv"][s].head = @ + 1]
        /\ table' = [table EXCEPT ![s][c.pe_num] =
                        Append(@, [id |-> c.id, data |-> NoData])]
        /\ UNCHANGED <<progress, sending, pes, memory, posted>>

(* The end of the call: in the first stage the program calls again until   *)
(* every region is reserved; elsewhere shmem_cpr_checkpoint goes on.       *)
ClearSignal(s) ==
    /\ Goto(s, "rclear", IF stage.op # "reserve" THEN "cwait"
                         ELSE IF calls[s] + 1 < Regions THEN "call" ELSE "done")
    /\ calls' = [calls EXCEPT ![s] = @ + (IF stage.op = "reserve" THEN 1 ELSE 0)]
    /\ queue' = [queue EXCEPT !["resrv"][s].sig = 0]
    /\ UNCHANGED <<progress, at, pes, memory, table, posted>>

-----------------------------------------------------------------------------
(* shmem_cpr_checkpoint on a storage PE, where rollback calls it only when *)
(* carriers are waiting.                                                   *)
(* Faulty variant: reservations that are still queued are left there.      *)
CheckpointStored_Unreserved(s) ==
    /\ stage.op \in {"checkpoint", "drain", "rollback"} /\ role(s) = "storage"
    /\ stage.op = "rollback" => RoleOf(s, stage.dead) = "active" /\ Pending("check", s)
    /\ Goto(s, "call", "cwait")
    /\ UNCHANGED <<progress, sending, pes, memory, queue, table, posted>>

CheckpointStored(s) ==
    /\ stage.op \in {"checkpoint", "drain", "rollback"} /\ role(s) = "storage"
    /\ stage.op = "rollback" => RoleOf(s, stage.dead) = "active" /\ Pending("check", s)
    /\ Goto(s, "call", IF Pending("resrv", s) THEN "rwait" ELSE "cwait")
    /\ UNCHANGED <<progress, sending, pes, memory, queue, table, posted>>

WaitCheck(s) ==
    /\ Goto(s, "cwait", "cloop")
    /\ queue["check"][s].sig > 0
    /\ UNCHANGED <<progress, sending, pes, memory, queue, table, posted>>

EndCheckpoint(s) ==
    /\ pc[s] = "cloop" /\ ~Pending("check", s)
    /\ Goto(s, "cloop", IF stage.op = "rollback" THEN "restore" ELSE "done")
    /\ UNCHANGED <<progress, sending, pes, memory, queue, table, posted>>

FileData(s) ==
    LET c == First("check", s)
    IN  /\ Goto(s, "cloop", "cloop")
        /\ Pending("check", s) /\ c # Empty
        /\ queue' = [queue EXCEPT !["check"][s].head = @ + 1]
        /\ table' = [table EXCEPT ![s][c.pe_num][c.id + 1].data = c.data]
        /\ UNCHANGED <<progress, sending, pes, memory, posted>>

IdleInDrain(p) ==
    /\ stage.op = "drain" /\ role(p) = "active"
    /\ Goto(p, "call", "done")
    /\ UNCHANGED <<progress, sending, pes, memory, queue, table, posted>>

-----------------------------------------------------------------------------
(* shmem_cpr_rollback on the PEs that are left.                            *)
chosen_pe(p) == cpr_storage_pes(view[p].num - 1)

AfterDeath(p, d) ==
    [view[p] EXCEPT
        !.active = IF RoleOf(p, d) = "active" THEN @ \union {chosen_pe(p)} ELSE @,
        !.dead = @ \union {d},
        !.num = @ - 1]

(* Faulty variant: the last region is left out.                            *)
Restored_Short(p, data, n) ==
    [i \in Ids |-> IF i < n - 1 THEN data[i + 1] ELSE mem[p][i]]

(* What the regions of a sequence of data restore; the others keep theirs. *)
Restored(p, data, n) ==
    [i \in Ids |-> IF i < n THEN data[i + 1] ELSE mem[p][i]]

RollBack(p) ==
    /\ stage.op = "rollback"
    /\ RoleOf(p, stage.dead) = "active" => role(p) = "active"
    /\ Goto(p, "call", "done")
    /\ mem' = IF RoleOf(p, stage.dead) = "active"
              THEN [mem EXCEPT ![p] = Restored(p, shadow[p], shadow_mem_tail[p])]
              ELSE mem
    /\ view' = [view EXCEPT ![p] = AfterDeath(p, stage.dead)]
    /\ UNCHANGED <<progress, sending, part, shadow, shadow_mem_tail, queue, table, posted>>

EmptyQueue(s) ==
    /\ stage.op = "rollback" /\ role(s) = "storage"
    /\ RoleOf(s, stage.dead) = "active" /\ ~Pending("check", s)
    /\ Goto(s, "call", "restore")
    /\ UNCHANGED <<progress, sending, pes, memory, queue, table, posted>>

(* Faulty variant: the chosen PE does not enter whose part it plays.       *)
TakeOver_Unentered(s) ==
    LET row == table[s][stage.dead]
        data == [i \in 1 .. Len(row) |-> row[i].data]
        chosen == part[s] = chosen_pe(s)
        restored == Restored(s, data, Len(row))
    IN  /\ Goto(s, "restore", "done")
        /\ shadow' = IF chosen THEN [shadow EXCEPT ![s] = data] ELSE shadow
        /\ mem' = IF chosen THEN [mem EXCEPT ![s] = restored] ELSE mem
        /\ view' = [view EXCEPT ![s] = AfterDeath(s, stage.dead)]
        /\ UNCHANGED <<progress, sending, part, shadow_mem_tail, queue, table, posted>>

(* The chosen PE takes the dead one's row as its shadow memory, whose tail *)
(* stays as it is, and restores it.                                        *)
TakeOver(s) ==
    LET row == table[s][stage.dead]
        data == [i \in 1 .. Len(row) |-> row[i].data]
        chosen == part[s] = chosen_pe(s)
        restored == Restored(s, data, Len(row))
    IN  /\ Goto(s, "restore", "done")
        /\ shadow' = IF chosen THEN [shadow EXCEPT ![s] = data] ELSE shadow
        /\ mem' = IF chosen THEN [mem EXCEPT ![s] = restored] ELSE mem
        /\ part' = IF chosen THEN [part EXCEPT ![s] = stage.dead] ELSE part
        /\ view' = [view EXCEPT ![s] = AfterDeath(s, stage.dead)]
        /\ UNCHANGED <<progress, sending, shadow_mem_tail, queue, table, posted>>

-----------------------------------------------------------------------------
(* The barrier at the end of a stage: all have called, all puts are there. *)
StageOver == posted = {} /\ \A p \in alive : pc[p] = "done"

Computed(by, work) == [p \in PEs |-> [i \in Ids |->
    IF p \in by THEN [row |-> part[p], work |-> work] ELSE mem[p][i]]]

Enter(st, by) ==
    /\ StageOver /\ stage' = st
    /\ pc' = [p \in PEs |-> IF p \in by THEN "call" ELSE "done"]
    /\ UNCHANGED <<program, sending, pes, shadow, shadow_mem_tail, queue, table, posted>>

FirstRegion == [op |-> "checkpoint", id |-> 0]
BetweenRounds ==
    \/ stage = [op |-> "checkpoint", id |-> Regions - 1]
    \/ stage.op = "rollback"

NextRegion ==
    /\ stage.op = "checkpoint" /\ stage.id < Regions - 1
    /\ Enter([stage EXCEPT !.id = @ + 1], alive)
    /\ UNCHANGED <<step, alive, mem>>

NextRound ==
    /\ stage.op = "reserve" \/ BetweenRounds
    /\ step < Len(plan) /\ plan[step + 1] = "round"
    /\ step' = step + 1
    /\ UNCHANGED alive
    /\ Enter(FirstRegion, alive)
    /\ mem' = Computed(alive, step + 1)

(* A PE dies.  The program names it by the part it plays.                  *)
Die ==
    /\ BetweenRounds
    /\ step < Len(plan) /\ plan[step + 1] = "death"
    /\ step' = step + 1
    /\ \E d \in MayDie \intersect alive :
        /\ alive' = alive \ {d}
        /\ Enter([op |-> "rollback", dead |-> part[d]], alive \ {d})
        /\ mem' = Computed(alive \ {d}, step + 1)

Drain ==
    /\ BetweenRounds /\ step = Len(plan)
    /\ Enter([op |-> "drain"], alive)
    /\ UNCHANGED <<step, alive, mem>>

Deliver(m) ==
    /\ posted' = posted \ {m}
    /\ queue' = [queue EXCEPT ![m.queue][m.to].slots[m.slot] = m.carrier]
    /\ UNCHANGED <<progress, pc, sending, pes, memory, table>>

ComputingStep(p) ==
    \/ Reserve(p) \/ CheckpointData(p) \/ Send(p)
    \/ TestSignal(p) \/ SetSignal(p) \/ IdleInDrain(p) \/ RollBack(p)

StorageStep(s) ==
    \/ WaitReserve(s) \/ FileReservation(s) \/ EndReserve(s) \/ ClearSignal(s)
    \/ CheckpointStored(s) \/ WaitCheck(s) \/ FileData(s) \/ EndCheckpoint(s)
    \/ EmptyQueue(s) \/ TakeOver(s)

Step(p) == pc[p] # "done" /\ (ComputingStep(p) \/ (p \in Storing /\ StorageStep(p)))
Barrier == NextRegion \/ NextRound \/ Die \/ Drain

Next ==
    \/ \E p \in PEs : Step(p)
    \/ \E m \in posted : Deliver(m)
    \/ Barrier

Spec == Init /\ [][Next]_vars

(* Every PE that is alive runs or spins; what is posted is applied; the    *)
(* program goes on after each barrier.                                     *)
Fairness ==
    /\ \A p \in AnyPE : WF_vars(p \in PEs /\ Step(p))
    /\ WF_vars(\E m \in posted : Deliver(m))
    /\ WF_vars(Barrier)

FairSpec == Spec /\ Fairness

-----------------------------------------------------------------------------
(* Rows are filled in the order of the ids: the code takes the id of a     *)
(* region for its index in the row ("I'm assuming id = index here").       *)
RowsInOrder ==
    \A s \in Storing, r \in Rows : \A i \in DOMAIN table[s][r] : table[s][r][i].id = i - 1

(* The carrier of a checkpoint is filed in a place that is reserved.       *)
ReservedFirst ==
    \A s \in Storing : LET c == First("check", s) IN
        pc[s] = "cloop" /\ Pending("check", s) /\ c # Empty => c.id < Len(table[s][c.pe_num])

(* When the computing PEs are done and a storage PE has emptied its rings, *)
(* its table holds what is in their shadow memories.                       *)
CopiesComplete ==
    \A p \in alive, s \in alive \intersect Storing :
        (/\ posted = {}
         /\ role(p) = "active" /\ pc[p] \in {"call", "done"} /\ s \in Storages(p)
         /\ stage.op = "reserve" => pc[p] = "done"
         /\ ~Pending("resrv", s) /\ ~Pending("check", s))
        => /\ Len(table[s][part[p]]) = Len(shadow[p])
           /\ \A i \in 1 .. Len(shadow[p]) : table[s][part[p]][i].data = shadow[p][i]

(* Whenever the PEs meet, every part is played by one PE that is alive.    *)
EveryPartPlayed ==
    StageOver => \A r \in Rows : \E p \in alive :
        /\ role(p) = "active" /\ part[p] = r
        /\ \A q \in alive \ {p} : role(q) = "active" => part[q] # r

(* The last round before the stage that is going on.                       *)
LastRound == CHOOSE w \in 1 .. step - 1 :
    plan[w] = "round" /\ \A v \in w + 1 .. step - 1 : plan[v] # "round"

(* After a rollback all computing PEs have the memory of the last round,   *)
(* those that were there and the one that has taken the dead one's part.   *)
RollbackConsistent ==
    StageOver /\ stage.op = "rollback" /\ stage.dead \in Rows =>
        \A p \in alive : role(p) = "active" =>
            \A i \in Ids : mem[p][i] = [row |-> part[p], work |-> LastRound]

(* Every call of the library returns, whatever the order of its steps: it  *)
(* is called between barriers, so a PE that waits stops all of them.       *)
EveryCallReturns ==
    \A p \in AnyPE : (p \in PEs /\ pc[p] # "done") ~> (p \in PEs /\ pc[p] = "done")

=============================================================================
