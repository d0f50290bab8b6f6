-------------------------- MODULE CheckpointProofs --------------------------
(***************************************************************************)
(* What the storage PEs keep in the library of checkpoint.c, for any       *)
(* number of computing and spare PEs, regions, rounds and deaths: rows are *)
(* filled in the order of the ids, and a checkpoint finds its place        *)
(* reserved.  By ReservationsFit a ring has a slot for each reservation,   *)
(* so that none is used twice for them.  By CheckpointsFit it has one for  *)
(* each carrier of a checkpoint; then a storage PE that has emptied its    *)
(* rings has what the computing PEs have in their shadow memories.  Last,  *)
(* where the library can replace the dead, every part goes on being        *)
(* played, and after a first death from one checkpoint.                    *)
(***************************************************************************)
EXTENDS CheckpointLibraries, NaturalLemmas

-----------------------------------------------------------------------------
(* The inductive invariant.  First its types, which say more than TypeOK:  *)
(* carriers go to PEs that store at the start, and a table has a row for   *)
(* each computing PE.                                                      *)
Slots == 0 .. QueueLen - 1
Ring == [head : Nat, tail : Nat, sig : {0, 1}, slots : [Slots -> Carriers \union {Empty}]]
Entry == [id : Ids, data : Data]
View == [active : SUBSET PEs, dead : SUBSET PEs, num : 0 .. Spares]
Places == {"call", "send", "signal", "set", "rwait", "rloop", "rclear",
           "cwait", "cloop", "restore", "done"}

ProgressTyped ==
    /\ program \in Programs
    /\ stage \in Stages /\ step \in 0 .. Len(plan)
    /\ alive \in SUBSET PEs
SendingTyped ==
    /\ calls \in [PEs -> 0 .. Regions]
    /\ at \in [PEs -> 0 .. Spares - 1]
PesTyped ==
    /\ part \in [PEs -> PEs]
    /\ view \in [PEs -> View]
MemoryTyped ==
    /\ mem \in [PEs -> [Ids -> Data]]
    /\ shadow \in [PEs -> Seq(Data)]
    /\ shadow_mem_tail \in [PEs -> 0 .. Regions]
QueueTyped == queue \in [Queues -> [Storing -> Ring]]
TableTyped == table \in [Storing -> [Rows -> Seq(Entry)]]
PostedTyped ==
    posted \in SUBSET [to : Storing, queue : Queues, slot : Slots, carrier : Carriers]

Typed ==
    /\ ProgressTyped /\ pc \in [PEs -> Places] /\ SendingTyped /\ PesTyped
    /\ MemoryTyped /\ QueueTyped /\ TableTyped /\ PostedTyped

(* Where a PE can be, by its role and the stage.                           *)
Sender == {"send", "signal", "set"}
Filer  == {"rwait", "rloop", "rclear", "cwait", "cloop", "restore"}
MayBe(p, place) ==
    /\ p \notin alive => place = "done"
    /\ place \in Sender => /\ stage.op \in {"reserve", "checkpoint"}
                           /\ p \in view[p].active
    /\ place \in Filer => p \notin view[p].active
    /\ place \in {"rwait", "cwait", "cloop", "restore"} => stage.op # "reserve"
    /\ place \in Filer /\ stage.op = "rollback" => stage.dead \in Rows
    /\ place = "restore" => stage.op = "rollback"
Placed == \A p \in PEs : MayBe(p, pc[p])

(* A PE computes for a computing PE, or else for itself.                   *)
Parts ==
    \A p \in PEs :
        /\ Rows \subseteq view[p].active
        /\ p \in alive => IF p \in view[p].active THEN part[p] \in Rows ELSE part[p] = p

(* Before a rollback, and before its own part of one, a PE sees the others *)
(* as everybody does; after that, as everybody does who is done with it.   *)
RolledBack(p) == stage.op = "rollback" /\ pc[p] = "done"
Views ==
    /\ \A p, q \in alive : (RolledBack(p) <=> RolledBack(q)) => view[p] = view[q]
    /\ \A p, q \in alive :
        RolledBack(p) /\ ~RolledBack(q) => view[p] = AfterDeath(q, stage.dead)
    /\ stage.op = "rollback" => \/ stage.dead \in Rows
                                \/ \A p \in alive : stage.dead \notin view[p].active

(* Each death takes a PE, and a spare PE from the view.                    *)
DeathSteps(n) == {i \in 1 .. n : plan[i] = "death"}
Deaths(n) == Cardinality(DeathSteps(n))
Numbers ==
    /\ Cardinality(alive) = Originals + Spares - Deaths(step)
    /\ \A p \in alive :
        view[p].num = Spares - Deaths(step)
                      + IF stage.op = "rollback" /\ ~RolledBack(p) THEN 1 ELSE 0

(* The calls of shmem_cpr_reserve, all of them in the first stage.         *)
Calls ==
    /\ \A p \in PEs :
        IF stage.op = "reserve"
        THEN /\ view[p] = [active |-> Rows, dead |-> {}, num |-> Spares]
             /\ IF pc[p] = "done" THEN calls[p] = Regions ELSE calls[p] < Regions
        ELSE calls[p] = Regions
    /\ stage.op = "reserve" => step = 0 /\ alive = PEs /\ \A p \in PEs : part[p] = p

(* Their reservations.                                                     *)
ReservedOwn(p) ==
    calls[p] + IF stage.op = "reserve" /\ pc[p] \in Sender THEN 1 ELSE 0
Shadows ==
    \A p \in PEs :
        /\ p \in Rows => Len(shadow[p]) = ReservedOwn(p) /\ shadow_mem_tail[p] = ReservedOwn(p)
        /\ p \in Storing => Len(shadow[p]) <= Regions /\ shadow_mem_tail[p] = 0

(* How many reservations of r are on their way to s, or there.             *)
Sent(r, s) ==
    IF stage.op = "reserve"
    THEN calls[r] + IF \/ pc[r] \in {"signal", "set"} /\ cpr_storage_pes(at[r]) >= s
                       \/ pc[r] = "send" /\ cpr_storage_pes(at[r]) > s
                    THEN 1 ELSE 0
    ELSE Regions

(* The carriers of the ring k of s, in their slots or on their way there.  *)
Claimed(k, s) ==
    {x \in [slot : Slots, carrier : Carriers] :
        \/ queue[k][s].slots[x.slot] = x.carrier
        \/ [to |-> s, queue |-> k, slot |-> x.slot, carrier |-> x.carrier] \in posted}

(* Every slot that has been claimed has one carrier.                       *)
SlotsClaimed(k, s) ==
    /\ queue[k][s].head <= queue[k][s].tail
    /\ \A x \in Claimed(k, s) : x.slot < queue[k][s].tail
    /\ \A i \in 0 .. queue[k][s].tail - 1 : \E x \in Claimed(k, s) : x.slot = i
    /\ \A x, y \in Claimed(k, s) : x.slot = y.slot => x = y
    /\ \A m \in posted : m.to = s /\ m.queue = k => queue[k][s].slots[m.slot] = Empty

(* The carriers are the reservations that have been sent, those of a PE in *)
(* the order of their ids; those before the head are filed.                *)
Reservations(s) ==
    LET claimed == Claimed("resrv", s) IN
    /\ \A x \in claimed : x.carrier.id < Sent(x.carrier.pe_num, s)
    /\ \A r \in Rows : \A n \in 0 .. Sent(r, s) - 1 :
        \E x \in claimed : x.carrier.pe_num = r /\ x.carrier.id = n
    /\ \A x, y \in claimed :
        x.carrier.pe_num = y.carrier.pe_num /\ x.slot < y.slot => x.carrier.id < y.carrier.id
    /\ \A x \in claimed :
        x.slot < queue["resrv"][s].head <=> x.carrier.id < Len(table[s][x.carrier.pe_num])
    /\ \A r \in Rows : Len(table[s][r]) <= Sent(r, s)

Rings == \A s \in Storing : SlotsClaimed("resrv", s) /\ Reservations(s)

(* A storage PE turns to checkpoints when it has filed all reservations.   *)
Drained ==
    \A s \in Storing :
        stage.op # "reserve" /\ pc[s] \in {"rclear", "cwait", "cloop"} => ~Pending("resrv", s)

IInv ==
    /\ Typed /\ Placed /\ Parts /\ Views /\ Numbers /\ Calls /\ Shadows
    /\ Rings /\ RowsInOrder /\ Drained

-----------------------------------------------------------------------------
(* The numbers of the program.                                             *)
LEMMA Constants ==
    ASSUME program \in Programs
    PROVE  /\ Originals \in Nat \ {0} /\ Spares \in Nat \ {0}
           /\ Regions \in Nat \ {0} /\ QueueLen \in Nat \ {0}
           /\ Originals * Regions \in Nat /\ Originals * Regions <= QueueLen
           /\ plan \in Seq({"round", "death"}) /\ Deaths(Len(plan)) <= Spares
           /\ MaxWork = Len(plan) /\ Len(plan) \in Nat
<1>1. /\ Originals \in Nat \ {0} /\ Spares \in Nat \ {0}
      /\ Regions \in Nat \ {0} /\ QueueLen \in Nat \ {0}
      /\ plan \in Seq({"round", "death"}) /\ Originals * Regions <= QueueLen
  BY CheckpointAssumption, ReservationsFit DEF Spares, Regions, plan
<1>2. Cardinality({i \in DOMAIN plan : plan[i] = "death"}) <= Spares
  BY CheckpointAssumption DEF Spares, plan
<1>3. DOMAIN plan = 1 .. Len(plan)
  BY <1>1
<1>4. Deaths(Len(plan)) <= Spares
  BY <1>2, <1>3 DEF Deaths, DeathSteps
<1>5. QED
  BY <1>1, <1>4 DEF MaxWork

(* The PEs: those that compute and those that store at the start.          *)
LEMMA Numbering ==
    ASSUME program \in Programs
    PROVE  /\ PEs \subseteq Nat /\ Rows \subseteq PEs /\ Storing \subseteq PEs
           /\ Rows \intersect Storing = {} /\ Rows \union Storing = PEs
           /\ \A s : s \in Storing <=> s \in Nat /\ Originals <= s /\ s < Originals + Spares
           /\ \A i \in 0 .. Spares - 1 : cpr_storage_pes(i) \in Storing
           /\ \A s \in Storing : s - Originals \in 0 .. Spares - 1
           /\ -1 \notin Rows
<1>1. Originals \in Nat \ {0} /\ Spares \in Nat \ {0}
  BY Constants
<1>2. \A s : s \in Storing <=> s \in Nat /\ Originals <= s /\ s < Originals + Spares
  BY <1>1 DEF PEs, Rows, Storing
<1>3. /\ PEs \subseteq Nat /\ Rows \subseteq PEs /\ Storing \subseteq PEs
      /\ Rows \intersect Storing = {} /\ Rows \union Storing = PEs
  BY <1>1 DEF PEs, Rows, Storing
<1>4. /\ \A i \in 0 .. Spares - 1 : cpr_storage_pes(i) \in Storing
      /\ \A s \in Storing : s - Originals \in 0 .. Spares - 1
  BY <1>1, <1>2 DEF cpr_storage_pes
<1>5. -1 \notin Rows
  BY <1>1 DEF Rows
<1>6. QED
  BY <1>2, <1>3, <1>4, <1>5

(* No step changes the program.                                            *)
LEMMA Frame ==
    ASSUME program' = program
    PROVE  /\ PEs' = PEs /\ Storing' = Storing /\ Spares' = Spares /\ Regions' = Regions
           /\ Ids' = Ids /\ plan' = plan /\ MaxWork' = MaxWork /\ Data' = Data
           /\ Carriers' = Carriers /\ Ring' = Ring /\ Entry' = Entry /\ View' = View
           /\ Stages' = Stages
<1>1. Spares' = Spares /\ Regions' = Regions /\ plan' = plan
  BY DEF Spares, Regions, plan
<1>2. PEs' = PEs /\ Ids' = Ids /\ MaxWork' = MaxWork
  BY <1>1 DEF PEs, Ids, MaxWork
<1>3. Storing' = Storing /\ Data' = Data
  BY <1>2 DEF Storing, Data
<1>4. QED
  BY <1>1, <1>2, <1>3 DEF Carriers, Ring, Entry, View, Stages

(* What a stage carries.                                                   *)
LEMMA StageMeans ==
    ASSUME stage \in Stages
    PROVE  /\ stage.op \in {"reserve", "checkpoint", "rollback", "drain"}
           /\ stage.op = "checkpoint" => stage.id \in Ids
           /\ stage.op = "rollback" => stage.dead \in PEs
  BY DEF Stages

(* The deaths of a plan up to a step, and with the next.                   *)
LEMMA CountDeaths ==
    ASSUME program \in Programs, NEW n \in 0 .. Len(plan)
    PROVE  /\ Deaths(n) \in Nat /\ Deaths(n) <= Spares
           /\ n < Len(plan) => Deaths(n + 1) = Deaths(n) + IF plan[n + 1] = "death" THEN 1 ELSE 0
<1>1. \A m \in Nat : IsFiniteSet(DeathSteps(m)) /\ Cardinality(DeathSteps(m)) \in Nat
  <2>1. SUFFICES ASSUME NEW m \in Nat
                 PROVE  IsFiniteSet(DeathSteps(m)) /\ Cardinality(DeathSteps(m)) \in Nat
    OBVIOUS
  <2>2. IsFiniteSet(1 .. m)
    BY FS_Interval
  <2>3. QED
    BY <2>2, FS_Subset, FS_CardinalityType DEF DeathSteps
<1>2. Deaths(n) \in Nat /\ Deaths(n) <= Spares
  <2>1. DeathSteps(n) \subseteq DeathSteps(Len(plan))
    BY Constants DEF DeathSteps
  <2>2. Cardinality(DeathSteps(n)) <= Cardinality(DeathSteps(Len(plan)))
    BY <1>1, <2>1, FS_Subset, Constants
  <2>3. QED
    BY <1>1, <2>2, Constants DEF Deaths
<1>3. ASSUME n < Len(plan)
      PROVE  Deaths(n + 1) = Deaths(n) + IF plan[n + 1] = "death" THEN 1 ELSE 0
  <2>1. CASE plan[n + 1] = "death"
    <3>1. DeathSteps(n + 1) = DeathSteps(n) \union {n + 1} /\ n + 1 \notin DeathSteps(n)
      BY <2>1 DEF DeathSteps
    <3>2. Cardinality(DeathSteps(n + 1)) = Cardinality(DeathSteps(n)) + 1
      BY <1>1, <3>1, FS_AddElement
    <3>3. QED
      BY <2>1, <3>2 DEF Deaths
  <2>2. CASE plan[n + 1] # "death"
    <3>1. DeathSteps(n + 1) = DeathSteps(n)
      BY <2>2 DEF DeathSteps
    <3>2. QED
      BY <1>1, <2>2, <3>1 DEF Deaths
  <2>3. QED
    BY <2>1, <2>2
<1>4. QED
  BY <1>2, <1>3

-----------------------------------------------------------------------------
(* A PE that goes on within a stage, where it may be, and does not finish  *)
(* a rollback, leaves what the PEs know of each other as it is.            *)
LEMMA Move ==
    ASSUME Typed, Placed, Parts, Views, Numbers,
           NEW p \in PEs, pc[p] # "done", UNCHANGED <<progress, pes>>,
           \A q \in PEs \ {p} : pc'[q] = pc[q],
           MayBe(p, pc'[p]), stage.op = "rollback" => pc'[p] # "done"
    PROVE  Placed' /\ Parts' /\ Views' /\ Numbers'
<1> USE DEF progress, pes
<1>1. program' = program /\ PEs' = PEs /\ Spares' = Spares /\ plan' = plan /\ alive \subseteq PEs
  BY Frame DEF Typed, ProgressTyped
<1>2. Placed'
  BY <1>1 DEF Placed, MayBe
<1>3. Parts'
  BY <1>1 DEF Parts
<1>4. \A q \in PEs : RolledBack(q)' <=> RolledBack(q)
  BY DEF RolledBack
<1>5. \A q : AfterDeath(q, stage.dead)' = AfterDeath(q, stage.dead)
  BY DEF AfterDeath, RoleOf, chosen_pe, cpr_storage_pes
<1>6. Views'
  BY <1>1, <1>4, <1>5 DEF Views
<1>7. Deaths(step)' = Deaths(step)
  BY <1>1 DEF Deaths, DeathSteps
<1>8. Numbers'
  BY <1>1, <1>4, <1>7 DEF Numbers
<1>9. QED
  BY <1>2, <1>3, <1>6, <1>8

(* The reservations are as they were when neither their rings nor the      *)
(* length of a row have changed, and no more have been sent.               *)
LEMMA RingsKept ==
    ASSUME Typed, Rings, program' = program,
           \A s \in Storing : /\ queue'["resrv"][s].head = queue["resrv"][s].head
                              /\ queue'["resrv"][s].tail = queue["resrv"][s].tail
                              /\ queue'["resrv"][s].slots = queue["resrv"][s].slots,
           \A m : m.queue = "resrv" => (m \in posted' <=> m \in posted),
           \A s \in Storing, r \in Rows :
               Len(table'[s][r]) = Len(table[s][r]) /\ Sent(r, s)' = Sent(r, s)
    PROVE  Rings'
<1>1. Storing' = Storing /\ Carriers' = Carriers
  BY Frame
<1> SUFFICES ASSUME NEW s \in Storing
             PROVE  SlotsClaimed("resrv", s)' /\ Reservations(s)'
  BY <1>1 DEF Rings
<1>2. Claimed("resrv", s)' = Claimed("resrv", s)
  <2>1. \A x : [to |-> s, queue |-> "resrv", slot |-> x.slot, carrier |-> x.carrier] \in posted'
               <=> [to |-> s, queue |-> "resrv", slot |-> x.slot, carrier |-> x.carrier] \in posted
    OBVIOUS
  <2>2. QED
    BY <1>1, <2>1 DEF Claimed
<1>3. SlotsClaimed("resrv", s) /\ Reservations(s)
  BY DEF Rings
<1>4. SlotsClaimed("resrv", s)'
  BY <1>2, <1>3 DEF SlotsClaimed
<1>5. \A x \in Claimed("resrv", s) : x.carrier.pe_num \in Rows
  BY DEF Claimed, Carriers
<1>6. Reservations(s)'
  BY <1>2, <1>3, <1>5 DEF Reservations
<1>7. QED
  BY <1>4, <1>6

(* A step of a storage PE, or of an idle one, that only takes it to its    *)
(* next place.                                                             *)
LEMMA SilentMove ==
    ASSUME IInv, NEW p \in PEs, NEW to,
           pc[p] \in Filer \union {"call"}, to \in Filer \union {"done"},
           pc' = [pc EXCEPT ![p] = to],
           UNCHANGED <<progress, sending, pes, memory, queue, table, posted>>,
           MayBe(p, to), to = "done" => stage.op \notin {"reserve", "rollback"},
           stage.op # "reserve" /\ to \in {"rclear", "cwait", "cloop"} => ~Pending("resrv", p)
    PROVE  IInv'
<1> USE DEF IInv, progress, sending, pes, memory
<1>1. /\ program' = program /\ PEs' = PEs /\ Storing' = Storing
      /\ Spares' = Spares /\ Regions' = Regions
  BY Frame
<1>2. Typed'
  <2>1. pc' \in [PEs' -> Places]
    BY <1>1 DEF Typed, Places, Filer
  <2>2. QED
    BY <2>1, Frame DEF Typed, ProgressTyped, SendingTyped, PesTyped, MemoryTyped,
       QueueTyped, TableTyped, PostedTyped
<1>3. pc'[p] = to /\ \A q \in PEs \ {p} : pc'[q] = pc[q]
  BY DEF Typed
<1>4. pc[p] \notin Sender /\ pc[p] # "done" /\ to \notin Sender
  BY DEF Filer, Sender
<1>5. Placed' /\ Parts' /\ Views' /\ Numbers'
  BY <1>3, <1>4, Move
<1>6. Calls'
  BY <1>1, <1>3, <1>4 DEF Calls
<1>7. Shadows'
  <2>1. \A q \in PEs : ReservedOwn(q)' = ReservedOwn(q)
    BY <1>3, <1>4 DEF ReservedOwn
  <2>2. QED
    BY <1>1, <2>1 DEF Shadows
<1>8. Rings'
  <2>1. \A s, r : r \in PEs => Sent(r, s)' = Sent(r, s)
    BY <1>1, <1>3, <1>4 DEF Sent, Sender, cpr_storage_pes
  <2>2. Rows \subseteq PEs
    BY Numbering DEF Typed, ProgressTyped
  <2>3. QED
    BY <1>1, <2>1, <2>2, RingsKept
<1>9. RowsInOrder' /\ Drained'
  <2>1. RowsInOrder'
    BY <1>1 DEF RowsInOrder
  <2>2. Drained'
    <3>1. \A s : Pending("resrv", s)' = Pending("resrv", s)
      BY DEF Pending
    <3>2. Storing \subseteq PEs
      BY Numbering DEF Typed, ProgressTyped
    <3>3. QED
      BY <1>1, <1>3, <3>1, <3>2 DEF Drained
  <2>3. QED
    BY <2>1, <2>2
<1>10. QED
  BY <1>2, <1>5, <1>6, <1>7, <1>8, <1>9

(* A PE that is in a call is alive.                                        *)
LEMMA InCallAlive ==
    ASSUME Placed, NEW p \in PEs, pc[p] # "done"
    PROVE  p \in alive /\ MayBe(p, pc[p])
  BY DEF Placed, MayBe

(* Who is called to replace a dead PE replaces one that computes.          *)
LEMMA DeadRow ==
    ASSUME Views, NEW p \in alive, stage.op = "rollback", RoleOf(p, stage.dead) = "active"
    PROVE  stage.dead \in Rows
  BY DEF Views, RoleOf

(* The steps that only move on.                                            *)
LEMMA WaitReserveStep ==
    ASSUME IInv, NEW s \in PEs, pc[s] # "done", WaitReserve(s)
    PROVE  IInv'
<1>1. s \in alive /\ MayBe(s, pc[s])
  BY InCallAlive DEF IInv
<1>2. MayBe(s, "rloop") /\ pc[s] \in {"call", "rwait"}
  BY <1>1 DEF MayBe, WaitReserve, Goto, role, RoleOf, Sender, Filer
<1>3. QED
  BY <1>2, SilentMove DEF WaitReserve, Goto, Filer

(* The ring is empty at this moment, which is what Drained asks for.       *)
LEMMA EndReserveStep ==
    ASSUME IInv, NEW s \in PEs, pc[s] # "done", EndReserve(s)
    PROVE  IInv'
<1>1. s \in alive /\ MayBe(s, pc[s])
  BY InCallAlive DEF IInv
<1>2. MayBe(s, "rclear") /\ pc[s] = "rloop"
  BY <1>1 DEF MayBe, EndReserve, Goto, Sender, Filer
<1>3. QED
  BY <1>2, SilentMove DEF EndReserve, Goto, Filer

(* A checkpoint begins with the reservations that are left, if there are   *)
(* any.                                                                    *)
LEMMA CheckpointStoredStep ==
    ASSUME IInv, NEW s \in PEs, pc[s] # "done", CheckpointStored(s)
    PROVE  IInv'
<1> DEFINE to == IF Pending("resrv", s) THEN "rwait" ELSE "cwait"
<1>1. s \in alive /\ pc[s] = "call" /\ pc' = [pc EXCEPT ![s] = to]
  BY InCallAlive DEF IInv, CheckpointStored, Goto
<1>2. stage.op = "rollback" => stage.dead \in Rows
  BY <1>1, DeadRow DEF IInv, CheckpointStored
<1>3. MayBe(s, to)
  BY <1>1, <1>2 DEF MayBe, CheckpointStored, role, RoleOf, Sender, Filer
<1>4. QED
  BY <1>1, <1>3, SilentMove DEF CheckpointStored, Filer

(* No reservation can have come since the ring was found empty.            *)
LEMMA WaitCheckStep ==
    ASSUME IInv, NEW s \in PEs, pc[s] # "done", WaitCheck(s)
    PROVE  IInv'
<1>1. s \in alive /\ MayBe(s, pc[s]) /\ pc[s] = "cwait" /\ pc' = [pc EXCEPT ![s] = "cloop"]
  BY InCallAlive DEF IInv, WaitCheck, Goto
<1>2. MayBe(s, "cloop")
  BY <1>1 DEF MayBe, Sender, Filer
<1>3. s \in Storing
  BY <1>1, Numbering DEF IInv, Typed, ProgressTyped, Parts, MayBe, Filer
<1>4. ~Pending("resrv", s)
  BY <1>1, <1>2, <1>3 DEF IInv, Drained, MayBe
<1>5. QED
  BY <1>1, <1>2, <1>4, SilentMove DEF WaitCheck, Filer

(* The end of a checkpoint, or of its part in a rollback.                  *)
LEMMA EndCheckpointStep ==
    ASSUME IInv, NEW s \in PEs, pc[s] # "done", EndCheckpoint(s)
    PROVE  IInv'
<1> DEFINE to == IF stage.op = "rollback" THEN "restore" ELSE "done"
<1>1. s \in alive /\ MayBe(s, pc[s]) /\ pc[s] = "cloop" /\ pc' = [pc EXCEPT ![s] = to]
  BY InCallAlive DEF IInv, EndCheckpoint, Goto
<1>2. MayBe(s, to) /\ stage.op # "reserve"
  BY <1>1 DEF MayBe, Sender, Filer
<1>3. QED
  BY <1>1, <1>2, SilentMove DEF EndCheckpoint, Filer

(* Computing PEs have nothing to file.                                     *)
LEMMA IdleInDrainStep ==
    ASSUME IInv, NEW p \in PEs, pc[p] # "done", IdleInDrain(p)
    PROVE  IInv'
<1>1. MayBe(p, "done")
  BY DEF MayBe, Sender, Filer
<1>2. QED
  BY <1>1, SilentMove DEF IdleInDrain, Goto

(* Without carriers a storage PE goes on with the rollback.                *)
LEMMA EmptyQueueStep ==
    ASSUME IInv, NEW s \in PEs, pc[s] # "done", EmptyQueue(s)
    PROVE  IInv'
<1>1. s \in alive /\ pc[s] = "call" /\ pc' = [pc EXCEPT ![s] = "restore"]
  BY InCallAlive DEF IInv, EmptyQueue, Goto
<1>2. stage.op = "rollback" /\ stage.dead \in Rows
  BY <1>1, DeadRow DEF IInv, EmptyQueue
<1>3. MayBe(s, "restore")
  BY <1>1, <1>2 DEF MayBe, EmptyQueue, role, RoleOf, Sender, Filer
<1>4. QED
  BY <1>1, <1>2, <1>3, SilentMove DEF EmptyQueue, Filer

-----------------------------------------------------------------------------
(* The next storage PE of a loop, and the end of the call after the last.  *)
LEMMA NextTarget ==
    ASSUME Typed, Calls, NEW p \in PEs, NEW from, NEW i \in 0 .. Spares, SendFrom(p, from, i),
           pc[p] # "done"
    PROVE  /\ pc[p] = from /\ pc' = [pc EXCEPT ![p] = pc'[p]] /\ pc'[p] \in {"send", "call", "done"}
           /\ calls' = [calls EXCEPT ![p] = calls'[p]] /\ calls'[p] \in 0 .. Regions
           /\ at' = [at EXCEPT ![p] = at'[p]] /\ at'[p] \in 0 .. Spares - 1
           /\ stage.op # "reserve" => calls'[p] = calls[p] /\ pc'[p] \in {"send", "done"}
           /\ stage.op = "reserve" /\ i < Spares =>
                calls'[p] = calls[p] /\ pc'[p] = "send" /\ at'[p] = i
           /\ stage.op = "reserve" /\ i = Spares =>
                /\ calls'[p] = calls[p] + 1 /\ at'[p] = at[p]
                /\ pc'[p] = IF calls'[p] < Regions THEN "call" ELSE "done"
           /\ pc'[p] = "send" => i <= at'[p]
           /\ \A s \in Storages(p) : cpr_storage_pes(i) <= s =>
                pc'[p] = "send" /\ cpr_storage_pes(at'[p]) <= s
<1> DEFINE more == {j \in i .. view[p].num - 1 : cpr_storage_pes(j) \notin view[p].dead}
           least == CHOOSE j \in more : \A k \in more : j <= k
           reserved == calls[p] + (IF stage.op = "reserve" THEN 1 ELSE 0)
<1>1. /\ Spares \in Nat \ {0} /\ Regions \in Nat \ {0}
      /\ calls \in [PEs -> 0 .. Regions] /\ at \in [PEs -> 0 .. Spares - 1]
      /\ pc \in [PEs -> Places] /\ view[p].num \in 0 .. Spares
  BY Constants DEF Typed, ProgressTyped, SendingTyped, PesTyped, View
<1>2. more \subseteq 0 .. Spares - 1
  BY <1>1
<1>3. more # {} => least \in more /\ \A k \in more : least <= k
  <2>1. ASSUME more # {} PROVE \E m \in more : \A k \in more : m <= k
    <3>1. more \in SUBSET Nat
      BY <1>1, <1>2
    <3> HIDE DEF more
    <3>2. QED
      BY <2>1, <3>1, LeastElement
  <2> HIDE DEF more
  <2>2. QED
    BY <2>1, Zenon DEF least
<1>4. stage.op = "reserve" => view[p].num = Spares /\ view[p].dead = {} /\ calls[p] < Regions
  BY DEF Calls
<1>5. stage.op = "reserve" => more = i .. Spares - 1
  BY <1>4
<1>6. IF more # {}
      THEN Goto(p, from, "send") /\ at' = [at EXCEPT ![p] = least] /\ calls' = calls
      ELSE /\ Goto(p, from, IF stage.op = "reserve" /\ reserved < Regions THEN "call" ELSE "done")
           /\ calls' = [calls EXCEPT ![p] = reserved] /\ at' = at
  BY DEF SendFrom
<1>7. \A j \in more : j \in Nat /\ i <= j
  BY <1>1
<1>8. \A s \in Storages(p) : cpr_storage_pes(i) <= s => \E j \in more : s = cpr_storage_pes(j)
  BY <1>1, Constants DEF Storages, cpr_storage_pes, Typed, ProgressTyped
<1> HIDE DEF more, least
<1>9. CASE more # {}
  <2>1. stage.op = "reserve" => i < Spares /\ least = i
    BY <1>1, <1>3, <1>5, <1>9
  <2>2. least \in 0 .. Spares - 1
    BY <1>2, <1>3, <1>9
  <2>3. pc[p] = from /\ pc' = [pc EXCEPT ![p] = "send"] /\ pc'[p] = "send"
    BY <1>1, <1>6, <1>9 DEF Goto
  <2>4. at' = [at EXCEPT ![p] = least] /\ at'[p] = least /\ calls' = calls
    BY <1>1, <1>6, <1>9
  <2>5. calls = [calls EXCEPT ![p] = calls[p]] /\ calls[p] \in 0 .. Regions
    BY <1>1
  <2>6. i <= least /\ \A s \in Storages(p) : cpr_storage_pes(i) <= s => cpr_storage_pes(least) <= s
    BY <1>3, <1>7, <1>8, <1>9, Constants DEF cpr_storage_pes, Typed, ProgressTyped
  <2>7. QED
    BY <1>1, <2>1, <2>2, <2>3, <2>4, <2>5, <2>6
<1>10. CASE more = {}
  <2>1. stage.op = "reserve" => i = Spares
    BY <1>1, <1>5, <1>10
  <2>2. QED
    BY <1>1, <1>4, <1>6, <1>8, <1>10, <2>1 DEF Goto
<1>11. QED
  BY <1>9, <1>10

(* A sender on its way round the storage PEs.  What it has sent to each of *)
(* them stays the same, and so do its reservations, but for the call.      *)
LEMMA SendMove ==
    ASSUME IInv, NEW p \in PEs, NEW from, NEW i \in 0 .. Spares, SendFrom(p, from, i),
           pc[p] # "done", UNCHANGED <<progress, pes>>,
           p \in view[p].active, stage.op \in {"reserve", "checkpoint"},
           (from = "call" /\ i = 0) \/ (from \in {"signal", "set"} /\ i = at[p] + 1)
    PROVE  /\ pc' \in [PEs' -> Places] /\ SendingTyped'
           /\ Placed' /\ Parts' /\ Views' /\ Numbers' /\ Calls'
           /\ \A q \in PEs : ReservedOwn(q)' =
                ReservedOwn(q) + IF q = p /\ pc[p] = "call" /\ stage.op = "reserve" THEN 1 ELSE 0
           /\ \A r \in Rows, s \in Storing : Sent(r, s)' = Sent(r, s)
           /\ \A q \in PEs : pc'[q] \in {"rclear", "cwait", "cloop"} => pc'[q] = pc[q]
<1> USE DEF progress, pes
<1>1. /\ program' = program /\ PEs' = PEs /\ Storing' = Storing
      /\ Spares' = Spares /\ Regions' = Regions
  BY Frame
<1>2. /\ Originals \in Nat \ {0} /\ Spares \in Nat \ {0} /\ Regions \in Nat \ {0}
      /\ calls \in [PEs -> 0 .. Regions] /\ at \in [PEs -> 0 .. Spares - 1]
      /\ pc \in [PEs -> Places] /\ Rows \subseteq PEs
      /\ \A s \in Storing : s \in Nat /\ Originals <= s /\ s < Originals + Spares
  BY Constants, Numbering DEF IInv, Typed, ProgressTyped, SendingTyped, PesTyped
<1>3. /\ pc[p] = from /\ pc' = [pc EXCEPT ![p] = pc'[p]] /\ pc'[p] \in {"send", "call", "done"}
      /\ calls' = [calls EXCEPT ![p] = calls'[p]] /\ calls'[p] \in 0 .. Regions
      /\ at' = [at EXCEPT ![p] = at'[p]] /\ at'[p] \in 0 .. Spares - 1
      /\ stage.op # "reserve" => calls'[p] = calls[p] /\ pc'[p] \in {"send", "done"}
      /\ stage.op = "reserve" /\ i < Spares =>
           calls'[p] = calls[p] /\ pc'[p] = "send" /\ at'[p] = i
      /\ stage.op = "reserve" /\ i = Spares =>
           /\ calls'[p] = calls[p] + 1 /\ at'[p] = at[p]
           /\ pc'[p] = IF calls'[p] < Regions THEN "call" ELSE "done"
  BY NextTarget DEF IInv
<1>4. \A q \in PEs \ {p} : pc'[q] = pc[q] /\ calls'[q] = calls[q] /\ at'[q] = at[q]
  BY <1>2, <1>3
<1>5. pc' \in [PEs' -> Places] /\ SendingTyped'
  <2>1. calls' \in [PEs -> 0 .. Regions] /\ at' \in [PEs -> 0 .. Spares - 1]
    BY <1>2, <1>3
  <2>2. pc' \in [PEs -> Places]
    BY <1>2, <1>3 DEF Places
  <2>3. QED
    BY <1>1, <2>1, <2>2 DEF SendingTyped
<1>6. Placed' /\ Parts' /\ Views' /\ Numbers'
  <2>1. MayBe(p, pc'[p])
    <3>1. p \in alive
      BY InCallAlive DEF IInv
    <3>2. QED
      BY <1>3, <3>1 DEF MayBe, Sender, Filer
  <2>2. QED
    BY <1>4, <2>1, Move DEF IInv
<1>7. Calls'
  <2>1. Calls /\ calls[p] <= Regions
    BY <1>2 DEF IInv
  <2>2. stage.op = "reserve" => calls[p] < Regions
    BY <2>1 DEF Calls
  <2>3. stage.op = "reserve" =>
            IF pc'[p] = "done" THEN calls'[p] = Regions ELSE calls'[p] < Regions
    BY <1>2, <1>3, <2>2
  <2>4. QED
    BY <1>1, <1>3, <1>4, <2>1, <2>3 DEF Calls
<1>8. ASSUME NEW q \in PEs
      PROVE  ReservedOwn(q)' =
               ReservedOwn(q) + IF q = p /\ pc[p] = "call" /\ stage.op = "reserve" THEN 1 ELSE 0
  <2>1. CASE q = p
    BY <1>2, <1>3, <2>1 DEF ReservedOwn, Sender
  <2>2. CASE q # p
    BY <1>2, <1>4, <2>2 DEF ReservedOwn
  <2>3. QED
    BY <2>1, <2>2
<1>9. ASSUME NEW r \in Rows, NEW s \in Storing
      PROVE  Sent(r, s)' = Sent(r, s)
  <2>1. CASE r # p
    BY <1>1, <1>2, <1>4, <2>1 DEF Sent, cpr_storage_pes
  <2>2. CASE r = p /\ stage.op = "reserve"
    <3>1. Sent(p, s) = calls[p] + IF from \in {"signal", "set"} /\ Originals + at[p] >= s THEN 1 ELSE 0
      BY <1>2, <1>3, <2>2 DEF Sent, cpr_storage_pes
    <3>2. Sent(p, s)' = calls'[p] + IF pc'[p] = "send" /\ Originals + at'[p] > s THEN 1 ELSE 0
      BY <1>2, <1>3, <2>2 DEF Sent, cpr_storage_pes
    <3>3. QED
      BY <1>2, <1>3, <2>2, <3>1, <3>2
  <2>3. CASE stage.op # "reserve"
    BY <1>1, <2>3 DEF Sent
  <2>4. QED
    BY <2>1, <2>2, <2>3
<1>10. \A q \in PEs : pc'[q] \in {"rclear", "cwait", "cloop"} => pc'[q] = pc[q]
  BY <1>3, <1>4
<1>11. QED
  BY <1>5, <1>6, <1>7, <1>8, <1>9, <1>10

(* A sequence changed in some places has the length it had.                *)
LEMMA SeqExcept ==
    ASSUME NEW S, NEW sq \in Seq(S), NEW new \in [1 .. Len(sq) -> S]
    PROVE  new \in Seq(S) /\ Len(new) = Len(sq)
<1>1. Len(sq) \in Nat
  OBVIOUS
<1>2. new \in Seq(S)
  BY <1>1
<1>3. Len(new) = Len(sq)
  BY <1>1, <1>2
<1>4. QED
  BY <1>2, <1>3

(* What a step that leaves the rings of reservations and the tables alone  *)
(* has to show of the invariant when its PE is a sender.                   *)
LEMMA SenderKeeps ==
    ASSUME IInv, program' = program, stage' = stage, table' = table,
           \A s \in Storing : /\ queue'["resrv"][s].head = queue["resrv"][s].head
                              /\ queue'["resrv"][s].tail = queue["resrv"][s].tail
                              /\ queue'["resrv"][s].slots = queue["resrv"][s].slots,
           \A m : m.queue = "resrv" => (m \in posted' <=> m \in posted),
           \A r \in Rows, s \in Storing : Sent(r, s)' = Sent(r, s),
           \A q \in PEs : pc'[q] \in {"rclear", "cwait", "cloop"} => pc'[q] = pc[q]
    PROVE  TableTyped' /\ Rings' /\ RowsInOrder' /\ Drained'
<1>1. /\ PEs' = PEs /\ Storing' = Storing /\ Entry' = Entry /\ Storing \subseteq PEs
  BY Frame, Numbering DEF IInv, Typed, ProgressTyped
<1>2. TableTyped'
  BY <1>1 DEF IInv, Typed, TableTyped
<1>3. Rings'
  BY RingsKept DEF IInv
<1>4. RowsInOrder'
  BY <1>1 DEF IInv, RowsInOrder
<1>5. \A s \in Storing : Pending("resrv", s)' <=> Pending("resrv", s)
  BY DEF Pending
<1>6. Drained'
  BY <1>1, <1>5 DEF IInv, Drained
<1>7. QED
  BY <1>2, <1>3, <1>4, <1>6

(* A sender is at work in one of two stages, for a computing PE.           *)
LEMMA SenderMeans ==
    ASSUME Typed, Placed, Parts, Calls, NEW p \in PEs,
           pc[p] \in Sender \/ (pc[p] = "call" /\ role(p) = "active"),
           stage.op \in {"reserve", "checkpoint"}
    PROVE  /\ p \in alive /\ p \in view[p].active /\ part[p] \in Rows
           /\ stage.op = "reserve" => p \in Rows /\ calls[p] \in Ids
           /\ stage.op = "checkpoint" => stage.id \in Ids
<1>1. p \in alive /\ p \in view[p].active
  BY InCallAlive DEF MayBe, Sender, role, RoleOf
<1>2. stage.op = "checkpoint" => stage.id \in Ids
  BY StageMeans DEF Typed, ProgressTyped
<1>3. stage.op = "reserve" => p \in Rows /\ calls[p] < Regions
  BY <1>1 DEF Calls, Sender
<1>4. calls[p] \in 0 .. Regions /\ Regions \in Nat
  BY Constants DEF Typed, ProgressTyped, SendingTyped
<1>5. QED
  BY <1>1, <1>2, <1>3, <1>4 DEF Parts, Ids

(* The shadow memory grows by the region of the call, to whose id it had   *)
(* the length before.                                                      *)
LEMMA ReserveStep ==
    ASSUME IInv, NEW p \in PEs, Reserve(p)
    PROVE  IInv'
<1> USE DEF progress, pes
<1>1. /\ program' = program /\ stage' = stage /\ step' = step /\ alive' = alive
      /\ part' = part /\ view' = view /\ mem' = mem /\ queue' = queue
      /\ table' = table /\ posted' = posted
      /\ pc[p] = "call" /\ stage.op = "reserve" /\ role(p) = "active"
      /\ shadow' = [shadow EXCEPT ![p] = Append(@, NoData)]
      /\ shadow_mem_tail' = [shadow_mem_tail EXCEPT ![p] = @ + 1]
      /\ SendFrom(p, "call", 0)
  BY DEF Reserve
<1>2. 0 \in 0 .. Spares /\ Regions \in Nat
  BY Constants DEF IInv, Typed, ProgressTyped
<1>3. p \in view[p].active /\ p \in Rows /\ calls[p] \in Ids
  BY <1>1, SenderMeans DEF IInv
<1>4. /\ pc' \in [PEs' -> Places] /\ SendingTyped'
      /\ Placed' /\ Parts' /\ Views' /\ Numbers' /\ Calls'
      /\ \A q \in PEs : ReservedOwn(q)' =
           ReservedOwn(q) + IF q = p /\ pc[p] = "call" /\ stage.op = "reserve" THEN 1 ELSE 0
      /\ \A r \in Rows, s \in Storing : Sent(r, s)' = Sent(r, s)
      /\ \A q \in PEs : pc'[q] \in {"rclear", "cwait", "cloop"} => pc'[q] = pc[q]
  <2> HIDE DEF progress, pes
  <2>1. UNCHANGED <<progress, pes>>
    BY DEF Reserve
  <2>2. /\ SendFrom(p, "call", 0) /\ pc[p] # "done" /\ p \in view[p].active
        /\ stage.op \in {"reserve", "checkpoint"}
        /\ ("call" = "call" /\ 0 = 0) \/ ("call" \in {"signal", "set"} /\ 0 = at[p] + 1)
    BY <1>1, <1>3
  <2>3. QED
    BY <1>2, <2>1, <2>2, SendMove, Zenon
<1>5. TableTyped' /\ Rings' /\ RowsInOrder' /\ Drained'
  BY <1>1, <1>4, SenderKeeps
<1>6. /\ PEs' = PEs /\ Storing' = Storing /\ Regions' = Regions /\ Ids' = Ids /\ Data' = Data
      /\ Rows \subseteq PEs /\ Storing \subseteq PEs /\ Rows \intersect Storing = {}
  BY <1>1, Frame, Numbering DEF IInv, Typed, ProgressTyped
<1>7. shadow \in [PEs -> Seq(Data)] /\ shadow_mem_tail \in [PEs -> 0 .. Regions]
  BY DEF IInv, Typed, MemoryTyped
<1>8. Len(shadow[p]) = calls[p] /\ shadow_mem_tail[p] = calls[p]
  BY <1>1, <1>3, <1>6 DEF IInv, Shadows, ReservedOwn, Sender, Ids
<1>9. Shadows'
  <2>1. ASSUME NEW q \in PEs
        PROVE  /\ q \in Rows => /\ Len(shadow'[q]) = ReservedOwn(q)'
                                /\ shadow_mem_tail'[q] = ReservedOwn(q)'
               /\ q \in Storing => Len(shadow'[q]) <= Regions /\ shadow_mem_tail'[q] = 0
    <3>1. CASE q = p
      <4>1. Len(shadow'[p]) = calls[p] + 1 /\ shadow_mem_tail'[p] = calls[p] + 1
        BY <1>1, <1>7, <1>8
      <4>2. ReservedOwn(p)' = calls[p] + 1
        BY <1>1, <1>2, <1>3, <1>4 DEF ReservedOwn, Sender, Ids
      <4>3. QED
        BY <1>3, <1>6, <3>1, <4>1, <4>2
    <3>2. CASE q # p
      <4>1. shadow'[q] = shadow[q] /\ shadow_mem_tail'[q] = shadow_mem_tail[q]
        BY <1>1, <1>7, <3>2
      <4>2. q \in Rows => ReservedOwn(q)' = ReservedOwn(q)
        BY <1>1, <1>4, <1>7, <3>2 DEF IInv, Shadows
      <4>3. QED
        BY <4>1, <4>2 DEF IInv, Shadows
    <3>3. QED
      BY <3>1, <3>2
  <2>2. QED
    BY <1>6, <2>1 DEF Shadows
<1>10. Typed'
  <2>1. ProgressTyped' /\ PesTyped' /\ QueueTyped' /\ PostedTyped'
    BY <1>1, Frame DEF IInv, Typed, ProgressTyped, PesTyped, QueueTyped, PostedTyped
  <2>2. MemoryTyped'
    <3>1. shadow' \in [PEs -> Seq(Data)]
      BY <1>1, <1>7 DEF Data
    <3>2. shadow_mem_tail[p] + 1 \in 0 .. Regions
      BY <1>2, <1>3, <1>8 DEF Ids
    <3>3. shadow_mem_tail' \in [PEs -> 0 .. Regions]
      BY <1>1, <1>7, <3>2
    <3>4. mem' \in [PEs -> [Ids -> Data]]
      BY <1>1 DEF IInv, Typed, MemoryTyped
    <3>5. QED
      BY <1>6, <3>1, <3>3, <3>4 DEF MemoryTyped
  <2>3. QED
    BY <1>4, <1>5, <2>1, <2>2 DEF Typed
<1>11. QED
  BY <1>4, <1>5, <1>9, <1>10 DEF IInv

(* The shadow memory gets the data of a region in its place.               *)
LEMMA CheckpointDataStep ==
    ASSUME IInv, NEW p \in PEs, CheckpointData(p)
    PROVE  IInv'
<1>1. /\ program' = program /\ stage' = stage /\ step' = step /\ alive' = alive
      /\ part' = part /\ view' = view /\ mem' = mem /\ shadow_mem_tail' = shadow_mem_tail
      /\ queue' = queue /\ table' = table /\ posted' = posted
      /\ pc[p] = "call" /\ stage.op = "checkpoint" /\ role(p) = "active"
      /\ shadow' = [shadow EXCEPT ![p][stage.id + 1] = mem[p][stage.id]]
      /\ SendFrom(p, "call", 0) /\ UNCHANGED <<progress, pes>>
  BY DEF CheckpointData, progress, pes
<1>2. 0 \in 0 .. Spares
  BY Constants DEF IInv, Typed, ProgressTyped
<1>3. p \in view[p].active /\ stage.id \in Ids
  BY <1>1, SenderMeans DEF IInv
<1>4. /\ pc' \in [PEs' -> Places] /\ SendingTyped'
      /\ Placed' /\ Parts' /\ Views' /\ Numbers' /\ Calls'
      /\ \A q \in PEs : ReservedOwn(q)' =
           ReservedOwn(q) + IF q = p /\ pc[p] = "call" /\ stage.op = "reserve" THEN 1 ELSE 0
      /\ \A r \in Rows, s \in Storing : Sent(r, s)' = Sent(r, s)
      /\ \A q \in PEs : pc'[q] \in {"rclear", "cwait", "cloop"} => pc'[q] = pc[q]
  <2>1. /\ SendFrom(p, "call", 0) /\ pc[p] # "done" /\ p \in view[p].active
        /\ stage.op \in {"reserve", "checkpoint"} /\ UNCHANGED <<progress, pes>>
        /\ ("call" = "call" /\ 0 = 0) \/ ("call" \in {"signal", "set"} /\ 0 = at[p] + 1)
    BY <1>1, <1>3
  <2>2. QED
    BY <1>2, <2>1, SendMove, Zenon
<1>5. TableTyped' /\ Rings' /\ RowsInOrder' /\ Drained'
  BY <1>1, <1>4, SenderKeeps
<1>6. /\ PEs' = PEs /\ Storing' = Storing /\ Regions' = Regions /\ Ids' = Ids /\ Data' = Data
      /\ Rows \subseteq PEs
  BY <1>1, Frame, Numbering DEF IInv, Typed, ProgressTyped
<1>7. /\ shadow \in [PEs -> Seq(Data)] /\ shadow_mem_tail \in [PEs -> 0 .. Regions]
      /\ mem \in [PEs -> [Ids -> Data]] /\ mem[p][stage.id] \in Data
  BY <1>3 DEF IInv, Typed, MemoryTyped
<1> DEFINE new == [shadow[p] EXCEPT ![stage.id + 1] = mem[p][stage.id]]
<1>8. new \in Seq(Data) /\ Len(new) = Len(shadow[p])
  <2>1. shadow[p] \in Seq(Data)
    BY <1>7
  <2>2. shadow[p] \in [1 .. Len(shadow[p]) -> Data]
    BY <2>1
  <2>3. new \in [1 .. Len(shadow[p]) -> Data]
    BY <1>7, <2>2
  <2> HIDE DEF new
  <2>4. QED
    BY <2>1, <2>3, SeqExcept
<1>9. shadow' = [shadow EXCEPT ![p] = new]
  BY <1>1
<1> HIDE DEF new
<1>10. shadow' \in [PEs -> Seq(Data)] /\ \A q \in PEs : Len(shadow'[q]) = Len(shadow[q])
  BY <1>7, <1>8, <1>9
<1>11. Shadows'
  <2>1. \A q \in Rows : ReservedOwn(q)' = ReservedOwn(q)
    <3>1. \A q \in Rows : Len(shadow[q]) = ReservedOwn(q) /\ Len(shadow[q]) \in Nat
      BY <1>6, <1>7 DEF IInv, Shadows
    <3>2. QED
      BY <1>1, <1>4, <1>6, <3>1
  <2>2. QED
    BY <1>1, <1>6, <1>10, <2>1 DEF IInv, Shadows
<1>12. Typed'
  <2>1. ProgressTyped' /\ PesTyped' /\ QueueTyped' /\ PostedTyped'
    BY <1>1, Frame DEF IInv, Typed, ProgressTyped, PesTyped, QueueTyped, PostedTyped
  <2>2. MemoryTyped'
    BY <1>1, <1>6, <1>7, <1>10 DEF MemoryTyped
  <2>3. QED
    BY <1>4, <1>5, <2>1, <2>2 DEF Typed
<1>13. QED
  BY <1>4, <1>5, <1>11, <1>12 DEF IInv

(* The carrier has been posted, so the loop goes on to the next storage    *)
(* PE.                                                                     *)
LEMMA TestSignalStep ==
    ASSUME IInv, NEW p \in PEs, TestSignal(p)
    PROVE  IInv'
<1>1. /\ program' = program /\ stage' = stage /\ step' = step /\ alive' = alive
      /\ part' = part /\ view' = view /\ mem' = mem /\ shadow' = shadow
      /\ shadow_mem_tail' = shadow_mem_tail
      /\ queue' = queue /\ table' = table /\ posted' = posted
      /\ pc[p] = "signal" /\ UNCHANGED <<progress, pes>>
  BY DEF TestSignal, progress, pes, memory
<1>2. /\ stage.op \in {"reserve", "checkpoint"} /\ p \in alive /\ p \in view[p].active
  BY <1>1, InCallAlive DEF IInv, MayBe, Sender
<1>3. /\ pc \in [PEs -> Places] /\ at \in [PEs -> 0 .. Spares - 1] /\ Spares \in Nat
      /\ calls \in [PEs -> 0 .. Regions]
  BY Constants DEF IInv, Typed, ProgressTyped, SendingTyped
<1>4. /\ PEs' = PEs /\ Storing' = Storing /\ Regions' = Regions /\ Spares' = Spares
      /\ Rows \subseteq PEs
  BY <1>1, Frame, Numbering DEF IInv, Typed, ProgressTyped
<1>5. /\ pc' \in [PEs' -> Places] /\ SendingTyped'
      /\ Placed' /\ Parts' /\ Views' /\ Numbers' /\ Calls'
      /\ \A q \in PEs : ReservedOwn(q)' =
           ReservedOwn(q) + IF q = p /\ pc[p] = "call" /\ stage.op = "reserve" THEN 1 ELSE 0
      /\ \A r \in Rows, s \in Storing : Sent(r, s)' = Sent(r, s)
      /\ \A q \in PEs : pc'[q] \in {"rclear", "cwait", "cloop"} => pc'[q] = pc[q]
  <2>1. CASE SendFrom(p, "signal", at[p] + 1)
    <3>1. at[p] + 1 \in 0 .. Spares
      BY <1>3
    <3>2. ("signal" = "call" /\ at[p] + 1 = 0)
          \/ ("signal" \in {"signal", "set"} /\ at[p] + 1 = at[p] + 1)
      OBVIOUS
    <3>3. pc[p] # "done"
      BY <1>1
    <3>4. QED
      BY <1>1, <1>2, <2>1, <3>1, <3>2, <3>3, SendMove
  <2>2. CASE Goto(p, "signal", "set") /\ UNCHANGED sending
    <3>1. /\ pc' = [pc EXCEPT ![p] = "set"] /\ pc'[p] = "set" /\ calls' = calls /\ at' = at
          /\ \A q \in PEs \ {p} : pc'[q] = pc[q]
      BY <1>3, <2>2 DEF Goto, sending
    <3>2. pc' \in [PEs' -> Places] /\ SendingTyped'
      BY <1>3, <1>4, <3>1 DEF Places, SendingTyped
    <3>3. MayBe(p, "set")
      BY <1>2 DEF MayBe, Sender, Filer
    <3>4. Placed' /\ Parts' /\ Views' /\ Numbers'
      BY <1>1, <3>1, <3>3, Move DEF IInv
    <3>5. Calls'
      BY <1>1, <1>4, <3>1 DEF IInv, Calls
    <3>6. \A q \in PEs : ReservedOwn(q)' = ReservedOwn(q) /\ ReservedOwn(q) \in Int
      BY <1>1, <1>3, <3>1 DEF ReservedOwn, Sender
    <3>7. \A r \in Rows, s \in Storing : Sent(r, s)' = Sent(r, s)
      BY <1>1, <1>4, <3>1 DEF Sent, cpr_storage_pes
    <3>8. QED
      BY <1>1, <3>1, <3>2, <3>4, <3>5, <3>6, <3>7
  <2>3. QED
    BY <2>1, <2>2 DEF TestSignal
<1>6. TableTyped' /\ Rings' /\ RowsInOrder' /\ Drained'
  BY <1>1, <1>5, SenderKeeps
<1>7. Shadows'
  <2>1. \A q \in Rows : ReservedOwn(q) \in Int
    BY <1>3, <1>4 DEF ReservedOwn
  <2>2. QED
    BY <1>1, <1>4, <1>5, <2>1 DEF IInv, Shadows
<1>8. Typed'
  <2>1. ProgressTyped' /\ PesTyped' /\ QueueTyped' /\ PostedTyped' /\ MemoryTyped'
    BY <1>1, Frame DEF IInv, Typed, ProgressTyped, PesTyped, QueueTyped, PostedTyped, MemoryTyped
  <2>2. QED
    BY <1>5, <1>6, <2>1 DEF Typed
<1>9. QED
  BY <1>5, <1>6, <1>7, <1>8 DEF IInv

(* Raising a signal changes nothing else of a ring.                        *)
LEMMA Signalled ==
    ASSUME QueueTyped, NEW k \in Queues, NEW s \in Storing, NEW v \in {0, 1},
           queue' = [queue EXCEPT ![k][s].sig = v]
    PROVE  /\ queue' \in [Queues -> [Storing -> Ring]]
           /\ \A l \in Queues, t \in Storing :
                /\ queue'[l][t].head = queue[l][t].head
                /\ queue'[l][t].tail = queue[l][t].tail
                /\ queue'[l][t].slots = queue[l][t].slots
<1> DEFINE ring == [queue[k][s] EXCEPT !.sig = v]
<1>1. queue[k][s] \in Ring
  BY DEF QueueTyped
<1>2. /\ ring \in Ring /\ ring.head = queue[k][s].head
      /\ ring.tail = queue[k][s].tail /\ ring.slots = queue[k][s].slots
  BY <1>1 DEF Ring
<1>3. queue' = [queue EXCEPT ![k] = [queue[k] EXCEPT ![s] = ring]]
  OBVIOUS
<1> HIDE DEF ring
<1>4. /\ queue' \in [Queues -> [Storing -> Ring]] /\ queue'[k][s] = ring
      /\ \A l \in Queues, t \in Storing : l # k \/ t # s => queue'[l][t] = queue[l][t]
  BY <1>2, <1>3 DEF QueueTyped
<1>5. QED
  BY <1>2, <1>4

(* So it does when the signal has been raised first.                       *)
LEMMA SetSignalStep ==
    ASSUME IInv, NEW p \in PEs, SetSignal(p)
    PROVE  IInv'
<1>1. /\ program' = program /\ stage' = stage /\ step' = step /\ alive' = alive
      /\ part' = part /\ view' = view /\ mem' = mem /\ shadow' = shadow
      /\ shadow_mem_tail' = shadow_mem_tail
      /\ table' = table /\ posted' = posted
      /\ queue' = [queue EXCEPT ![Kind][cpr_storage_pes(at[p])].sig = 1]
      /\ pc[p] = "set" /\ SendFrom(p, "set", at[p] + 1) /\ UNCHANGED <<progress, pes>>
  BY DEF SetSignal, progress, pes, memory
<1>2. /\ stage.op \in {"reserve", "checkpoint"} /\ p \in alive /\ p \in view[p].active
  BY <1>1, InCallAlive DEF IInv, MayBe, Sender
<1>3. /\ at \in [PEs -> 0 .. Spares - 1] /\ Spares \in Nat /\ calls \in [PEs -> 0 .. Regions]
  BY Constants DEF IInv, Typed, ProgressTyped, SendingTyped
<1>4. /\ PEs' = PEs /\ Storing' = Storing /\ Regions' = Regions /\ Ring' = Ring
      /\ Rows \subseteq PEs /\ cpr_storage_pes(at[p]) \in Storing
  BY <1>1, <1>3, Frame, Numbering DEF IInv, Typed, ProgressTyped
<1>5. /\ pc' \in [PEs' -> Places] /\ SendingTyped'
      /\ Placed' /\ Parts' /\ Views' /\ Numbers' /\ Calls'
      /\ \A q \in PEs : ReservedOwn(q)' =
           ReservedOwn(q) + IF q = p /\ pc[p] = "call" /\ stage.op = "reserve" THEN 1 ELSE 0
      /\ \A r \in Rows, s \in Storing : Sent(r, s)' = Sent(r, s)
      /\ \A q \in PEs : pc'[q] \in {"rclear", "cwait", "cloop"} => pc'[q] = pc[q]
  <2>1. at[p] + 1 \in 0 .. Spares
    BY <1>3
  <2>2. ("set" = "call" /\ at[p] + 1 = 0) \/ ("set" \in {"signal", "set"} /\ at[p] + 1 = at[p] + 1)
    OBVIOUS
  <2>3. pc[p] # "done"
    BY <1>1
  <2>4. QED
    BY <1>1, <1>2, <2>1, <2>2, <2>3, SendMove
<1>6. /\ queue' \in [Queues -> [Storing -> Ring]]
      /\ \A l \in Queues, t \in Storing :
            /\ queue'[l][t].head = queue[l][t].head
            /\ queue'[l][t].tail = queue[l][t].tail
            /\ queue'[l][t].slots = queue[l][t].slots
  <2>1. Kind \in Queues /\ 1 \in {0, 1} /\ QueueTyped
    BY DEF Kind, Queues, IInv, Typed
  <2>2. QED
    BY <1>1, <1>4, <2>1, Signalled
<1>7. TableTyped' /\ Rings' /\ RowsInOrder' /\ Drained'
  BY <1>1, <1>5, <1>6, SenderKeeps DEF Queues
<1>8. Shadows'
  <2>1. \A q \in Rows : ReservedOwn(q) \in Int
    BY <1>3, <1>4 DEF ReservedOwn
  <2>2. QED
    BY <1>1, <1>4, <1>5, <2>1 DEF IInv, Shadows
<1>9. Typed'
  <2>1. ProgressTyped' /\ PesTyped' /\ PostedTyped' /\ MemoryTyped'
    BY <1>1, Frame DEF IInv, Typed, ProgressTyped, PesTyped, PostedTyped, MemoryTyped
  <2>2. QueueTyped'
    BY <1>4, <1>6 DEF QueueTyped
  <2>3. QED
    BY <1>5, <1>7, <2>1, <2>2 DEF Typed
<1>10. QED
  BY <1>5, <1>7, <1>8, <1>9 DEF IInv

-----------------------------------------------------------------------------
(* A ring of reservations has room for one that has not been sent: no two  *)
(* of its carriers are for the same region of the same PE.                 *)
LEMMA Room ==
    ASSUME Typed, NEW s \in Storing, SlotsClaimed("resrv", s), Reservations(s),
           NEW p \in Rows, Sent(p, s) \in Ids
    PROVE  queue["resrv"][s].tail \in 0 .. QueueLen - 1
<1> DEFINE claimed == Claimed("resrv", s)
           tail == queue["resrv"][s].tail
           AtSlot(i) == CHOOSE x \in claimed : x.slot = i
           pair == [i \in 0 .. tail |->
                     IF i < tail THEN <<AtSlot(i).carrier.pe_num, AtSlot(i).carrier.id>>
                                 ELSE <<p, Sent(p, s)>>]
<1>1. tail \in Nat
  BY DEF Typed, QueueTyped, Ring, Queues
<1>2. \A x \in claimed : x.carrier.pe_num \in Rows /\ x.carrier.id \in Ids /\ x.slot \in Nat
  BY Constants DEF Claimed, Carriers, Slots, Typed, ProgressTyped
<1>3. \A i \in 0 .. tail - 1 : AtSlot(i) \in claimed /\ AtSlot(i).slot = i
  <2>1. SUFFICES ASSUME NEW i \in 0 .. tail - 1
                 PROVE  AtSlot(i) \in claimed /\ AtSlot(i).slot = i
    OBVIOUS
  <2>2. \E x \in claimed : x.slot = i
    BY DEF SlotsClaimed
  <2> HIDE DEF claimed
  <2>3. QED
    BY <2>2
<1>4. \A x, y \in claimed :
        x.carrier.pe_num = y.carrier.pe_num /\ x.slot < y.slot => x.carrier.id < y.carrier.id
  BY DEF Reservations
<1>5. \A x \in claimed : x.carrier.id < Sent(x.carrier.pe_num, s)
  BY DEF Reservations
<1> HIDE DEF claimed, tail, AtSlot
<1>6. pair \in [0 .. tail -> Rows \X Ids]
  BY <1>1, <1>2, <1>3
<1>7. ASSUME NEW i \in 0 .. tail, NEW j \in 0 .. tail, i < j
      PROVE  pair[i] # pair[j]
  <2>1. pair[i] = <<AtSlot(i).carrier.pe_num, AtSlot(i).carrier.id>> /\ i \in 0 .. tail - 1
    BY <1>1, <1>7
  <2>2. CASE j < tail
    <3>1. pair[j] = <<AtSlot(j).carrier.pe_num, AtSlot(j).carrier.id>> /\ j \in 0 .. tail - 1
      BY <1>1, <2>2
    <3>2. AtSlot(i).carrier.pe_num = AtSlot(j).carrier.pe_num
            => AtSlot(i).carrier.id < AtSlot(j).carrier.id
      BY <1>3, <1>4, <1>7, <2>1, <3>1
    <3>3. AtSlot(i).carrier.id \in Int /\ AtSlot(j).carrier.id \in Int
      BY <1>2, <1>3, <2>1, <3>1 DEF Ids
    <3>4. QED
      BY <2>1, <3>1, <3>2, <3>3
  <2>3. CASE j = tail
    <3>1. pair[j] = <<p, Sent(p, s)>>
      BY <1>1, <2>3
    <3>2. AtSlot(i).carrier.pe_num = p => AtSlot(i).carrier.id < Sent(p, s)
      BY <1>3, <1>5, <2>1
    <3>3. AtSlot(i).carrier.id \in Int /\ Sent(p, s) \in Int
      BY <1>2, <1>3, <2>1 DEF Ids
    <3>4. QED
      BY <2>1, <3>1, <3>2, <3>3
  <2>4. QED
    BY <1>1, <2>2, <2>3
<1>8. pair \in Injection(0 .. tail, Rows \X Ids)
  <2> HIDE DEF pair
  <2>1. \A i, j \in 0 .. tail : pair[i] = pair[j] => i = j
    BY <1>1, <1>7
  <2>2. QED
    BY <1>6, <2>1 DEF Injection, IsInjective
<1>9. IsFiniteSet(Rows \X Ids) /\ Cardinality(Rows \X Ids) = Originals * Regions
  <2>1. Originals \in Nat \ {0} /\ Regions \in Nat \ {0}
    BY Constants DEF Typed, ProgressTyped
  <2>2. IsFiniteSet(Rows) /\ Cardinality(Rows) = Originals
    BY <2>1, FS_Interval DEF Rows
  <2>3. IsFiniteSet(Ids) /\ Cardinality(Ids) = Regions
    BY <2>1, FS_Interval DEF Ids
  <2>4. QED
    BY <2>2, <2>3, FS_Product
<1>10. Cardinality(0 .. tail) = tail + 1
  BY <1>1, FS_Interval
<1>11. tail + 1 <= Originals * Regions
  <2> HIDE DEF pair
  <2>1. Cardinality(0 .. tail) <= Cardinality(Rows \X Ids)
    BY <1>8, <1>9, FS_Injection
  <2>2. QED
    BY <1>9, <1>10, <2>1
<1>12. QED
  BY <1>1, <1>11, Constants DEF tail, Typed, ProgressTyped

(* What a fetch and increment of the tail, with the put, does to the rings.*)
LEMMA SendMeans ==
    ASSUME IInv, NEW p \in PEs, Send(p)
    PROVE  LET s == cpr_storage_pes(at[p])
               slot == queue[Kind][s].tail % QueueLen
               m == [to |-> s, queue |-> Kind, carrier |-> Carrier(p), slot |-> slot]
           IN  /\ s \in Storing /\ Kind \in Queues /\ Carrier(p) \in Carriers /\ slot \in Slots
               /\ posted' = posted \union {m}
               /\ queue' \in [Queues -> [Storing -> Ring]]
               /\ \A l \in Queues, t \in Storing :
                    /\ queue'[l][t].head = queue[l][t].head
                    /\ queue'[l][t].slots = queue[l][t].slots
                    /\ queue'[l][t].tail = queue[l][t].tail + IF l = Kind /\ t = s THEN 1 ELSE 0
<1> DEFINE s == cpr_storage_pes(at[p])
           slot == queue[Kind][s].tail % QueueLen
           m == [to |-> s, queue |-> Kind, carrier |-> Carrier(p), slot |-> slot]
           ring == [queue[Kind][s] EXCEPT !.tail = @ + 1]
<1>1. pc[p] = "send" /\ stage.op \in {"reserve", "checkpoint"}
  BY InCallAlive DEF IInv, Send, Goto, MayBe, Sender
<1>2. /\ p \in alive /\ p \in view[p].active /\ part[p] \in Rows
      /\ stage.op = "reserve" => p \in Rows /\ calls[p] \in Ids
      /\ stage.op = "checkpoint" => stage.id \in Ids
  BY <1>1, SenderMeans DEF IInv, Sender
<1>3. Carrier(p) \in Carriers
  <2>1. mem \in [PEs -> [Ids -> Data]] /\ NoData \in Data
    BY DEF IInv, Typed, MemoryTyped, Data
  <2>2. QED
    BY <1>1, <1>2, <2>1 DEF Carrier, Carriers
<1>4. s \in Storing /\ Kind \in Queues
  BY Numbering DEF IInv, Typed, ProgressTyped, SendingTyped, Kind, Queues
<1>5. queue \in [Queues -> [Storing -> Ring]] /\ queue[Kind][s] \in Ring
  BY <1>4 DEF IInv, Typed, QueueTyped
<1>6. slot \in Slots
  <2>1. queue[Kind][s].tail \in Nat
    BY <1>5 DEF Ring
  <2>2. QueueLen \in Nat \ {0}
    BY Constants DEF IInv, Typed, ProgressTyped
  <2>3. QED
    BY <2>1, <2>2 DEF Slots
<1>7. /\ ring \in Ring /\ ring.head = queue[Kind][s].head
      /\ ring.tail = queue[Kind][s].tail + 1 /\ ring.slots = queue[Kind][s].slots
  BY <1>5 DEF Ring
<1>8. queue' = [queue EXCEPT ![Kind] = [queue[Kind] EXCEPT ![s] = ring]] /\ posted' = posted \union {m}
  BY DEF Send
<1>9. \A l \in Queues, t \in Storing : queue[l][t].tail \in Int
  BY <1>5 DEF Ring
<1> HIDE DEF ring, s, slot, m
<1>10. /\ queue' \in [Queues -> [Storing -> Ring]] /\ queue'[Kind][s] = ring
       /\ \A l \in Queues, t \in Storing : l # Kind \/ t # s => queue'[l][t] = queue[l][t]
  BY <1>4, <1>5, <1>7, <1>8
<1>11. \A l \in Queues, t \in Storing :
          /\ queue'[l][t].head = queue[l][t].head
          /\ queue'[l][t].slots = queue[l][t].slots
          /\ queue'[l][t].tail = queue[l][t].tail + IF l = Kind /\ t = s THEN 1 ELSE 0
  BY <1>7, <1>9, <1>10
<1>12. QED
  BY <1>3, <1>4, <1>6, <1>8, <1>10, <1>11 DEF s, slot, m

(* The carriers of a ring stay the same when its slots do and what is on   *)
(* its way to it.                                                          *)
LEMMA ClaimedKept ==
    ASSUME program' = program, NEW k \in Queues, NEW s \in Storing,
           /\ queue'[k][s].head = queue[k][s].head /\ queue'[k][s].tail = queue[k][s].tail
           /\ queue'[k][s].slots = queue[k][s].slots,
           \A m : m.to = s /\ m.queue = k => (m \in posted' <=> m \in posted)
    PROVE  Claimed(k, s)' = Claimed(k, s) /\ (SlotsClaimed(k, s) => SlotsClaimed(k, s)')
<1>1. Carriers' = Carriers
  BY Frame
<1>2. \A x : [to |-> s, queue |-> k, slot |-> x.slot, carrier |-> x.carrier] \in posted'
         <=> [to |-> s, queue |-> k, slot |-> x.slot, carrier |-> x.carrier] \in posted
  OBVIOUS
<1>3. Claimed(k, s)' = Claimed(k, s)
  BY <1>1, <1>2 DEF Claimed
<1>4. QED
  BY <1>3 DEF SlotsClaimed

(* A slot that is claimed is the next of the ring, while the ring has one. *)
LEMMA ClaimSlot ==
    ASSUME Typed, program' = program, NEW k \in Queues, NEW s \in Storing, NEW c \in Carriers,
           SlotsClaimed(k, s), queue[k][s].tail \in 0 .. QueueLen - 1,
           posted' = posted \union {[to |-> s, queue |-> k, carrier |-> c,
                                     slot |-> queue[k][s].tail % QueueLen]},
           queue'[k][s].head = queue[k][s].head, queue'[k][s].slots = queue[k][s].slots,
           queue'[k][s].tail = queue[k][s].tail + 1
    PROVE  /\ Claimed(k, s)' = Claimed(k, s) \union {[slot |-> queue[k][s].tail, carrier |-> c]}
           /\ SlotsClaimed(k, s)'
<1> DEFINE tail == queue[k][s].tail
           new == [slot |-> tail, carrier |-> c]
<1>1. Carriers' = Carriers /\ QueueLen \in Nat \ {0}
  BY Frame, Constants DEF Typed, ProgressTyped
<1>2. tail % QueueLen = tail /\ tail \in Slots /\ tail \in 0 .. QueueLen - 1
  BY <1>1 DEF Slots
<1>3. queue[k][s] \in Ring
  BY DEF Typed, QueueTyped
<1>4. Claimed(k, s)' = Claimed(k, s) \union {new}
  <2>1. new \in [slot : Slots, carrier : Carriers]
    BY <1>2
  <2>2. ASSUME NEW x \in [slot : Slots, carrier : Carriers]
        PROVE  [to |-> s, queue |-> k, slot |-> x.slot, carrier |-> x.carrier] \in posted'
          <=> \/ [to |-> s, queue |-> k, slot |-> x.slot, carrier |-> x.carrier] \in posted
              \/ x = new
    <3>1. x = [slot |-> x.slot, carrier |-> x.carrier]
      OBVIOUS
    <3>2. QED
      BY <1>2, <3>1
  <2>3. QED
    BY <1>1, <2>1, <2>2 DEF Claimed
<1>5. queue[k][s].slots[tail] = Empty
  <2>1. SUFFICES ASSUME queue[k][s].slots[tail] # Empty
                 PROVE  FALSE
    OBVIOUS
  <2>2. queue[k][s].slots[tail] \in Carriers
    BY <1>2, <1>3, <2>1 DEF Ring
  <2>3. [slot |-> tail, carrier |-> queue[k][s].slots[tail]] \in Claimed(k, s)
    BY <1>2, <2>2 DEF Claimed
  <2>4. QED
    BY <1>2, <2>3 DEF SlotsClaimed
<1>6. \A x \in Claimed(k, s) : x.slot \in Nat
  BY <1>1 DEF Claimed, Slots
<1>7. SlotsClaimed(k, s)'
  <2>1. /\ queue'[k][s].head = queue[k][s].head /\ queue[k][s].head \in Nat
        /\ queue'[k][s].tail = tail + 1 /\ queue'[k][s].slots = queue[k][s].slots
    BY <1>3 DEF Ring
  <2>2. /\ queue[k][s].head <= tail
        /\ \A x \in Claimed(k, s) : x.slot < tail
        /\ \A i \in 0 .. tail - 1 : \E x \in Claimed(k, s) : x.slot = i
        /\ \A x, y \in Claimed(k, s) : x.slot = y.slot => x = y
        /\ \A m \in posted : m.to = s /\ m.queue = k => queue[k][s].slots[m.slot] = Empty
    BY DEF SlotsClaimed
  <2>3. new.slot = tail
    OBVIOUS
  <2>4. posted' = posted \union {[to |-> s, queue |-> k, carrier |-> c, slot |-> tail]}
    BY <1>2
  <2> HIDE DEF tail, new
  <2>5. /\ \A x \in Claimed(k, s)' : x.slot < tail + 1
        /\ \A i \in 0 .. tail : \E x \in Claimed(k, s)' : x.slot = i
        /\ \A x, y \in Claimed(k, s)' : x.slot = y.slot => x = y
    BY <1>2, <1>4, <1>6, <2>2, <2>3
  <2>6. \A m \in posted' : m.to = s /\ m.queue = k => queue[k][s].slots[m.slot] = Empty
    BY <1>5, <2>2, <2>4
  <2>7. QED
    BY <1>2, <2>1, <2>2, <2>5, <2>6 DEF SlotsClaimed
<1>8. QED
  BY <1>4, <1>7

(* A reservation is sent.                                                  *)
LEMMA SendRings ==
    ASSUME IInv, NEW p \in PEs, Send(p), stage.op = "reserve"
    PROVE  Rings'
<1> SUFFICES ASSUME NEW s, s = cpr_storage_pes(at[p])
             PROVE  Rings'
  OBVIOUS
<1> DEFINE tail == queue["resrv"][s].tail
           c == Carrier(p)
           new == [slot |-> tail, carrier |-> c]
<1>1. program' = program /\ stage' = stage /\ calls' = calls /\ at' = at /\ table' = table
      /\ pc[p] = "send" /\ pc' = [pc EXCEPT ![p] = "signal"]
  BY DEF Send, Goto, progress, sending
<1>2. /\ Storing' = Storing /\ Carriers' = Carriers /\ Ids' = Ids /\ Rows \subseteq PEs
      /\ \A t \in Storing : t \in Nat
      /\ Originals \in Nat \ {0} /\ Regions \in Nat \ {0} /\ QueueLen \in Nat \ {0}
  BY <1>1, Frame, Numbering, Constants DEF IInv, Typed, ProgressTyped
<1>3. /\ pc \in [PEs -> Places] /\ calls \in [PEs -> 0 .. Regions] /\ at \in [PEs -> 0 .. Spares - 1]
  BY DEF IInv, Typed, SendingTyped
<1>4. p \in Rows /\ calls[p] \in Ids /\ part[p] = p /\ calls[p] \in Nat
  <2>1. p \in Rows /\ calls[p] \in Ids
    BY <1>1, SenderMeans DEF IInv, Sender
  <2>2. QED
    BY <1>2, <1>3, <2>1 DEF IInv, Calls
<1>5. c.pe_num = p /\ c.id = calls[p]
  BY <1>4 DEF Carrier
<1>6. /\ s \in Storing /\ c \in Carriers
      /\ posted' = posted \union {[to |-> s, queue |-> "resrv", carrier |-> c,
                                   slot |-> tail % QueueLen]}
      /\ \A t \in Storing :
           /\ queue'["resrv"][t].head = queue["resrv"][t].head
           /\ queue'["resrv"][t].slots = queue["resrv"][t].slots
           /\ queue'["resrv"][t].tail = queue["resrv"][t].tail + IF t = s THEN 1 ELSE 0
  BY SendMeans DEF Kind, Queues
<1>7. \A r \in Rows, t \in Storing :
        Sent(r, t)' = Sent(r, t) + IF r = p /\ t = s THEN 1 ELSE 0
  <2>1. SUFFICES ASSUME NEW r \in Rows, NEW t \in Storing
                 PROVE  Sent(r, t)' = Sent(r, t) + IF r = p /\ t = s THEN 1 ELSE 0
    OBVIOUS
  <2>2. CASE r = p
    <3>1. Sent(p, t) = calls[p] + IF s > t THEN 1 ELSE 0
      BY <1>1 DEF Sent
    <3>2. Sent(p, t)' = calls[p] + IF s >= t THEN 1 ELSE 0
      BY <1>1, <1>3 DEF Sent, cpr_storage_pes
    <3>3. QED
      BY <1>2, <1>4, <1>6, <2>2, <3>1, <3>2
  <2>3. CASE r # p
    <3>1. pc'[r] = pc[r] /\ calls[r] \in Nat
      BY <1>1, <1>2, <1>3, <2>3
    <3>2. QED
      BY <1>1, <2>3, <3>1 DEF Sent, cpr_storage_pes
  <2>4. QED
    BY <2>2, <2>3
<1>8. Sent(p, s) = calls[p]
  BY <1>1, <1>2, <1>4, <1>6 DEF Sent
<1>9. \A t \in Storing : SlotsClaimed("resrv", t) /\ Reservations(t)
  BY DEF IInv, Rings
<1>10. tail \in 0 .. QueueLen - 1
  BY <1>4, <1>6, <1>8, <1>9, Room DEF IInv
<1>11. ASSUME NEW t \in Storing, t # s
       PROVE  Claimed("resrv", t)' = Claimed("resrv", t) /\ SlotsClaimed("resrv", t)'
  <2>1. \A m : m.to = t /\ m.queue = "resrv" => (m \in posted' <=> m \in posted)
    BY <1>6, <1>11
  <2>2. queue'["resrv"][t].tail = queue["resrv"][t].tail
    BY <1>6, <1>11 DEF IInv, Typed, QueueTyped, Ring, Queues
  <2>3. QED
    BY <1>1, <1>6, <1>9, <2>1, <2>2, ClaimedKept DEF Queues
<1>12. Claimed("resrv", s)' = Claimed("resrv", s) \union {new} /\ SlotsClaimed("resrv", s)'
  <2>1. "resrv" \in Queues /\ SlotsClaimed("resrv", s) /\ queue'["resrv"][s].tail = tail + 1
    BY <1>6, <1>9 DEF Queues
  <2>2. QED
    BY <1>1, <1>6, <1>10, <2>1, ClaimSlot DEF IInv
<1>13. queue["resrv"][s] \in Ring
  BY <1>6 DEF IInv, Typed, QueueTyped, Queues
<1>14. \A t \in Storing : \A x \in Claimed("resrv", t) :
          x.carrier.pe_num \in Rows /\ x.carrier.id \in Nat /\ x.slot \in Nat
  BY <1>2 DEF Claimed, Carriers, Slots, Ids
<1> HIDE DEF tail, c, new
<1>15. ASSUME NEW t \in Storing, t # s
       PROVE  Reservations(t)'
  <2>1. \A r \in Rows : Sent(r, t) \in Int
    BY <1>2, <1>3 DEF Sent
  <2>2. \A r \in Rows : Sent(r, t)' = Sent(r, t)
    BY <1>7, <1>15, <2>1
  <2>3. QED
    BY <1>1, <1>6, <1>9, <1>11, <1>14, <1>15, <2>2 DEF Reservations
<1>16. Reservations(s)'
  <2>1. /\ new.slot = tail /\ new.carrier.pe_num = p /\ new.carrier.id = calls[p]
        /\ tail = queue["resrv"][s].tail
    BY <1>5 DEF new, tail
  <2>2. \A r \in Rows : Sent(r, s)' = Sent(r, s) + IF r = p THEN 1 ELSE 0
    BY <1>6, <1>7
  <2>3. \A r \in Rows : Sent(r, s) \in Nat
    BY <1>2, <1>3 DEF Sent
  <2>4. Reservations(s) /\ SlotsClaimed("resrv", s)
    BY <1>6, <1>9
  <2>5. \A x \in Claimed("resrv", s)' : x.carrier.id < Sent(x.carrier.pe_num, s)'
    BY <1>4, <1>6, <1>8, <1>12, <1>14, <2>1, <2>2, <2>3, <2>4 DEF Reservations
  <2>6. ASSUME NEW r \in Rows, NEW n \in 0 .. Sent(r, s)' - 1
        PROVE  \E x \in Claimed("resrv", s)' : x.carrier.pe_num = r /\ x.carrier.id = n
    <3>1. CASE n \in 0 .. Sent(r, s) - 1
      BY <1>12, <2>4, <3>1 DEF Reservations
    <3>2. CASE n \notin 0 .. Sent(r, s) - 1
      <4>1. r = p /\ n = calls[p]
        BY <1>8, <2>2, <2>3, <2>6, <3>2
      <4>2. QED
        BY <1>12, <2>1, <4>1
    <3>3. QED
      BY <3>1, <3>2
  <2>7. ASSUME NEW x \in Claimed("resrv", s)', NEW y \in Claimed("resrv", s)',
               x.carrier.pe_num = y.carrier.pe_num, x.slot < y.slot
        PROVE  x.carrier.id < y.carrier.id
    <3>1. \A z \in Claimed("resrv", s) : z.slot < tail
      BY <2>1, <2>4 DEF SlotsClaimed
    <3>2. x # new
      BY <1>6, <1>10, <1>12, <1>14, <2>1, <2>7, <3>1
    <3>3. CASE y = new
      BY <1>8, <1>12, <2>1, <2>4, <2>7, <3>2, <3>3 DEF Reservations
    <3>4. CASE y # new
      BY <1>12, <2>4, <2>7, <3>2, <3>4 DEF Reservations
    <3>5. QED
      BY <3>3, <3>4
  <2>8. ASSUME NEW x \in Claimed("resrv", s)'
        PROVE  x.slot < queue["resrv"][s].head <=> x.carrier.id < Len(table[s][x.carrier.pe_num])
    <3>1. CASE x = new
      <4>1. queue["resrv"][s].head <= tail /\ queue["resrv"][s].head \in Nat
        BY <1>13, <2>1, <2>4 DEF SlotsClaimed, Ring
      <4>2. Len(table[s][p]) <= calls[p] /\ Len(table[s][p]) \in Nat
        BY <1>4, <1>6, <1>8, <2>4 DEF Reservations, IInv, Typed, TableTyped
      <4>3. QED
        BY <1>4, <1>10, <2>1, <3>1, <4>1, <4>2
    <3>2. CASE x \in Claimed("resrv", s)
      BY <2>4, <3>2 DEF Reservations
    <3>3. QED
      BY <1>12, <3>1, <3>2
  <2>9. \A r \in Rows : Len(table[s][r]) <= Sent(r, s)'
    <3>1. \A r \in Rows : Len(table[s][r]) \in Nat
      BY <1>6 DEF IInv, Typed, TableTyped
    <3>2. QED
      BY <2>2, <2>3, <2>4, <3>1 DEF Reservations
  <2>10. queue'["resrv"][s].head = queue["resrv"][s].head
    BY <1>6
  <2>11. QED
    BY <1>1, <2>5, <2>6, <2>7, <2>8, <2>9, <2>10 DEF Reservations
<1>17. QED
  BY <1>2, <1>6, <1>11, <1>12, <1>15, <1>16 DEF Rings

(* A slot is claimed and the carrier is on its way to it.                  *)
LEMMA SendStep ==
    ASSUME IInv, NEW p \in PEs, Send(p)
    PROVE  IInv'
<1>1. /\ program' = program /\ stage' = stage /\ step' = step /\ alive' = alive
      /\ calls' = calls /\ at' = at
      /\ part' = part /\ view' = view /\ mem' = mem /\ shadow' = shadow
      /\ shadow_mem_tail' = shadow_mem_tail /\ table' = table
      /\ pc[p] = "send" /\ pc' = [pc EXCEPT ![p] = "signal"] /\ UNCHANGED <<progress, pes>>
  BY DEF Send, Goto, progress, pes, memory, sending
<1>2. stage.op \in {"reserve", "checkpoint"} /\ p \in alive /\ p \in view[p].active
  BY <1>1, InCallAlive DEF IInv, MayBe, Sender
<1>3. /\ PEs' = PEs /\ Storing' = Storing /\ Regions' = Regions /\ Spares' = Spares
      /\ Ring' = Ring /\ Carriers' = Carriers /\ Rows \subseteq PEs /\ Storing \subseteq PEs
  BY <1>1, Frame, Numbering DEF IInv, Typed, ProgressTyped
<1> DEFINE s == cpr_storage_pes(at[p])
           slot == queue[Kind][s].tail % QueueLen
           m == [to |-> s, queue |-> Kind, carrier |-> Carrier(p), slot |-> slot]
<1>4. /\ s \in Storing /\ Kind \in Queues /\ Carrier(p) \in Carriers /\ slot \in Slots
      /\ posted' = posted \union {m}
      /\ queue' \in [Queues -> [Storing -> Ring]]
      /\ \A l \in Queues, t \in Storing :
           /\ queue'[l][t].head = queue[l][t].head
           /\ queue'[l][t].slots = queue[l][t].slots
           /\ queue'[l][t].tail = queue[l][t].tail + IF l = Kind /\ t = s THEN 1 ELSE 0
  BY SendMeans
<1>5. pc \in [PEs -> Places] /\ pc' \in [PEs -> Places]
  BY <1>1 DEF IInv, Typed, Places
<1>6. pc'[p] = "signal" /\ \A q \in PEs \ {p} : pc'[q] = pc[q]
  BY <1>1, <1>5
<1>7. Typed'
  <2>1. ProgressTyped' /\ SendingTyped' /\ PesTyped' /\ MemoryTyped' /\ TableTyped'
    BY <1>1, Frame DEF IInv, Typed, ProgressTyped, SendingTyped, PesTyped, MemoryTyped, TableTyped
  <2>2. PostedTyped'
    BY <1>3, <1>4 DEF IInv, Typed, PostedTyped
  <2>3. QED
    BY <1>3, <1>4, <1>5, <2>1, <2>2 DEF Typed, QueueTyped
<1>8. Placed' /\ Parts' /\ Views' /\ Numbers'
  <2>1. MayBe(p, "signal") /\ pc[p] # "done"
    BY <1>1, <1>2 DEF MayBe, Sender, Filer
  <2>2. QED
    BY <1>1, <1>6, <2>1, Move DEF IInv
<1>9. Calls'
  BY <1>1, <1>3, <1>6 DEF IInv, Calls
<1>10. Shadows'
  <2>1. \A q \in PEs : ReservedOwn(q)' = ReservedOwn(q)
    BY <1>1, <1>6 DEF ReservedOwn, Sender
  <2>2. QED
    BY <1>1, <1>3, <2>1 DEF IInv, Shadows
<1>11. Rings' /\ Drained'
  <2>1. CASE stage.op = "reserve"
    <3>1. Drained'
      BY <1>1, <2>1 DEF Drained
    <3>2. QED
      BY <2>1, <3>1, SendRings
  <2>2. CASE stage.op = "checkpoint"
    <3>1. Kind = "check"
      BY <2>2 DEF Kind
    <3>2. \A t \in Storing : /\ queue'["resrv"][t].head = queue["resrv"][t].head
                             /\ queue'["resrv"][t].tail = queue["resrv"][t].tail
                             /\ queue'["resrv"][t].slots = queue["resrv"][t].slots
      BY <1>4, <3>1 DEF IInv, Typed, QueueTyped, Ring, Queues
    <3>3. \A o : o.queue = "resrv" => (o \in posted' <=> o \in posted)
      BY <1>4, <3>1
    <3>4. \A r \in Rows, t \in Storing : Sent(r, t)' = Sent(r, t)
      BY <1>1, <1>3, <2>2 DEF Sent
    <3>5. \A q \in PEs : pc'[q] \in {"rclear", "cwait", "cloop"} => pc'[q] = pc[q]
      BY <1>6
    <3>6. QED
      BY <1>1, <3>2, <3>3, <3>4, <3>5, SenderKeeps
  <2>3. QED
    BY <1>2, <2>1, <2>2
<1>12. RowsInOrder'
  BY <1>1, <1>3 DEF IInv, RowsInOrder
<1>13. QED
  BY <1>7, <1>8, <1>9, <1>10, <1>11, <1>12 DEF IInv

-----------------------------------------------------------------------------
(* A put that arrives in the slot that was claimed for it.                 *)
LEMMA ClaimArrives ==
    ASSUME Typed, program' = program, NEW m \in posted, posted' = posted \ {m},
           NEW k \in Queues, NEW s \in Storing, SlotsClaimed(k, s),
           queue'[k][s].head = queue[k][s].head, queue'[k][s].tail = queue[k][s].tail,
           queue'[k][s].slots =
             IF k = m.queue /\ s = m.to THEN [queue[k][s].slots EXCEPT ![m.slot] = m.carrier]
             ELSE queue[k][s].slots
    PROVE  Claimed(k, s)' = Claimed(k, s) /\ SlotsClaimed(k, s)'
<1>1. /\ Carriers' = Carriers
      /\ m \in [to : Storing, queue : Queues, slot : Slots, carrier : Carriers]
  BY Frame DEF Typed, PostedTyped
<1>2. queue'[k][s].slots =
        IF m.queue = k /\ m.to = s THEN [queue[k][s].slots EXCEPT ![m.slot] = m.carrier]
        ELSE queue[k][s].slots
  OBVIOUS
<1>3. queue[k][s].slots \in [Slots -> Carriers \union {Empty}]
  BY DEF Typed, QueueTyped, Ring
<1>4. Empty \notin Carriers
  BY Numbering DEF Typed, ProgressTyped, Empty, Carriers
<1>5. m.queue = k /\ m.to = s => queue[k][s].slots[m.slot] = Empty
  BY DEF SlotsClaimed
<1>6. Claimed(k, s)' = Claimed(k, s)
  <2>1. ASSUME NEW x \in [slot : Slots, carrier : Carriers]
        PROVE  (\/ queue'[k][s].slots[x.slot] = x.carrier
                \/ [to |-> s, queue |-> k, slot |-> x.slot, carrier |-> x.carrier] \in posted')
               <=>
               (\/ queue[k][s].slots[x.slot] = x.carrier
                \/ [to |-> s, queue |-> k, slot |-> x.slot, carrier |-> x.carrier] \in posted)
    <3> DEFINE o == [to |-> s, queue |-> k, slot |-> x.slot, carrier |-> x.carrier]
    <3>1. CASE o = m
      <4>1. m.queue = k /\ m.to = s /\ m.slot = x.slot /\ m.carrier = x.carrier
        BY <3>1
      <4>2. QED
        BY <1>2, <1>3, <3>1, <4>1
    <3>2. CASE o # m
      <4>1. o \in posted' <=> o \in posted
        BY <3>2
      <4>2. queue'[k][s].slots[x.slot] = x.carrier
              <=> queue[k][s].slots[x.slot] = x.carrier
        <5>1. CASE m.queue = k /\ m.to = s /\ m.slot = x.slot
          <6>1. m.carrier # x.carrier
            <7>1. m = [to |-> m.to, queue |-> m.queue, slot |-> m.slot, carrier |-> m.carrier]
              BY <1>1
            <7>2. QED
              BY <3>2, <5>1, <7>1
          <6>2. queue'[k][s].slots[x.slot] = m.carrier
            BY <1>2, <1>3, <5>1
          <6>3. QED
            BY <1>4, <1>5, <5>1, <6>1, <6>2
        <5>2. CASE ~(m.queue = k /\ m.to = s /\ m.slot = x.slot)
          BY <1>2, <1>3, <5>2
        <5>3. QED
          BY <5>1, <5>2
      <4>3. QED
        BY <4>1, <4>2
    <3>3. QED
      BY <3>1, <3>2
  <2>2. QED
    BY <1>1, <2>1 DEF Claimed
<1>7. SlotsClaimed(k, s)'
  <2>1. ASSUME NEW o \in posted', o.to = s, o.queue = k
        PROVE  queue'[k][s].slots[o.slot] = Empty
    <3>1. o \in posted /\ o # m /\ queue[k][s].slots[o.slot] = Empty
      BY <2>1 DEF SlotsClaimed
    <3>2. CASE m.queue = k /\ m.to = s /\ m.slot = o.slot
      <4>1. o \in [to : Storing, queue : Queues, slot : Slots, carrier : Carriers]
        BY <3>1 DEF Typed, PostedTyped
      <4>2. m.carrier # o.carrier
        <5>1. /\ m = [to |-> m.to, queue |-> m.queue, slot |-> m.slot, carrier |-> m.carrier]
              /\ o = [to |-> o.to, queue |-> o.queue, slot |-> o.slot, carrier |-> o.carrier]
          BY <1>1, <4>1
        <5>2. QED
          BY <2>1, <3>1, <3>2, <5>1
      <4>3. /\ [slot |-> m.slot, carrier |-> m.carrier] \in Claimed(k, s)
            /\ [slot |-> o.slot, carrier |-> o.carrier] \in Claimed(k, s)
        <5>1. \A n \in posted : n.to = s /\ n.queue = k =>
                [slot |-> n.slot, carrier |-> n.carrier] \in Claimed(k, s)
          <6>1. SUFFICES ASSUME NEW n \in posted, n.to = s, n.queue = k
                         PROVE  [slot |-> n.slot, carrier |-> n.carrier] \in Claimed(k, s)
            OBVIOUS
          <6>2. n \in [to : Storing, queue : Queues, slot : Slots, carrier : Carriers]
            BY DEF Typed, PostedTyped
          <6>3. n = [to |-> s, queue |-> k, slot |-> n.slot, carrier |-> n.carrier]
            BY <6>1, <6>2
          <6>4. QED
            BY <6>2, <6>3 DEF Claimed
        <5>2. QED
          BY <2>1, <3>1, <3>2, <5>1
      <4>4. [slot |-> m.slot, carrier |-> m.carrier] = [slot |-> o.slot, carrier |-> o.carrier]
        BY <3>2, <4>3 DEF SlotsClaimed
      <4>5. QED
        BY <4>2, <4>4
    <3>3. CASE ~(m.queue = k /\ m.to = s /\ m.slot = o.slot)
      BY <1>2, <1>3, <3>1, <3>3
    <3>4. QED
      BY <3>2, <3>3
  <2>2. QED
    BY <1>2, <1>6, <2>1 DEF SlotsClaimed
<1>8. QED
  BY <1>6, <1>7

(* What the arrival of a put does to the rings.                            *)
LEMMA DeliverMeans ==
    ASSUME Typed, NEW m \in posted, Deliver(m)
    PROVE  /\ queue' \in [Queues -> [Storing -> Ring]]
           /\ \A l \in Queues, t \in Storing :
                /\ queue'[l][t].head = queue[l][t].head /\ queue'[l][t].tail = queue[l][t].tail
                /\ queue'[l][t].slots =
                     IF l = m.queue /\ t = m.to
                     THEN [queue[l][t].slots EXCEPT ![m.slot] = m.carrier]
                     ELSE queue[l][t].slots
<1>1. m.to \in Storing /\ m.queue \in Queues /\ m.slot \in Slots /\ m.carrier \in Carriers
  BY DEF Typed, PostedTyped
<1> DEFINE slots == [queue[m.queue][m.to].slots EXCEPT ![m.slot] = m.carrier]
           ring == [queue[m.queue][m.to] EXCEPT !.slots = slots]
<1>2. queue \in [Queues -> [Storing -> Ring]] /\ queue[m.queue][m.to] \in Ring
  BY <1>1 DEF Typed, QueueTyped
<1>3. slots \in [Slots -> Carriers \union {Empty}]
  BY <1>1, <1>2 DEF Ring
<1> HIDE DEF slots
<1>4. /\ ring \in Ring /\ ring.head = queue[m.queue][m.to].head
      /\ ring.tail = queue[m.queue][m.to].tail /\ ring.slots = slots
  BY <1>2, <1>3 DEF Ring
<1>5. queue' = [queue EXCEPT ![m.queue] = [queue[m.queue] EXCEPT ![m.to] = ring]]
  BY DEF slots, Deliver
<1> HIDE DEF ring
<1>6. /\ queue' \in [Queues -> [Storing -> Ring]] /\ queue'[m.queue][m.to] = ring
      /\ \A l \in Queues, t \in Storing :
            l # m.queue \/ t # m.to => queue'[l][t] = queue[l][t]
  BY <1>1, <1>2, <1>4, <1>5
<1>7. QED
  BY <1>4, <1>6 DEF slots

(* The put of a reservation arrives in the slot that was claimed for it.   *)
LEMMA DeliverRings ==
    ASSUME IInv, NEW m \in posted, Deliver(m),
           queue' \in [Queues -> [Storing -> Ring]],
           \A l \in Queues, t \in Storing :
               /\ queue'[l][t].head = queue[l][t].head /\ queue'[l][t].tail = queue[l][t].tail
               /\ queue'[l][t].slots =
                    IF l = m.queue /\ t = m.to THEN [queue[l][t].slots EXCEPT ![m.slot] = m.carrier]
                    ELSE queue[l][t].slots
    PROVE  Rings'
<1>1. /\ program' = program /\ stage' = stage /\ pc' = pc /\ calls' = calls /\ at' = at
      /\ table' = table /\ posted' = posted \ {m}
  BY DEF Deliver, progress, sending
<1>2. /\ Storing' = Storing /\ Carriers' = Carriers /\ Regions' = Regions
      /\ m \in [to : Storing, queue : Queues, slot : Slots, carrier : Carriers]
  BY <1>1, Frame DEF IInv, Typed, PostedTyped
<1>3. \A r, t : Sent(r, t)' = Sent(r, t)
  BY <1>1, <1>2 DEF Sent, cpr_storage_pes
<1> SUFFICES ASSUME NEW s \in Storing
             PROVE  SlotsClaimed("resrv", s)' /\ Reservations(s)'
  BY <1>2 DEF Rings
<1>4. SlotsClaimed("resrv", s) /\ Reservations(s)
  BY DEF IInv, Rings
<1>5. /\ queue'["resrv"][s].head = queue["resrv"][s].head
      /\ queue'["resrv"][s].tail = queue["resrv"][s].tail
      /\ queue'["resrv"][s].slots =
           IF m.queue = "resrv" /\ m.to = s THEN [queue["resrv"][s].slots EXCEPT ![m.slot] = m.carrier]
           ELSE queue["resrv"][s].slots
  BY DEF Queues
<1>6. Claimed("resrv", s)' = Claimed("resrv", s) /\ SlotsClaimed("resrv", s)'
  <2>1. "resrv" \in Queues /\ Typed
    BY DEF Queues, IInv
  <2>2. QED
    BY <1>1, <1>4, <1>5, <2>1, ClaimArrives
<1>7. Reservations(s)'
  BY <1>1, <1>3, <1>4, <1>5, <1>6 DEF Reservations
<1>8. QED
  BY <1>6, <1>7

(* The carrier moves from its way into its slot: what is claimed stays the *)
(* same.                                                                   *)
LEMMA DeliverStep ==
    ASSUME IInv, NEW m \in posted, Deliver(m)
    PROVE  IInv'
<1>1. /\ program' = program /\ stage' = stage /\ step' = step /\ alive' = alive
      /\ pc' = pc /\ calls' = calls /\ at' = at
      /\ part' = part /\ view' = view /\ mem' = mem /\ shadow' = shadow
      /\ shadow_mem_tail' = shadow_mem_tail /\ table' = table /\ posted' = posted \ {m}
      /\ queue' = [queue EXCEPT ![m.queue][m.to].slots[m.slot] = m.carrier]
  BY DEF Deliver, progress, pes, memory, sending
<1>2. /\ PEs' = PEs /\ Storing' = Storing /\ Regions' = Regions /\ Spares' = Spares /\ plan' = plan
      /\ Ring' = Ring /\ Carriers' = Carriers
  BY <1>1, Frame
<1>3. /\ queue' \in [Queues -> [Storing -> Ring]]
      /\ \A l \in Queues, t \in Storing :
           /\ queue'[l][t].head = queue[l][t].head /\ queue'[l][t].tail = queue[l][t].tail
           /\ queue'[l][t].slots =
                IF l = m.queue /\ t = m.to THEN [queue[l][t].slots EXCEPT ![m.slot] = m.carrier]
                ELSE queue[l][t].slots
  BY DeliverMeans DEF IInv
<1>4. Rings'
  BY <1>3, DeliverRings
<1>5. Typed'
  <2>1. /\ ProgressTyped' /\ SendingTyped' /\ PesTyped' /\ MemoryTyped' /\ TableTyped'
        /\ pc' \in [PEs' -> Places]
    BY <1>1, Frame DEF IInv, Typed, ProgressTyped, SendingTyped, PesTyped, MemoryTyped, TableTyped
  <2>2. PostedTyped' /\ QueueTyped'
    BY <1>1, <1>2, <1>3 DEF IInv, Typed, PostedTyped, QueueTyped
  <2>3. QED
    BY <2>1, <2>2 DEF Typed
<1>6. Placed' /\ Parts' /\ Views' /\ Numbers'
  <2>1. \A q : RolledBack(q)' = RolledBack(q)
    BY <1>1 DEF RolledBack
  <2>2. \A q : AfterDeath(q, stage.dead)' = AfterDeath(q, stage.dead)
    BY <1>1 DEF AfterDeath, RoleOf, chosen_pe, cpr_storage_pes
  <2>3. Deaths(step)' = Deaths(step)
    BY <1>1, <1>2 DEF Deaths, DeathSteps
  <2>4. Placed' /\ Parts'
    BY <1>1, <1>2 DEF IInv, Placed, MayBe, Parts
  <2>5. Views'
    BY <1>1, <2>1, <2>2 DEF IInv, Views
  <2>6. Numbers'
    BY <1>1, <1>2, <2>1, <2>3 DEF IInv, Numbers
  <2>7. QED
    BY <2>4, <2>5, <2>6
<1>7. Calls' /\ Shadows'
  <2>1. \A q : ReservedOwn(q)' = ReservedOwn(q)
    BY <1>1 DEF ReservedOwn
  <2>2. QED
    BY <1>1, <1>2, <2>1 DEF IInv, Calls, Shadows
<1>8. RowsInOrder' /\ Drained'
  <2>1. \A t \in Storing : Pending("resrv", t)' = Pending("resrv", t)
    BY <1>3 DEF Pending, Queues
  <2>2. QED
    BY <1>1, <1>2, <2>1 DEF IInv, RowsInOrder, Drained
<1>9. QED
  BY <1>4, <1>5, <1>6, <1>7, <1>8 DEF IInv

-----------------------------------------------------------------------------
(* The carrier at the head of a ring is the one that claimed that slot.    *)
LEMMA HeadClaimed ==
    ASSUME Typed, NEW k \in Queues, NEW s \in Storing, SlotsClaimed(k, s),
           Pending(k, s), First(k, s) # Empty
    PROVE  /\ First(k, s) \in Carriers /\ queue[k][s].head \in Nat
           /\ [slot |-> queue[k][s].head, carrier |-> First(k, s)] \in Claimed(k, s)
<1> DEFINE head == queue[k][s].head
<1>1. /\ queue[k][s] \in Ring /\ head \in Nat /\ queue[k][s].tail \in Nat
      /\ head < queue[k][s].tail
  BY DEF Typed, QueueTyped, Ring, Pending
<1>2. head \in Slots /\ head % QueueLen = head
  <2>1. \E y \in Claimed(k, s) : y.slot = head
    BY <1>1 DEF SlotsClaimed
  <2>2. head \in Slots
    BY <2>1 DEF Claimed
  <2>3. QueueLen \in Nat \ {0}
    BY Constants DEF Typed, ProgressTyped
  <2>4. QED
    BY <2>2, <2>3 DEF Slots
<1>3. First(k, s) = queue[k][s].slots[head]
  BY <1>2 DEF First
<1>4. First(k, s) \in Carriers
  BY <1>1, <1>2, <1>3 DEF Ring
<1>5. QED
  BY <1>1, <1>2, <1>3, <1>4 DEF Claimed

(* Filing it moves the head on and changes nothing else of the ring.       *)
LEMMA HeadMoves ==
    ASSUME Typed, NEW k \in Queues, NEW s \in Storing,
           queue' = [queue EXCEPT ![k][s].head = @ + 1]
    PROVE  /\ queue' \in [Queues -> [Storing -> Ring]]
           /\ \A l \in Queues, t \in Storing :
                /\ queue'[l][t].head = queue[l][t].head + IF l = k /\ t = s THEN 1 ELSE 0
                /\ queue'[l][t].tail = queue[l][t].tail
                /\ queue'[l][t].slots = queue[l][t].slots
<1> DEFINE ring == [queue[k][s] EXCEPT !.head = @ + 1]
<1>1. queue \in [Queues -> [Storing -> Ring]] /\ queue[k][s] \in Ring
  BY DEF Typed, QueueTyped
<1>2. /\ ring \in Ring /\ ring.head = queue[k][s].head + 1
      /\ ring.tail = queue[k][s].tail /\ ring.slots = queue[k][s].slots
  <2> DEFINE q == queue[k][s]
  <2>1. q \in Ring /\ q.head + 1 \in Nat
    BY <1>1 DEF Ring
  <2>2. ring = [q EXCEPT !.head = q.head + 1]
    OBVIOUS
  <2> HIDE DEF q, ring
  <2>3. QED
    BY <2>1, <2>2 DEF Ring, q
<1>3. queue' = [queue EXCEPT ![k] = [queue[k] EXCEPT ![s] = ring]]
  OBVIOUS
<1>4. \A l \in Queues, t \in Storing : queue[l][t].head \in Int
  BY <1>1 DEF Ring
<1> HIDE DEF ring
<1>5. /\ queue' \in [Queues -> [Storing -> Ring]] /\ queue'[k][s] = ring
      /\ \A l \in Queues, t \in Storing : l # k \/ t # s => queue'[l][t] = queue[l][t]
  BY <1>1, <1>2, <1>3
<1>6. QED
  BY <1>2, <1>4, <1>5

(* The carrier at the head of a ring of reservations is the next of its    *)
(* PE: none is filed before one with a smaller id.                         *)
LEMMA NextReservation ==
    ASSUME IInv, NEW s \in Storing, Pending("resrv", s), First("resrv", s) # Empty
    PROVE  LET c == First("resrv", s)
               head == queue["resrv"][s].head
           IN  /\ c \in Carriers /\ [slot |-> head, carrier |-> c] \in Claimed("resrv", s)
               /\ c.id = Len(table[s][c.pe_num]) /\ c.id < Sent(c.pe_num, s)
               /\ head \in Nat
<1> DEFINE c == First("resrv", s)
           head == queue["resrv"][s].head
           tail == queue["resrv"][s].tail
           x == [slot |-> head, carrier |-> c]
<1>1. queue["resrv"][s] \in Ring /\ head \in Nat /\ tail \in Nat /\ head < tail
  BY DEF IInv, Typed, QueueTyped, Ring, Queues, Pending
<1>2. SlotsClaimed("resrv", s) /\ Reservations(s)
  BY DEF IInv, Rings
<1>3. c \in Carriers /\ x \in Claimed("resrv", s)
  BY <1>2, HeadClaimed DEF IInv, Queues
<1>4. /\ c.pe_num \in Rows /\ c.id \in Nat /\ Len(table[s][c.pe_num]) \in Nat
      /\ Rows \subseteq PEs /\ Regions \in Nat
  <2>1. c.pe_num \in Rows /\ c.id \in Ids
    BY <1>3 DEF Carriers
  <2>2. Rows \subseteq PEs /\ Regions \in Nat
    BY Constants, Numbering DEF IInv, Typed, ProgressTyped
  <2>3. Len(table[s][c.pe_num]) \in Nat
    BY <2>1 DEF IInv, Typed, TableTyped
  <2>4. QED
    BY <2>1, <2>2, <2>3 DEF Ids
<1>5. Sent(c.pe_num, s) \in Int
  BY <1>4 DEF Sent, IInv, Typed, SendingTyped
<1> HIDE DEF c, head, tail
<1>6. c.id < Sent(c.pe_num, s)
  BY <1>2, <1>3 DEF Reservations
<1>7. ~(c.id < Len(table[s][c.pe_num]))
  BY <1>1, <1>2, <1>3 DEF Reservations, head
<1>8. ~(c.id > Len(table[s][c.pe_num]))
  <2>1. SUFFICES ASSUME c.id > Len(table[s][c.pe_num])
                 PROVE  FALSE
    OBVIOUS
  <2>2. Len(table[s][c.pe_num]) \in 0 .. Sent(c.pe_num, s) - 1
    BY <1>4, <1>5, <1>6, <2>1
  <2>3. PICK y \in Claimed("resrv", s) :
            y.carrier.pe_num = c.pe_num /\ y.carrier.id = Len(table[s][c.pe_num])
    BY <1>2, <1>4, <2>2 DEF Reservations
  <2>4. y.slot \in Nat
    BY Constants DEF Claimed, Slots, IInv, Typed, ProgressTyped
  <2>5. ~(y.slot < head)
    BY <1>2, <1>4, <2>3 DEF Reservations, head
  <2>6. y.slot # head
    BY <1>2, <1>3, <1>4, <2>1, <2>3 DEF SlotsClaimed
  <2>7. x.slot < y.slot
    BY <1>1, <2>4, <2>5, <2>6
  <2>8. c.id < y.carrier.id
    BY <1>2, <1>3, <2>3, <2>7 DEF Reservations
  <2>9. QED
    BY <1>4, <2>1, <2>3, <2>8
<1>9. QED
  BY <1>1, <1>3, <1>4, <1>6, <1>7, <1>8 DEF c, head

(* The reservation at the head is the next of its PE, so the row grows by  *)
(* it in order.                                                            *)
LEMMA FileReservationStep ==
    ASSUME IInv, NEW s \in Storing, FileReservation(s)
    PROVE  IInv'
<1> DEFINE c == First("resrv", s)
           head == queue["resrv"][s].head
           x == [slot |-> head, carrier |-> c]
           entry == [id |-> c.id, data |-> NoData]
           row == Append(table[s][c.pe_num], entry)
           ring == [queue["resrv"][s] EXCEPT !.head = @ + 1]
<1>1. /\ program' = program /\ stage' = stage /\ step' = step /\ alive' = alive
      /\ calls' = calls /\ at' = at
      /\ part' = part /\ view' = view /\ mem' = mem /\ shadow' = shadow
      /\ shadow_mem_tail' = shadow_mem_tail /\ posted' = posted
      /\ pc[s] = "rloop" /\ pc' = [pc EXCEPT ![s] = "rloop"]
      /\ Pending("resrv", s) /\ c # Empty
      /\ queue' = [queue EXCEPT !["resrv"] = [queue["resrv"] EXCEPT ![s] = ring]]
      /\ table' = [table EXCEPT ![s] = [table[s] EXCEPT ![c.pe_num] = row]]
      /\ UNCHANGED <<progress, pes>>
  BY DEF FileReservation, Goto, progress, pes, memory, sending
<1>2. /\ c \in Carriers /\ x \in Claimed("resrv", s)
      /\ c.id = Len(table[s][c.pe_num]) /\ c.id < Sent(c.pe_num, s) /\ head \in Nat
  BY <1>1, NextReservation
<1>3. /\ PEs' = PEs /\ Storing' = Storing /\ Regions' = Regions /\ Spares' = Spares
      /\ Ring' = Ring /\ Entry' = Entry /\ Carriers' = Carriers
      /\ Rows \subseteq PEs /\ Storing \subseteq PEs
  BY <1>1, Frame, Numbering DEF IInv, Typed, ProgressTyped
<1>4. /\ queue \in [Queues -> [Storing -> Ring]] /\ queue["resrv"][s] \in Ring
      /\ table \in [Storing -> [Rows -> Seq(Entry)]] /\ pc \in [PEs -> Places]
  BY DEF IInv, Typed, QueueTyped, TableTyped, Queues
<1>5. pc' = pc
  BY <1>1, <1>4
<1>6. /\ ring \in Ring /\ ring.head = head + 1
      /\ ring.tail = queue["resrv"][s].tail /\ ring.slots = queue["resrv"][s].slots
  <2> DEFINE q == queue["resrv"][s]
  <2>1. q \in Ring /\ q.head + 1 \in Nat
    BY <1>2, <1>4
  <2>2. ring = [q EXCEPT !.head = q.head + 1] /\ head = q.head
    OBVIOUS
  <2> HIDE DEF q, ring
  <2>3. QED
    BY <2>1, <2>2 DEF Ring, q
<1>7. /\ c.pe_num \in Rows /\ row \in Seq(Entry) /\ Len(row) = Len(table[s][c.pe_num]) + 1
      /\ \A i \in DOMAIN row : i = Len(row) \/ i \in DOMAIN table[s][c.pe_num]
      /\ \A i \in DOMAIN table[s][c.pe_num] : row[i] = table[s][c.pe_num][i]
      /\ row[Len(row)] = entry
  <2>1. c.pe_num \in Rows /\ c.id \in Ids /\ NoData \in Data
    BY <1>2 DEF Carriers, Data
  <2>2. entry \in Entry /\ table[s][c.pe_num] \in Seq(Entry)
    BY <1>4, <2>1 DEF Entry
  <2> HIDE DEF entry, c
  <2>3. QED
    BY <2>1, <2>2
<1> HIDE DEF ring, row, c
<1>8. /\ queue' \in [Queues -> [Storing -> Ring]] /\ queue'["resrv"][s] = ring
      /\ \A l \in Queues, t \in Storing : l # "resrv" \/ t # s => queue'[l][t] = queue[l][t]
  BY <1>1, <1>4, <1>6 DEF Queues
<1>9. /\ table' \in [Storing -> [Rows -> Seq(Entry)]] /\ table'[s][c.pe_num] = row
      /\ \A t \in Storing, r \in Rows : t # s \/ r # c.pe_num => table'[t][r] = table[t][r]
  BY <1>1, <1>4, <1>7
<1>10. Typed'
  <2>1. ProgressTyped' /\ SendingTyped' /\ PesTyped' /\ MemoryTyped' /\ PostedTyped'
    BY <1>1, Frame DEF IInv, Typed, ProgressTyped, SendingTyped, PesTyped, MemoryTyped, PostedTyped
  <2>2. QED
    BY <1>3, <1>4, <1>5, <1>8, <1>9, <2>1 DEF Typed, QueueTyped, TableTyped
<1>11. Placed' /\ Parts' /\ Views' /\ Numbers'
  <2>1. MayBe(s, pc'[s]) /\ pc[s] # "done"
    BY <1>1, <1>3, <1>5 DEF IInv, Placed
  <2>2. QED
    BY <1>1, <1>3, <1>5, <2>1, Move DEF IInv
<1>12. Calls' /\ Shadows'
  <2>1. \A q : ReservedOwn(q)' = ReservedOwn(q)
    BY <1>1, <1>5 DEF ReservedOwn
  <2>2. QED
    BY <1>1, <1>3, <1>5, <2>1 DEF IInv, Calls, Shadows
<1>13. Rings'
  <2>1. \A r, t : Sent(r, t)' = Sent(r, t)
    BY <1>1, <1>3, <1>5 DEF Sent, cpr_storage_pes
  <2>2. \A t \in Storing : SlotsClaimed("resrv", t) /\ Reservations(t)
    BY DEF IInv, Rings
  <2>3. \A t \in Storing : Claimed("resrv", t)' = Claimed("resrv", t)
    BY <1>1, <1>3, <1>6, <1>8 DEF Claimed, Queues
  <2>4. ASSUME NEW t \in Storing, t # s
        PROVE  SlotsClaimed("resrv", t)' /\ Reservations(t)'
    <3>1. queue'["resrv"][t] = queue["resrv"][t] /\ table'[t] = table[t]
      BY <1>1, <1>4, <1>8, <2>4 DEF Queues
    <3>2. QED
      BY <1>1, <2>1, <2>2, <2>3, <3>1 DEF SlotsClaimed, Reservations
  <2>5. SlotsClaimed("resrv", s)'
    <3>1. head + 1 <= queue["resrv"][s].tail
      BY <1>1, <1>4 DEF Pending, Ring
    <3>2. QED
      BY <1>1, <1>6, <1>8, <2>2, <2>3, <3>1 DEF SlotsClaimed
  <2>6. Reservations(s)'
    <3>1. Reservations(s) /\ SlotsClaimed("resrv", s) /\ queue'["resrv"][s].head = head + 1
      BY <1>6, <1>8, <2>2
    <3>2. ASSUME NEW y \in Claimed("resrv", s)
          PROVE  y.slot < head + 1 <=> y.carrier.id < Len(table'[s][y.carrier.pe_num])
      <4>1. y.slot \in Nat /\ y.carrier.id \in Nat /\ y.carrier.pe_num \in Rows
        BY Constants DEF Claimed, Slots, Carriers, Ids, IInv, Typed, ProgressTyped
      <4>2. y.slot < head <=> y.carrier.id < Len(table[s][y.carrier.pe_num])
        BY <3>1 DEF Reservations
      <4>3. y.slot = head => y = x
        BY <1>2, <3>1 DEF SlotsClaimed
      <4>4. CASE y.carrier.pe_num = c.pe_num
        <5>1. Len(table'[s][y.carrier.pe_num]) = c.id + 1 /\ c.id \in Nat
          BY <1>2, <1>4, <1>7, <1>9, <4>4
        <5>2. y.slot > head => y.carrier.id > c.id
          BY <1>2, <3>1, <4>1, <4>4 DEF Reservations
        <5>3. QED
          BY <1>2, <4>1, <4>2, <4>3, <4>4, <5>1, <5>2
      <4>5. CASE y.carrier.pe_num # c.pe_num
        <5>1. table'[s][y.carrier.pe_num] = table[s][y.carrier.pe_num] /\ y.slot # head
          BY <1>9, <4>1, <4>3, <4>5
        <5>2. QED
          BY <1>2, <4>1, <4>2, <5>1
      <4>6. QED
        BY <4>4, <4>5
    <3>3. \A r \in Rows : Len(table'[s][r]) <= Sent(r, s)
      <4>1. \A r \in Rows : Len(table[s][r]) <= Sent(r, s)
        BY <3>1 DEF Reservations
      <4>2. Len(table'[s][c.pe_num]) <= Sent(c.pe_num, s)
        <5>1. Sent(c.pe_num, s) \in Int /\ Len(table[s][c.pe_num]) \in Int
          BY <1>3, <1>4, <1>7, Constants DEF Sent, IInv, Typed, ProgressTyped, SendingTyped
        <5>2. QED
          BY <1>2, <1>7, <1>9, <5>1
      <4>3. QED
        BY <1>9, <4>1, <4>2
    <3>4. QED
      BY <2>1, <2>3, <3>1, <3>2, <3>3 DEF Reservations
  <2>7. QED
    BY <1>3, <2>4, <2>5, <2>6 DEF Rings
<1>14. RowsInOrder'
  <2>1. ASSUME NEW t \in Storing, NEW r \in Rows, NEW i \in DOMAIN table'[t][r]
        PROVE  table'[t][r][i].id = i - 1
    <3>1. CASE t = s /\ r = c.pe_num
      <4>1. CASE i = Len(row)
        BY <1>2, <1>4, <1>7, <1>9, <3>1, <4>1
      <4>2. CASE i \in DOMAIN table[s][r]
        BY <1>7, <1>9, <3>1, <4>2 DEF IInv, RowsInOrder
      <4>3. QED
        BY <1>7, <1>9, <3>1, <4>1, <4>2
    <3>2. CASE ~(t = s /\ r = c.pe_num)
      <4>1. table'[t][r] = table[t][r]
        BY <1>9, <3>2
      <4>2. i \in DOMAIN table[t][r]
        BY <4>1
      <4>3. QED
        BY <4>1, <4>2 DEF IInv, RowsInOrder
    <3>3. QED
      BY <3>1, <3>2
  <2>2. QED
    BY <1>3, <2>1 DEF RowsInOrder
<1>15. Drained'
  <2>1. \A t \in Storing : t # s => Pending("resrv", t)' = Pending("resrv", t)
    BY <1>8 DEF Pending, Queues
  <2>2. QED
    BY <1>1, <1>3, <1>5, <2>1 DEF IInv, Drained
<1>16. QED
  BY <1>10, <1>11, <1>12, <1>13, <1>14, <1>15 DEF IInv

(* The end of a call of shmem_cpr_reserve on a storage PE.                 *)
LEMMA ClearSignalStep ==
    ASSUME IInv, NEW s \in Storing, ClearSignal(s)
    PROVE  IInv'
<1> DEFINE to == IF stage.op # "reserve" THEN "cwait"
                 ELSE IF calls[s] + 1 < Regions THEN "call" ELSE "done"
           done == calls[s] + (IF stage.op = "reserve" THEN 1 ELSE 0)
<1>1. /\ program' = program /\ stage' = stage /\ step' = step /\ alive' = alive
      /\ at' = at /\ calls' = [calls EXCEPT ![s] = done]
      /\ part' = part /\ view' = view /\ mem' = mem /\ shadow' = shadow
      /\ shadow_mem_tail' = shadow_mem_tail /\ posted' = posted /\ table' = table
      /\ pc[s] = "rclear" /\ pc' = [pc EXCEPT ![s] = to]
      /\ queue' = [queue EXCEPT !["resrv"][s].sig = 0]
      /\ UNCHANGED <<progress, pes>>
  BY DEF ClearSignal, Goto, progress, pes, memory
<1>2. /\ PEs' = PEs /\ Storing' = Storing /\ Regions' = Regions /\ Spares' = Spares
      /\ Ring' = Ring /\ Entry' = Entry
      /\ Rows \subseteq PEs /\ Storing \subseteq PEs /\ Rows \intersect Storing = {}
      /\ Regions \in Nat
  BY <1>1, Frame, Numbering, Constants DEF IInv, Typed, ProgressTyped
<1>3. pc \in [PEs -> Places] /\ calls \in [PEs -> 0 .. Regions]
  BY DEF IInv, Typed, SendingTyped
<1>4. stage.op = "reserve" => calls[s] < Regions
  BY <1>1, <1>2 DEF IInv, Calls
<1>5. done \in 0 .. Regions /\ (stage.op # "reserve" => done = calls[s])
  BY <1>2, <1>3, <1>4
<1>6. /\ pc' \in [PEs -> Places] /\ pc'[s] = to /\ calls'[s] = done
      /\ calls' \in [PEs -> 0 .. Regions]
      /\ \A q \in PEs \ {s} : pc'[q] = pc[q] /\ calls'[q] = calls[q]
  BY <1>1, <1>2, <1>3, <1>5 DEF Places
<1>7. /\ queue' \in [Queues -> [Storing -> Ring]]
      /\ \A l \in Queues, t \in Storing :
            /\ queue'[l][t].head = queue[l][t].head
            /\ queue'[l][t].tail = queue[l][t].tail
            /\ queue'[l][t].slots = queue[l][t].slots
  <2>1. "resrv" \in Queues /\ 0 \in {0, 1} /\ QueueTyped
    BY DEF Queues, IInv, Typed
  <2>2. QED
    BY <1>1, <2>1, Signalled
<1>8. Typed'
  <2>1. ProgressTyped' /\ PesTyped' /\ MemoryTyped' /\ TableTyped' /\ PostedTyped'
    BY <1>1, Frame DEF IInv, Typed, ProgressTyped, PesTyped, MemoryTyped, TableTyped, PostedTyped
  <2>2. SendingTyped' /\ QueueTyped'
    BY <1>1, <1>2, <1>6, <1>7 DEF IInv, Typed, SendingTyped, QueueTyped
  <2>3. QED
    BY <1>2, <1>6, <2>1, <2>2 DEF Typed
<1>9. Placed' /\ Parts' /\ Views' /\ Numbers'
  <2>1. s \in alive /\ MayBe(s, pc[s])
    BY <1>1, <1>2, InCallAlive DEF IInv
  <2>2. MayBe(s, to)
    BY <1>1, <2>1 DEF MayBe, Sender, Filer
  <2>3. s \in PEs /\ pc[s] # "done" /\ MayBe(s, pc'[s])
        /\ (stage.op = "rollback" => pc'[s] # "done")
    BY <1>1, <1>2, <1>6, <2>2
  <2>4. QED
    BY <1>1, <1>6, <2>3, Move DEF IInv
<1>10. Calls'
  <2>1. stage.op = "reserve" => IF to = "done" THEN done = Regions ELSE done < Regions
    BY <1>2, <1>3, <1>4
  <2>2. QED
    BY <1>1, <1>2, <1>5, <1>6, <2>1 DEF IInv, Calls
<1>11. Shadows'
  <2>1. \A q \in Rows : ReservedOwn(q)' = ReservedOwn(q)
    BY <1>1, <1>2, <1>6 DEF ReservedOwn
  <2>2. QED
    BY <1>1, <1>2, <2>1 DEF IInv, Shadows
<1>12. Rings'
  <2>1. \A t \in Storing, r \in Rows : Sent(r, t)' = Sent(r, t)
    BY <1>1, <1>2, <1>6 DEF Sent, cpr_storage_pes
  <2>2. QED
    BY <1>1, <1>7, <2>1, RingsKept DEF IInv, Queues
<1>13. RowsInOrder' /\ Drained'
  <2>1. \A t \in Storing : Pending("resrv", t)' = Pending("resrv", t)
    BY <1>7 DEF Pending, Queues
  <2>2. stage.op # "reserve" => ~Pending("resrv", s)
    BY <1>1 DEF IInv, Drained
  <2>3. Drained'
    BY <1>1, <1>2, <1>6, <2>1, <2>2 DEF IInv, Drained
  <2>4. RowsInOrder'
    BY <1>1, <1>2 DEF IInv, RowsInOrder
  <2>5. QED
    BY <2>3, <2>4
<1>14. QED
  BY <1>8, <1>9, <1>10, <1>11, <1>12, <1>13 DEF IInv

(* A checkpoint that is filed leaves the rows as long as they are, and the *)
(* ids in them.                                                            *)
LEMMA FileDataTable ==
    ASSUME Typed, NEW s \in Storing, FileData(s), NEW c \in Carriers, c = First("check", s)
    PROVE  /\ table' \in [Storing -> [Rows -> Seq(Entry)]]
           /\ \A t \in Storing, r \in Rows :
                /\ Len(table'[t][r]) = Len(table[t][r])
                /\ DOMAIN table'[t][r] = DOMAIN table[t][r]
                /\ \A i \in DOMAIN table[t][r] :
                     /\ table'[t][r][i].id = table[t][r][i].id
                     /\ table'[t][r][i].data = IF t = s /\ r = c.pe_num /\ i = c.id + 1
                                               THEN c.data ELSE table[t][r][i].data
<1>0. table' = [table EXCEPT ![s][c.pe_num][c.id + 1].data = c.data]
  BY DEF FileData
<1> DEFINE r == c.pe_num
           old == table[s][r]
           new == [old EXCEPT ![c.id + 1] = [old[c.id + 1] EXCEPT !.data = c.data]]
<1>1. r \in Rows /\ c.data \in Data
  BY DEF Carriers
<1>2. table \in [Storing -> [Rows -> Seq(Entry)]] /\ old \in Seq(Entry)
  BY <1>1 DEF Typed, TableTyped
<1>3. /\ new \in [1 .. Len(old) -> Entry]
      /\ \A i \in DOMAIN old : /\ i \in DOMAIN new /\ new[i].id = old[i].id
                              /\ new[i].data = IF i = c.id + 1 THEN c.data ELSE old[i].data
  <2>1. old \in [1 .. Len(old) -> Entry] /\ DOMAIN old = 1 .. Len(old)
    BY <1>2
  <2> HIDE DEF old
  <2>2. ASSUME NEW i \in 1 .. Len(old)
        PROVE  [old[i] EXCEPT !.data = c.data] \in Entry
               /\ [old[i] EXCEPT !.data = c.data].id = old[i].id
               /\ [old[i] EXCEPT !.data = c.data].data = c.data
    BY <1>1, <2>1 DEF Entry
  <2>3. ASSUME NEW i \in 1 .. Len(old), i # c.id + 1
        PROVE  new[i] = old[i]
    BY <2>1, <2>3
  <2>4. c.id + 1 \in 1 .. Len(old) =>
            new[c.id + 1] = [old[c.id + 1] EXCEPT !.data = c.data]
    BY <2>1
  <2>5. new \in [1 .. Len(old) -> Entry]
    BY <2>1, <2>2
  <2> HIDE DEF new
  <2>6. ASSUME NEW i \in 1 .. Len(old)
        PROVE  new[i].id = old[i].id /\ new[i].data = IF i = c.id + 1 THEN c.data ELSE old[i].data
    <3>1. CASE i = c.id + 1
      BY <2>2, <2>4, <3>1
    <3>2. CASE i # c.id + 1
      BY <2>3, <3>2
    <3>3. QED
      BY <3>1, <3>2
  <2>7. QED
    BY <2>1, <2>5, <2>6
<1>4. table' = [table EXCEPT ![s] = [table[s] EXCEPT ![r] = new]]
  BY <1>0
<1> HIDE DEF new, old, r
<1>5. new \in Seq(Entry) /\ Len(new) = Len(old) /\ DOMAIN new = DOMAIN old
  <2>1. new \in Seq(Entry) /\ Len(new) = Len(old)
    BY <1>2, <1>3, SeqExcept
  <2>2. QED
    BY <1>2, <2>1
<1>6. /\ table' \in [Storing -> [Rows -> Seq(Entry)]] /\ table'[s][r] = new
      /\ \A t \in Storing, q \in Rows : t # s \/ q # r => table'[t][q] = table[t][q]
  <2> DEFINE rows == [table[s] EXCEPT ![r] = new]
  <2>1. /\ rows \in [Rows -> Seq(Entry)] /\ rows[r] = new
        /\ \A q \in Rows : q # r => rows[q] = table[s][q]
    BY <1>1, <1>2, <1>5
  <2>2. table' = [table EXCEPT ![s] = rows]
    BY <1>4
  <2> HIDE DEF rows
  <2>3. QED
    BY <1>2, <2>1, <2>2
<1>7. ASSUME NEW t \in Storing, NEW q \in Rows
      PROVE  /\ Len(table'[t][q]) = Len(table[t][q])
             /\ DOMAIN table'[t][q] = DOMAIN table[t][q]
             /\ \A i \in DOMAIN table[t][q] :
                  /\ table'[t][q][i].id = table[t][q][i].id
                  /\ table'[t][q][i].data = IF t = s /\ q = r /\ i = c.id + 1
                                            THEN c.data ELSE table[t][q][i].data
  <2>1. CASE t = s /\ q = r
    BY <1>3, <1>5, <1>6, <2>1 DEF old
  <2>2. CASE ~(t = s /\ q = r)
    <3>1. table'[t][q] = table[t][q]
      BY <1>6, <2>2
    <3>2. /\ Len(table'[t][q]) = Len(table[t][q])
          /\ DOMAIN table'[t][q] = DOMAIN table[t][q]
      BY <3>1
    <3>3. ASSUME NEW i \in DOMAIN table[t][q]
          PROVE  /\ table'[t][q][i].id = table[t][q][i].id
                 /\ table'[t][q][i].data = IF t = s /\ q = r /\ i = c.id + 1
                                           THEN c.data ELSE table[t][q][i].data
      <4>1. table'[t][q][i] = table[t][q][i]
        BY <3>1
      <4>2. ~(t = s /\ q = r /\ i = c.id + 1)
        BY <2>2
      <4>3. table'[t][q][i].id = table[t][q][i].id /\ table'[t][q][i].data = table[t][q][i].data
        BY <4>1
      <4>4. QED
        BY <4>2, <4>3
    <3>4. QED
      BY <3>2, <3>3
  <2>3. QED
    BY <2>1, <2>2
<1>8. QED
  BY <1>6, <1>7 DEF r

(* A checkpoint is filed; no row changes its length.                       *)
LEMMA FileDataStep ==
    ASSUME IInv, NEW s \in Storing, FileData(s)
    PROVE  IInv'
<1> DEFINE c == First("check", s)
           ring == [queue["check"][s] EXCEPT !.head = @ + 1]
<1>1. /\ program' = program /\ stage' = stage /\ step' = step /\ alive' = alive
      /\ calls' = calls /\ at' = at
      /\ part' = part /\ view' = view /\ mem' = mem /\ shadow' = shadow
      /\ shadow_mem_tail' = shadow_mem_tail /\ posted' = posted
      /\ pc[s] = "cloop" /\ pc' = [pc EXCEPT ![s] = "cloop"] /\ c # Empty
      /\ queue' = [queue EXCEPT !["check"] = [queue["check"] EXCEPT ![s] = ring]]
      /\ table' = [table EXCEPT ![s][c.pe_num][c.id + 1].data = c.data]
      /\ UNCHANGED <<progress, pes>>
  BY DEF FileData, Goto, progress, pes, memory, sending
<1>2. /\ PEs' = PEs /\ Storing' = Storing /\ Regions' = Regions /\ Spares' = Spares
      /\ Ring' = Ring /\ Entry' = Entry /\ Carriers' = Carriers
      /\ Rows \subseteq PEs /\ Storing \subseteq PEs /\ QueueLen \in Nat \ {0}
  BY <1>1, Frame, Numbering, Constants DEF IInv, Typed, ProgressTyped
<1>3. /\ queue \in [Queues -> [Storing -> Ring]] /\ queue["check"][s] \in Ring
      /\ pc \in [PEs -> Places]
  BY DEF IInv, Typed, QueueTyped, Queues
<1>4. pc' = pc
  BY <1>1, <1>3
<1>5. c \in Carriers
  <2>1. queue["check"][s].head % QueueLen \in Slots
    <3>1. queue["check"][s].head \in Nat
      BY <1>3 DEF Ring
    <3>2. QED
      BY <1>2, <3>1 DEF Slots
  <2>2. QED
    BY <1>1, <1>3, <2>1 DEF First, Ring
<1>6. ring \in Ring
  <2> DEFINE q == queue["check"][s]
  <2>1. q \in Ring /\ q.head + 1 \in Nat
    BY <1>3 DEF Ring
  <2>2. ring = [q EXCEPT !.head = q.head + 1]
    OBVIOUS
  <2> HIDE DEF q, ring
  <2>3. QED
    BY <2>1, <2>2 DEF Ring
<1> HIDE DEF c, ring
<1>7. /\ queue' \in [Queues -> [Storing -> Ring]]
      /\ \A t \in Storing : queue'["resrv"][t] = queue["resrv"][t]
  BY <1>1, <1>3, <1>6 DEF Queues
<1>8. /\ table' \in [Storing -> [Rows -> Seq(Entry)]]
      /\ \A t \in Storing, r \in Rows :
           /\ Len(table'[t][r]) = Len(table[t][r])
           /\ DOMAIN table'[t][r] = DOMAIN table[t][r]
           /\ \A i \in DOMAIN table[t][r] : table'[t][r][i].id = table[t][r][i].id
  BY <1>5, FileDataTable DEF IInv, c
<1>9. Typed'
  <2>1. ProgressTyped' /\ SendingTyped' /\ PesTyped' /\ MemoryTyped' /\ PostedTyped'
    BY <1>1, Frame DEF IInv, Typed, ProgressTyped, SendingTyped, PesTyped, MemoryTyped, PostedTyped
  <2>2. QED
    BY <1>2, <1>3, <1>4, <1>7, <1>8, <2>1 DEF Typed, QueueTyped, TableTyped
<1>10. Placed' /\ Parts' /\ Views' /\ Numbers'
  <2>1. MayBe(s, pc'[s]) /\ pc[s] # "done"
    BY <1>1, <1>2, <1>4 DEF IInv, Placed
  <2>2. QED
    BY <1>1, <1>2, <1>4, <2>1, Move DEF IInv
<1>11. Calls' /\ Shadows'
  <2>1. \A q : ReservedOwn(q)' = ReservedOwn(q)
    BY <1>1, <1>4 DEF ReservedOwn
  <2>2. QED
    BY <1>1, <1>2, <1>4, <2>1 DEF IInv, Calls, Shadows
<1>12. Rings'
  <2>1. \A r, t : Sent(r, t)' = Sent(r, t)
    BY <1>1, <1>2, <1>4 DEF Sent, cpr_storage_pes
  <2>2. QED
    BY <1>1, <1>7, <1>8, <2>1, RingsKept DEF IInv
<1>13. RowsInOrder'
  <2>1. ASSUME NEW t \in Storing, NEW r \in Rows, NEW i \in DOMAIN table'[t][r]
        PROVE  table'[t][r][i].id = i - 1
    <3>1. i \in DOMAIN table[t][r] /\ table'[t][r][i].id = table[t][r][i].id
      BY <1>8
    <3>2. QED
      BY <3>1 DEF IInv, RowsInOrder
  <2>2. QED
    BY <1>2, <2>1 DEF RowsInOrder
<1>14. Drained'
  <2>1. \A t \in Storing : Pending("resrv", t)' = Pending("resrv", t)
    BY <1>7 DEF Pending
  <2>2. QED
    BY <1>1, <1>2, <1>4, <2>1 DEF IInv, Drained
<1>15. QED
  BY <1>9, <1>10, <1>11, <1>12, <1>13, <1>14 DEF IInv

-----------------------------------------------------------------------------
(* What a PE knows after a death follows from what it knew.                *)
Afterwards(v, d) ==
    [v EXCEPT
        !.active = IF d \in v.active THEN @ \union {cpr_storage_pes(v.num - 1)} ELSE @,
        !.dead = @ \union {d},
        !.num = @ - 1]

(* It is the same in every state.                                          *)
LEMMA SameDeath ==
    ASSUME NEW q
    PROVE  /\ AfterDeath(q, stage.dead) = Afterwards(view[q], stage.dead)
           /\ AfterDeath(q, stage.dead)' = Afterwards(view'[q], stage'.dead)
  BY DEF AfterDeath, RoleOf, chosen_pe, Afterwards, cpr_storage_pes

(* There is a spare PE to be chosen in every rollback.                     *)
LEMMA Chosen ==
    ASSUME Typed, Numbers, NEW p \in alive, stage.op = "rollback", pc[p] # "done"
    PROVE  /\ chosen_pe(p) \in Storing /\ AfterDeath(p, stage.dead) \in View
           /\ view[p].num \in 1 .. Spares
           /\ view[p].active \subseteq AfterDeath(p, stage.dead).active
           /\ AfterDeath(p, stage.dead).active =
                IF stage.dead \in view[p].active
                THEN view[p].active \union {chosen_pe(p)} ELSE view[p].active
           /\ AfterDeath(p, stage.dead).num = view[p].num - 1
<1>1. /\ Spares \in Nat \ {0} /\ step \in 0 .. Len(plan) /\ stage.dead \in PEs /\ p \in PEs
      /\ view[p] \in View
  BY Constants, StageMeans DEF Typed, ProgressTyped, PesTyped
<1>2. Deaths(step) \in Nat /\ Deaths(step) <= Spares
  BY <1>1, CountDeaths DEF Typed, ProgressTyped
<1>3. view[p].num = Spares - Deaths(step) + 1
  BY DEF Numbers, RolledBack
<1>4. view[p].num \in 1 .. Spares
  BY <1>1, <1>2, <1>3 DEF View
<1>5. chosen_pe(p) \in Storing
  <2>1. view[p].num - 1 \in 0 .. Spares - 1
    BY <1>1, <1>4
  <2>2. QED
    BY <2>1, Numbering DEF chosen_pe, Typed, ProgressTyped
<1>6. chosen_pe(p) \in PEs
  BY <1>5, Numbering DEF Typed, ProgressTyped
<1>7. view[p].num - 1 \in 0 .. Spares
  BY <1>1, <1>4
<1> DEFINE v == view[p]
           a == IF stage.dead \in v.active THEN v.active \union {chosen_pe(p)} ELSE v.active
           after == [v EXCEPT !.active = a, !.dead = v.dead \union {stage.dead}, !.num = v.num - 1]
<1>8. AfterDeath(p, stage.dead) = after
  BY DEF AfterDeath, RoleOf
<1>9. a \subseteq PEs /\ v.active \subseteq a /\ v.dead \union {stage.dead} \subseteq PEs
  BY <1>1, <1>6 DEF View
<1>10. v \in View /\ v.num - 1 \in 0 .. Spares
  BY <1>1, <1>7
<1>11. a = IF stage.dead \in view[p].active
           THEN view[p].active \union {chosen_pe(p)} ELSE view[p].active
  OBVIOUS
<1> HIDE DEF a, v
<1>12. after \in View /\ after.active = a /\ after.num = v.num - 1
  BY <1>9, <1>10 DEF View
<1>13. QED
  BY <1>4, <1>5, <1>8, <1>9, <1>11, <1>12 DEF v

(* A PE that is done with a rollback sees the PEs as the others do then.   *)
LEMMA Learn ==
    ASSUME IInv, NEW p \in PEs, pc[p] # "done", stage.op = "rollback", UNCHANGED progress,
           pc' = [pc EXCEPT ![p] = "done"],
           view' = [view EXCEPT ![p] = AfterDeath(p, stage.dead)],
           \A q \in PEs \ {p} : part'[q] = part[q],
           IF p \in AfterDeath(p, stage.dead).active THEN part'[p] \in Rows ELSE part'[p] = p
    PROVE  view' \in [PEs -> View] /\ Placed' /\ Parts' /\ Views' /\ Numbers'
<1> USE DEF progress
<1> DEFINE after == AfterDeath(p, stage.dead)
<1>1. /\ program' = program /\ PEs' = PEs /\ Spares' = Spares /\ plan' = plan
      /\ Rows \subseteq PEs /\ alive \subseteq PEs
  BY Frame, Numbering DEF IInv, Typed, ProgressTyped
<1>2. p \in alive /\ MayBe(p, pc[p])
  BY InCallAlive DEF IInv
<1>3. /\ chosen_pe(p) \in Storing /\ after \in View /\ view[p].num \in 1 .. Spares
      /\ view[p].active \subseteq after.active
      /\ after.active = IF stage.dead \in view[p].active
                        THEN view[p].active \union {chosen_pe(p)} ELSE view[p].active
      /\ after.num = view[p].num - 1
  BY <1>2, Chosen DEF IInv
<1>4. pc \in [PEs -> Places] /\ view \in [PEs -> View]
  BY DEF IInv, Typed, PesTyped
<1>5. ASSUME NEW q \in PEs, view'[q] = view[q]
      PROVE  AfterDeath(q, stage.dead)' = AfterDeath(q, stage.dead)
  <2>1. stage' = stage
    OBVIOUS
  <2>2. QED
    BY <1>5, <2>1, SameDeath
<1> HIDE DEF after
<1>6. /\ view'[p] = after /\ \A q \in PEs \ {p} : view'[q] = view[q]
      /\ pc'[p] = "done" /\ \A q \in PEs \ {p} : pc'[q] = pc[q]
      /\ view' \in [PEs -> View]
  BY <1>3, <1>4 DEF after
<1>7. Placed'
  <2>1. ASSUME NEW q \in PEs
        PROVE  /\ q \notin alive => pc'[q] = "done"
               /\ pc'[q] \in Sender => /\ stage.op \in {"reserve", "checkpoint"}
                                       /\ q \in view'[q].active
               /\ pc'[q] \in Filer => q \notin view'[q].active
               /\ pc'[q] \in {"rwait", "cwait", "cloop", "restore"} => stage.op # "reserve"
               /\ pc'[q] \in Filer /\ stage.op = "rollback" => stage.dead \in Rows
               /\ pc'[q] = "restore" => stage.op = "rollback"
    <3>1. CASE q = p
      BY <1>6, <3>1 DEF Sender, Filer
    <3>2. CASE q # p
      BY <1>6, <3>2 DEF IInv, Placed, MayBe
    <3>3. QED
      BY <3>1, <3>2
  <2>2. QED
    BY <1>1, <2>1 DEF Placed, MayBe
<1>8. Parts'
  <2>1. ASSUME NEW q \in PEs
        PROVE  /\ Rows \subseteq view'[q].active
               /\ q \in alive => IF q \in view'[q].active THEN part'[q] \in Rows ELSE part'[q] = q
    <3>1. CASE q = p
      BY <1>3, <1>6, <3>1 DEF IInv, Parts, after
    <3>2. CASE q # p
      BY <1>6, <3>2 DEF IInv, Parts
    <3>3. QED
      BY <3>1, <3>2
  <2>2. QED
    BY <1>1, <2>1 DEF Parts
<1>9. /\ RolledBack(p)' /\ ~RolledBack(p)
      /\ \A q \in PEs \ {p} : RolledBack(q)' <=> RolledBack(q)
  BY <1>6 DEF RolledBack
<1>10. Views'
  <2>1. ASSUME NEW q \in alive, NEW r \in alive, RolledBack(q)' <=> RolledBack(r)'
        PROVE  view'[q] = view'[r]
    <3>1. ASSUME NEW o \in alive, o # p, RolledBack(o)
          PROVE  view'[o] = after
      BY <1>1, <1>2, <1>6, <1>9, <3>1 DEF IInv, Views, after
    <3>2. QED
      BY <1>1, <1>6, <1>9, <2>1, <3>1 DEF IInv, Views
  <2>2. ASSUME NEW q \in alive, NEW r \in alive, RolledBack(q)', ~RolledBack(r)'
        PROVE  view'[q] = AfterDeath(r, stage.dead)'
    <3>1. r # p /\ ~RolledBack(r) /\ r \in PEs /\ q \in PEs
      BY <1>1, <1>9, <2>2
    <3>2. AfterDeath(r, stage.dead)' = AfterDeath(r, stage.dead)
      BY <1>5, <1>6, <3>1
    <3>3. CASE q = p
      <4>1. view[p] = view[r]
        BY <1>2, <1>9, <3>1 DEF IInv, Views
      <4>2. after = AfterDeath(r, stage.dead)
        BY <3>1, <4>1, SameDeath DEF after
      <4>3. QED
        BY <1>6, <3>2, <3>3, <4>2
    <3>4. CASE q # p
      BY <1>6, <1>9, <2>2, <3>1, <3>2, <3>4 DEF IInv, Views
    <3>5. QED
      BY <3>3, <3>4
  <2>3. stage.dead \in Rows \/ \A q \in alive : stage.dead \notin view'[q].active
    <3>1. stage.dead \in Rows \/ \A q \in alive : stage.dead \notin view[q].active
      BY DEF IInv, Views
    <3>2. QED
      BY <1>1, <1>2, <1>3, <1>6, <3>1
  <2>4. QED
    BY <2>1, <2>2, <2>3 DEF Views
<1>11. Numbers'
  <2>1. Deaths(step)' = Deaths(step) /\ Deaths(step) \in Nat
    BY <1>1, CountDeaths DEF IInv, Typed, ProgressTyped, Deaths, DeathSteps
  <2>2. ASSUME NEW q \in alive
        PROVE  view'[q].num = Spares - Deaths(step)
                              + IF stage.op = "rollback" /\ ~RolledBack(q)' THEN 1 ELSE 0
    <3>1. CASE q = p
      <4>1. view[p].num = Spares - Deaths(step) + 1
        BY <1>2, <1>9 DEF IInv, Numbers
      <4>2. Spares \in Nat
        BY Constants DEF IInv, Typed, ProgressTyped
      <4>3. QED
        BY <1>3, <1>6, <1>9, <2>1, <3>1, <4>1, <4>2
    <3>2. CASE q # p
      BY <1>1, <1>6, <1>9, <3>2 DEF IInv, Numbers
    <3>3. QED
      BY <3>1, <3>2
  <2>3. QED
    BY <1>1, <2>1, <2>2 DEF IInv, Numbers
<1>12. QED
  BY <1>6, <1>7, <1>8, <1>10, <1>11

(* What it does not touch.                                                 *)
LEMMA LearnKeeps ==
    ASSUME IInv, NEW p \in PEs, stage.op = "rollback", UNCHANGED <<progress, sending>>,
           pc' = [pc EXCEPT ![p] = "done"],
           UNCHANGED <<shadow_mem_tail, queue, table, posted>>,
           \A q \in PEs : q \in Rows => Len(shadow'[q]) = Len(shadow[q]),
           \A q \in Storing : Len(shadow'[q]) <= Regions
    PROVE  Calls' /\ Shadows' /\ Rings' /\ RowsInOrder' /\ Drained'
<1>1. /\ program' = program /\ stage' = stage /\ step' = step /\ alive' = alive
      /\ calls' = calls /\ at' = at
      /\ PEs' = PEs /\ Storing' = Storing /\ Regions' = Regions
      /\ Rows \subseteq PEs /\ Storing \subseteq PEs
  BY Frame, Numbering DEF IInv, Typed, ProgressTyped, progress, sending
<1>2. pc'[p] = "done" /\ \A q \in PEs \ {p} : pc'[q] = pc[q]
  BY DEF IInv, Typed
<1>3. Calls'
  BY <1>1 DEF IInv, Calls
<1>4. Shadows'
  <2>1. \A q : ReservedOwn(q)' = ReservedOwn(q)
    BY <1>1 DEF ReservedOwn
  <2>2. QED
    BY <1>1, <2>1 DEF IInv, Shadows
<1>5. Rings'
  <2>1. \A r, t : Sent(r, t)' = Sent(r, t)
    BY <1>1 DEF Sent
  <2>2. QED
    BY <1>1, <2>1, RingsKept DEF IInv
<1>6. RowsInOrder'
  BY <1>1 DEF IInv, RowsInOrder
<1>7. Drained'
  <2>1. \A t : Pending("resrv", t)' = Pending("resrv", t)
    BY DEF Pending
  <2>2. QED
    BY <1>1, <1>2, <2>1 DEF IInv, Drained
<1>8. QED
  BY <1>3, <1>4, <1>5, <1>6, <1>7

(* What is restored from a sequence of data is data.                       *)
LEMMA RestoredTyped ==
    ASSUME Typed, NEW p \in PEs, NEW data \in Seq(Data), NEW n \in 0 .. Len(data)
    PROVE  [mem EXCEPT ![p] = Restored(p, data, n)] \in [PEs -> [Ids -> Data]]
<1>1. mem \in [PEs -> [Ids -> Data]] /\ Regions \in Nat
  BY Constants DEF Typed, ProgressTyped, MemoryTyped
<1>2. ASSUME NEW i \in Ids, i < n
      PROVE  data[i + 1] \in Data
  <2>1. i + 1 \in 1 .. Len(data)
    BY <1>1, <1>2 DEF Ids
  <2>2. QED
    BY <2>1
<1>3. \A i \in Ids : mem[p][i] \in Data
  BY <1>1
<1>4. Restored(p, data, n) \in [Ids -> Data]
  BY <1>2, <1>3 DEF Restored
<1>5. QED
  BY <1>1, <1>4

(* A PE that rolls back.                                                   *)
LEMMA RollBackStep ==
    ASSUME IInv, NEW p \in PEs, RollBack(p)
    PROVE  IInv'
<1> DEFINE after == AfterDeath(p, stage.dead)
<1>1. /\ program' = program /\ stage' = stage /\ step' = step /\ alive' = alive
      /\ calls' = calls /\ at' = at /\ part' = part /\ shadow' = shadow
      /\ shadow_mem_tail' = shadow_mem_tail /\ queue' = queue /\ table' = table
      /\ posted' = posted
      /\ stage.op = "rollback" /\ pc[p] = "call" /\ pc' = [pc EXCEPT ![p] = "done"]
      /\ view' = [view EXCEPT ![p] = AfterDeath(p, stage.dead)]
      /\ UNCHANGED <<progress, sending>>
      /\ UNCHANGED <<shadow_mem_tail, queue, table, posted>>
  BY DEF RollBack, Goto, progress, sending
<1>2. /\ PEs' = PEs /\ Storing' = Storing /\ Regions' = Regions /\ Spares' = Spares
      /\ Ids' = Ids /\ Data' = Data /\ View' = View /\ plan' = plan
      /\ Rows \subseteq PEs /\ Storing \subseteq PEs /\ Rows \union Storing = PEs
  BY <1>1, Frame, Numbering DEF IInv, Typed, ProgressTyped
<1>3. p \in alive
  BY <1>1, InCallAlive DEF IInv
<1>4. IF p \in after.active THEN part'[p] \in Rows ELSE part'[p] = p
  <2>1. after.active = IF stage.dead \in view[p].active
                       THEN view[p].active \union {chosen_pe(p)} ELSE view[p].active
    BY <1>1, <1>3, Chosen DEF IInv
  <2>2. stage.dead \in view[p].active => p \in view[p].active
    BY DEF RollBack, RoleOf, role
  <2>3. IF p \in view[p].active THEN part[p] \in Rows ELSE part[p] = p
    BY <1>3 DEF IInv, Parts
  <2> HIDE DEF after
  <2>4. QED
    BY <1>1, <2>1, <2>2, <2>3
<1> HIDE DEF after
<1>5. view' \in [PEs -> View] /\ Placed' /\ Parts' /\ Views' /\ Numbers'
  BY <1>1, <1>4, Learn DEF after
<1>6. Calls' /\ Shadows' /\ Rings' /\ RowsInOrder' /\ Drained'
  <2>1. \A q \in Storing : Len(shadow'[q]) <= Regions
    BY <1>1, <1>2 DEF IInv, Shadows
  <2>2. QED
    BY <1>1, <2>1, LearnKeeps
<1>7. mem' \in [PEs -> [Ids -> Data]]
  <2>1. mem \in [PEs -> [Ids -> Data]] /\ shadow[p] \in Seq(Data) /\ shadow_mem_tail[p] \in Nat
    BY Constants DEF IInv, Typed, ProgressTyped, MemoryTyped
  <2>2. shadow_mem_tail[p] \in 0 .. Len(shadow[p])
    BY <1>2, <2>1 DEF IInv, Shadows
  <2>3. [mem EXCEPT ![p] = Restored(p, shadow[p], shadow_mem_tail[p])] \in [PEs -> [Ids -> Data]]
    BY <2>1, <2>2, RestoredTyped DEF IInv
  <2>4. QED
    BY <2>1, <2>3 DEF RollBack
<1>8. Typed'
  <2>1. pc' \in [PEs -> Places]
    BY <1>1 DEF IInv, Typed, Places
  <2>2. ProgressTyped' /\ SendingTyped' /\ QueueTyped' /\ TableTyped' /\ PostedTyped'
    BY <1>1, Frame DEF IInv, Typed, ProgressTyped, SendingTyped, QueueTyped, TableTyped, PostedTyped
  <2>3. PesTyped' /\ MemoryTyped'
    BY <1>1, <1>2, <1>5, <1>7 DEF IInv, Typed, PesTyped, MemoryTyped
  <2>4. QED
    BY <1>2, <2>1, <2>2, <2>3 DEF Typed
<1>9. QED
  BY <1>5, <1>6, <1>8 DEF IInv

(* The storage PEs, one of which takes over.                               *)
LEMMA TakeOverStep ==
    ASSUME IInv, NEW s \in Storing, TakeOver(s)
    PROVE  IInv'
<1> DEFINE row == table[s][stage.dead]
           data == [i \in 1 .. Len(row) |-> row[i].data]
           after == AfterDeath(s, stage.dead)
<1>1. /\ program' = program /\ stage' = stage /\ step' = step /\ alive' = alive
      /\ calls' = calls /\ at' = at
      /\ shadow_mem_tail' = shadow_mem_tail /\ queue' = queue /\ table' = table
      /\ posted' = posted
      /\ pc[s] = "restore" /\ pc' = [pc EXCEPT ![s] = "done"]
      /\ view' = [view EXCEPT ![s] = AfterDeath(s, stage.dead)]
      /\ UNCHANGED <<progress, sending>>
      /\ UNCHANGED <<shadow_mem_tail, queue, table, posted>>
      /\ shadow' = IF part[s] = chosen_pe(s) THEN [shadow EXCEPT ![s] = data] ELSE shadow
      /\ mem' = IF part[s] = chosen_pe(s)
                THEN [mem EXCEPT ![s] = Restored(s, data, Len(row))] ELSE mem
      /\ part' = IF part[s] = chosen_pe(s) THEN [part EXCEPT ![s] = stage.dead] ELSE part
  BY DEF TakeOver, Goto, progress, sending
<1>2. /\ PEs' = PEs /\ Storing' = Storing /\ Regions' = Regions /\ Spares' = Spares
      /\ Ids' = Ids /\ Data' = Data /\ View' = View /\ plan' = plan
      /\ Rows \subseteq PEs /\ Storing \subseteq PEs /\ Rows \intersect Storing = {}
      /\ s \in PEs
  BY <1>1, Frame, Numbering DEF IInv, Typed, ProgressTyped
<1>3. /\ s \in alive /\ s \notin view[s].active /\ stage.op = "rollback" /\ stage.dead \in Rows
      /\ part[s] = s /\ stage.dead \in view[s].active
  <2>1. s \in alive /\ MayBe(s, "restore")
    BY <1>1, <1>2, InCallAlive DEF IInv
  <2>2. s \notin view[s].active /\ stage.op = "rollback" /\ stage.dead \in Rows
    BY <2>1 DEF MayBe, Filer
  <2>3. QED
    BY <1>2, <2>1, <2>2 DEF IInv, Parts
<1>4. row \in Seq(Entry) /\ Len(row) \in Nat /\ Len(row) <= Regions
  <2>1. row \in Seq(Entry)
    BY <1>3 DEF IInv, Typed, TableTyped
  <2>2. Len(row) <= Sent(stage.dead, s)
    BY <1>3 DEF IInv, Rings, Reservations
  <2>3. QED
    BY <1>3, <2>1, <2>2 DEF Sent
<1> HIDE DEF row
<1>5. data \in Seq(Data) /\ Len(data) = Len(row)
  <2>1. \A i \in 1 .. Len(row) : row[i].data \in Data
    <3>1. \A i \in 1 .. Len(row) : row[i] \in Entry
      BY <1>4
    <3>2. QED
      BY <3>1 DEF Entry
  <2>2. QED
    BY <1>4, <2>1
<1> HIDE DEF data
<1>6. /\ part \in [PEs -> PEs] /\ shadow \in [PEs -> Seq(Data)]
      /\ mem \in [PEs -> [Ids -> Data]]
  BY DEF IInv, Typed, PesTyped, MemoryTyped
<1>7. IF s \in after.active THEN part'[s] \in Rows ELSE part'[s] = s
  <2>1. after.active = view[s].active \union {chosen_pe(s)}
    BY <1>1, <1>3, Chosen DEF IInv
  <2> HIDE DEF after
  <2>2. QED
    BY <1>1, <1>2, <1>3, <1>6, <2>1
<1>8. /\ \A q \in PEs \ {s} : part'[q] = part[q] /\ shadow'[q] = shadow[q]
      /\ part' \in [PEs -> PEs] /\ shadow' \in [PEs -> Seq(Data)]
      /\ shadow'[s] \in {shadow[s], data}
  BY <1>1, <1>2, <1>3, <1>5, <1>6
<1> HIDE DEF after
<1>9. view' \in [PEs -> View] /\ Placed' /\ Parts' /\ Views' /\ Numbers'
  BY <1>1, <1>2, <1>3, <1>7, <1>8, Learn DEF after
<1>10. Calls' /\ Shadows' /\ Rings' /\ RowsInOrder' /\ Drained'
  <2>1. \A q \in Storing : Len(shadow'[q]) <= Regions
    BY <1>2, <1>4, <1>5, <1>8 DEF IInv, Shadows
  <2>2. \A q \in PEs : q \in Rows => Len(shadow'[q]) = Len(shadow[q])
    BY <1>2, <1>8
  <2>3. QED
    BY <1>1, <1>2, <1>3, <2>1, <2>2, LearnKeeps
<1>11. mem' \in [PEs -> [Ids -> Data]]
  <2>1. Len(row) \in 0 .. Len(data)
    BY <1>4, <1>5
  <2>2. [mem EXCEPT ![s] = Restored(s, data, Len(row))] \in [PEs -> [Ids -> Data]]
    BY <1>2, <1>5, <2>1, RestoredTyped DEF IInv
  <2>3. QED
    BY <1>1, <1>6, <2>2
<1>12. Typed'
  <2>1. pc' \in [PEs -> Places]
    BY <1>1 DEF IInv, Typed, Places
  <2>2. ProgressTyped' /\ SendingTyped' /\ QueueTyped' /\ TableTyped' /\ PostedTyped'
    BY <1>1, Frame DEF IInv, Typed, ProgressTyped, SendingTyped, QueueTyped, TableTyped, PostedTyped
  <2>3. PesTyped' /\ MemoryTyped'
    BY <1>1, <1>2, <1>8, <1>9, <1>11 DEF IInv, Typed, PesTyped, MemoryTyped
  <2>4. QED
    BY <1>2, <2>1, <2>2, <2>3 DEF Typed
<1>13. QED
  BY <1>9, <1>10, <1>12 DEF IInv

-----------------------------------------------------------------------------
(* What a barrier leaves as it was.  No PE is in a call when it is reached *)
(* and every reservation has been sent.                                    *)
LEMMA AtBarrier ==
    ASSUME IInv, StageOver, NEW p \in PEs
    PROVE  /\ pc[p] = "done" /\ calls[p] = Regions /\ ReservedOwn(p) = Regions
           /\ \A s : Sent(p, s) = Regions
<1>1. pc[p] = "done"
  BY DEF IInv, Placed, MayBe, StageOver
<1>2. calls[p] = Regions
  BY <1>1 DEF IInv, Calls
<1>3. Regions \in Nat
  BY Constants DEF IInv, Typed, ProgressTyped
<1>4. ReservedOwn(p) = Regions /\ \A s : Sent(p, s) = Regions
  BY <1>1, <1>2, <1>3 DEF ReservedOwn, Sent, Sender
<1>5. QED
  BY <1>1, <1>2, <1>4

(* What the PEs go on with is data.                                        *)
LEMMA ComputedTyped ==
    ASSUME Typed, NEW by, NEW work \in 0 .. Len(plan)
    PROVE  Computed(by, work) \in [PEs -> [Ids -> Data]]
<1>1. mem \in [PEs -> [Ids -> Data]] /\ part \in [PEs -> PEs]
  BY DEF Typed, PesTyped, MemoryTyped
<1>2. ASSUME NEW p \in PEs, NEW i \in Ids
      PROVE  (IF p \in by THEN [row |-> part[p], work |-> work] ELSE mem[p][i]) \in Data
  <2>1. CASE p \in by
    BY <1>1, <2>1 DEF Data, MaxWork
  <2>2. CASE p \notin by
    BY <1>1, <2>2
  <2>3. QED
    BY <2>1, <2>2
<1>3. QED
  BY <1>2 DEF Computed

(* A barrier that leads to another stage than a rollback, or to one whose  *)
(* death has been counted, keeps what does not depend on the stage.        *)
LEMMA EnterKeeps ==
    ASSUME IInv, NEW st \in Stages, NEW by, Enter(st, by), st.op # "reserve",
           step' \in 0 .. Len(plan), alive' \subseteq alive, by = alive',
           mem' \in [PEs -> [Ids -> Data]], st.op = "rollback" => st.dead \in PEs
    PROVE  Typed' /\ Placed' /\ Parts' /\ Calls' /\ Shadows' /\ Rings' /\ RowsInOrder' /\ Drained'
<1>1. /\ program' = program /\ stage' = st /\ calls' = calls /\ at' = at
      /\ part' = part /\ view' = view /\ shadow' = shadow
      /\ shadow_mem_tail' = shadow_mem_tail /\ queue' = queue /\ table' = table
      /\ posted' = posted /\ StageOver
      /\ pc' = [p \in PEs |-> IF p \in by THEN "call" ELSE "done"]
  BY DEF Enter, sending, pes
<1>2. /\ PEs' = PEs /\ Storing' = Storing /\ Regions' = Regions /\ Spares' = Spares
      /\ Ids' = Ids /\ Data' = Data /\ View' = View /\ plan' = plan /\ Stages' = Stages
      /\ Rows \subseteq PEs /\ Storing \subseteq PEs
  BY <1>1, Frame, Numbering DEF IInv, Typed, ProgressTyped
<1>3. \A p \in PEs : pc'[p] = IF p \in by THEN "call" ELSE "done"
  BY <1>1
<1>4. Typed'
  <2>1. pc' \in [PEs -> Places]
    BY <1>1 DEF Places
  <2>2. ProgressTyped'
    BY <1>1, <1>2 DEF IInv, Typed, ProgressTyped
  <2>3. SendingTyped' /\ PesTyped' /\ QueueTyped' /\ TableTyped' /\ PostedTyped'
    BY <1>1, Frame DEF IInv, Typed, SendingTyped, PesTyped, QueueTyped, TableTyped, PostedTyped
  <2>4. MemoryTyped'
    BY <1>1, <1>2 DEF IInv, Typed, MemoryTyped
  <2>5. QED
    BY <1>2, <2>1, <2>2, <2>3, <2>4 DEF Typed
<1>5. Placed'
  BY <1>2, <1>3 DEF Placed, MayBe, Sender, Filer
<1>6. Parts'
  BY <1>1, <1>2 DEF IInv, Parts
<1>7. Calls'
  BY <1>1, <1>2, AtBarrier DEF Calls
<1>8. Shadows'
  <2>1. \A p \in PEs : ReservedOwn(p)' = ReservedOwn(p)
    BY <1>1, <1>2, <1>3, Constants, AtBarrier DEF ReservedOwn, IInv, Typed, ProgressTyped
  <2>2. QED
    BY <1>1, <1>2, <2>1 DEF IInv, Shadows
<1>9. Rings'
  <2>1. \A r \in Rows, s \in Storing : Sent(r, s)' = Sent(r, s)
    BY <1>1, <1>2, AtBarrier DEF Sent
  <2>2. QED
    BY <1>1, <2>1, RingsKept DEF IInv
<1>10. RowsInOrder' /\ Drained'
  BY <1>1, <1>2, <1>3 DEF IInv, RowsInOrder, Drained
<1>11. QED
  BY <1>4, <1>5, <1>6, <1>7, <1>8, <1>9, <1>10

(* Before a barrier all that are alive see the PEs alike.                  *)
LEMMA ViewsAgree ==
    ASSUME IInv, StageOver
    PROVE  /\ \A p, q \in alive : view[p] = view[q]
           /\ \A p \in alive : view[p].num = Spares - Deaths(step)
<1>1. \A p \in alive : pc[p] = "done"
  BY DEF StageOver
<1>2. \A p, q \in alive : RolledBack(p) <=> RolledBack(q)
  BY <1>1 DEF RolledBack
<1>3. \A p \in alive : ~(stage.op = "rollback" /\ ~RolledBack(p))
  BY <1>1 DEF RolledBack
<1>4. Deaths(step) \in Nat /\ Spares \in Nat
  BY CountDeaths, Constants DEF IInv, Typed, ProgressTyped
<1>5. ASSUME NEW p \in alive
      PROVE  view[p].num = Spares - Deaths(step)
  <2>1. view[p].num = Spares - Deaths(step) + 0
    BY <1>3 DEF IInv, Numbers
  <2>2. QED
    BY <1>4, <2>1
<1>6. QED
  BY <1>2, <1>5 DEF IInv, Views

(* The barriers after which nobody has died.                               *)
LEMMA CallStep ==
    ASSUME IInv, NEW st \in Stages, Enter(st, alive), alive' = alive,
           st.op \in {"checkpoint", "drain"}, step' \in 0 .. Len(plan),
           Deaths(step') = Deaths(step), mem' \in [PEs -> [Ids -> Data]]
    PROVE  IInv'
<1>1. /\ program' = program /\ stage' = st /\ view' = view /\ StageOver
  BY DEF Enter, pes
<1>2. Typed' /\ Placed' /\ Parts' /\ Calls' /\ Shadows' /\ Rings' /\ RowsInOrder' /\ Drained'
  BY EnterKeeps
<1>3. Views'
  BY <1>1, ViewsAgree DEF Views, RolledBack
<1>4. Numbers'
  <2>1. Spares' = Spares /\ plan' = plan
    BY <1>1, Frame
  <2>2. Deaths(step)' = Deaths(step)
    BY <2>1 DEF Deaths, DeathSteps
  <2>3. Deaths(step) \in Nat /\ Spares \in Nat
    BY CountDeaths, Constants DEF IInv, Typed, ProgressTyped
  <2>4. QED
    BY <1>1, <2>1, <2>2, <2>3, ViewsAgree DEF IInv, Numbers, RolledBack
<1>5. QED
  BY <1>2, <1>3, <1>4 DEF IInv

(* The next region, or the last stage.                                     *)
LEMMA NextRegionStep ==
    ASSUME IInv, NextRegion
    PROVE  IInv'
<1> DEFINE st == [stage EXCEPT !.id = @ + 1]
<1>1. /\ stage.op = "checkpoint" /\ stage.id \in Ids /\ stage.id < Regions - 1
      /\ stage \in Stages /\ Regions \in Nat
  BY StageMeans, Constants DEF IInv, Typed, ProgressTyped, NextRegion
<1>2. stage \in [op : {"checkpoint"}, id : Ids]
  BY <1>1 DEF Stages
<1>3. stage.id + 1 \in Ids
  BY <1>1 DEF Ids
<1>4. st \in [op : {"checkpoint"}, id : Ids]
  BY <1>2, <1>3
<1>5. st \in Stages /\ st.op = "checkpoint"
  BY <1>4 DEF Stages
<1> HIDE DEF st
<1>6. /\ Enter(st, alive) /\ step' = step /\ alive' = alive /\ mem' = mem
  BY DEF NextRegion, st
<1>7. step' \in 0 .. Len(plan) /\ mem' \in [PEs -> [Ids -> Data]]
  BY <1>6 DEF IInv, Typed, ProgressTyped, MemoryTyped
<1>8. QED
  BY <1>5, <1>6, <1>7, CallStep

(* The program is over when its plan is.                                   *)
LEMMA DrainStep ==
    ASSUME IInv, Drain
    PROVE  IInv'
<1>1. [op |-> "drain"] \in Stages
  BY DEF Stages
<1>2. step' = step /\ alive' = alive /\ mem' = mem /\ Enter([op |-> "drain"], alive)
  BY DEF Drain
<1>3. step' \in 0 .. Len(plan) /\ mem' \in [PEs -> [Ids -> Data]]
  BY <1>2 DEF IInv, Typed, ProgressTyped, MemoryTyped
<1>4. QED
  BY <1>1, <1>2, <1>3, CallStep

(* A round counts no death.                                                *)
LEMMA NextRoundStep ==
    ASSUME IInv, NextRound
    PROVE  IInv'
<1>1. /\ Regions \in Nat \ {0} /\ step \in 0 .. Len(plan) /\ Len(plan) \in Nat
  BY Constants DEF IInv, Typed, ProgressTyped
<1>2. FirstRegion \in Stages /\ FirstRegion.op = "checkpoint"
  <2>1. 0 \in Ids
    BY <1>1 DEF Ids
  <2>2. QED
    BY <2>1 DEF FirstRegion, Stages
<1>3. /\ step < Len(plan) /\ plan[step + 1] = "round" /\ step' = step + 1 /\ alive' = alive
      /\ Enter(FirstRegion, alive) /\ mem' = Computed(alive, step + 1)
  BY DEF NextRound
<1>4. step' \in 0 .. Len(plan)
  BY <1>1, <1>3
<1>5. Deaths(step') = Deaths(step)
  <2>1. Deaths(step + 1) = Deaths(step) + IF plan[step + 1] = "death" THEN 1 ELSE 0
    BY <1>1, <1>3, CountDeaths DEF IInv, Typed, ProgressTyped
  <2>2. Deaths(step) \in Nat
    BY <1>1, CountDeaths DEF IInv, Typed, ProgressTyped
  <2>3. QED
    BY <1>3, <2>1, <2>2
<1>6. mem' \in [PEs -> [Ids -> Data]]
  BY <1>3, <1>4, ComputedTyped DEF IInv
<1>7. QED
  BY <1>2, <1>3, <1>4, <1>5, <1>6, CallStep

(* The death of a PE, which computes for a row or stores.                  *)
LEMMA DieStep ==
    ASSUME IInv, Die
    PROVE  IInv'
<1>1. PICK d \in MayDie \intersect alive :
        /\ alive' = alive \ {d}
        /\ Enter([op |-> "rollback", dead |-> part[d]], alive \ {d})
        /\ mem' = Computed(alive \ {d}, step + 1)
  BY DEF Die
<1> DEFINE st == [op |-> "rollback", dead |-> part[d]]
<1>2. /\ step < Len(plan) /\ plan[step + 1] = "death" /\ step' = step + 1
      /\ step \in 0 .. Len(plan) /\ Len(plan) \in Nat
  BY Constants DEF Die, IInv, Typed, ProgressTyped
<1>3. d \in PEs /\ alive \subseteq PEs /\ part[d] \in PEs
  BY DEF IInv, Typed, ProgressTyped, PesTyped
<1>4. st \in Stages /\ st.op = "rollback" /\ st.dead = part[d]
  BY <1>3 DEF Stages
<1> HIDE DEF st
<1>5. Enter(st, alive \ {d})
  BY <1>1 DEF st
<1>6. step' \in 0 .. Len(plan)
  BY <1>2
<1>7. mem' \in [PEs -> [Ids -> Data]]
  BY <1>1, <1>2, <1>6, ComputedTyped DEF IInv
<1>8. Typed' /\ Placed' /\ Parts' /\ Calls' /\ Shadows' /\ Rings' /\ RowsInOrder' /\ Drained'
  BY <1>1, <1>3, <1>4, <1>5, <1>6, <1>7, EnterKeeps
<1>9. /\ program' = program /\ stage' = st /\ view' = view /\ StageOver
      /\ pc' = [p \in PEs |-> IF p \in alive' THEN "call" ELSE "done"]
  BY <1>1, <1>5 DEF Enter, pes
<1>10. \A p \in alive' : ~RolledBack(p)'
  BY <1>1, <1>3, <1>9 DEF RolledBack
<1>11. Views'
  <2>1. \A p, q \in alive' : view'[p] = view'[q]
    BY <1>1, <1>9, ViewsAgree
  <2>2. part[d] \in Rows \/ \A p \in alive' : part[d] \notin view'[p].active
    <3>1. \A p \in alive : view[p] = view[d]
      BY <1>1, <1>9, ViewsAgree
    <3>2. IF d \in view[d].active THEN part[d] \in Rows ELSE part[d] = d
      BY <1>1, <1>3 DEF IInv, Parts
    <3>3. QED
      BY <1>1, <1>9, <3>1, <3>2
  <2>3. QED
    BY <1>4, <1>9, <1>10, <2>1, <2>2 DEF Views
<1>12. Numbers'
  <2>1. Spares' = Spares /\ plan' = plan
    BY <1>9, Frame
  <2>2. Deaths(step)' = Deaths(step) + 1
    <3>1. Deaths(step)' = Deaths(step')
      BY <2>1 DEF Deaths, DeathSteps
    <3>2. QED
      BY <1>2, <3>1, CountDeaths DEF IInv, Typed, ProgressTyped
  <2>3. Deaths(step) \in Nat /\ Spares \in Nat /\ Originals \in Nat
    BY CountDeaths, Constants DEF IInv, Typed, ProgressTyped
  <2>4. Cardinality(alive') = Cardinality(alive) - 1
    <3>1. IsFiniteSet(alive)
      <4>1. Originals + Spares - 1 \in Int
        BY <2>3
      <4>2. IsFiniteSet(PEs)
        BY <4>1, FS_Interval DEF PEs
      <4>3. QED
        BY <1>3, <4>2, FS_Subset
    <3>2. QED
      BY <1>1, <3>1, FS_RemoveElement
  <2>5. ASSUME NEW p \in alive'
        PROVE  view'[p].num = Spares - Deaths(step)' + 1
    <3>1. view[p].num = Spares - Deaths(step)
      BY <1>1, <1>9, ViewsAgree
    <3>2. QED
      BY <1>9, <2>2, <2>3, <3>1
  <2>6. Cardinality(alive)' = Originals + Spares - Deaths(step)'
    BY <2>2, <2>3, <2>4 DEF IInv, Numbers
  <2>7. QED
    BY <1>4, <1>9, <1>10, <2>1, <2>5, <2>6 DEF Numbers
<1>13. QED
  BY <1>8, <1>11, <1>12 DEF IInv

-----------------------------------------------------------------------------
(* Nothing has been sent in the first state.                               *)
LEMMA NothingClaimed ==
    ASSUME Init, NEW k \in Queues, NEW s \in Storing
    PROVE  Claimed(k, s) = {} /\ SlotsClaimed(k, s)
<1> USE DEF Init
<1>1. queue[k][s] = [head |-> 0, tail |-> 0, sig |-> 0, slots |-> [i \in Slots |-> Empty]]
  BY DEF Slots
<1>2. posted = {}
  OBVIOUS
<1>3. Empty \notin Carriers
  BY Numbering DEF Empty, Carriers
<1> HIDE DEF Init
<1>4. \A i \in Slots : queue[k][s].slots[i] = Empty
  <2>1. queue[k][s].slots = [i \in Slots |-> Empty]
    BY <1>1
  <2>2. QED
    BY <2>1
<1>5. Claimed(k, s) = {}
  <2> SUFFICES ASSUME NEW x \in Claimed(k, s)
               PROVE  FALSE
    OBVIOUS
  <2>1. x.slot \in Slots /\ x.carrier \in Carriers
    BY DEF Claimed
  <2>2. queue[k][s].slots[x.slot] = x.carrier
    BY <1>2 DEF Claimed
  <2>3. QED
    BY <1>3, <1>4, <2>1, <2>2
<1>6. SlotsClaimed(k, s)
  <2>1. queue[k][s].head = 0 /\ queue[k][s].tail = 0
    BY <1>1
  <2>2. 0 .. queue[k][s].tail - 1 = {}
    BY <2>1
  <2>3. QED
    BY <1>2, <1>5, <2>1, <2>2 DEF SlotsClaimed
<1>7. QED
  BY <1>5, <1>6

(* So the invariant holds in it.                                           *)
LEMMA InitInv == Init => IInv
<1> SUFFICES ASSUME Init
             PROVE  IInv
  OBVIOUS
<1> USE DEF Init
<1>1. /\ Originals \in Nat \ {0} /\ Spares \in Nat \ {0} /\ Regions \in Nat \ {0}
      /\ QueueLen \in Nat \ {0} /\ Len(plan) \in Nat
      /\ PEs \subseteq Nat /\ Rows \subseteq PEs /\ Storing \subseteq PEs
      /\ Rows \intersect Storing = {} /\ -1 \notin Rows
  BY Constants, Numbering
<1>2. Typed
  <2>1. ProgressTyped
    BY <1>1 DEF ProgressTyped, Stages
  <2>2. pc \in [PEs -> Places] /\ SendingTyped /\ PesTyped
    BY <1>1 DEF Places, SendingTyped, PesTyped, View
  <2>3. MemoryTyped
    <3>1. \A p \in PEs : [row |-> p, work |-> 0] \in Data
      BY <1>1 DEF Data, MaxWork
    <3>2. mem \in [PEs -> [Ids -> Data]]
      BY <3>1
    <3>3. QED
      BY <1>1, <3>2 DEF MemoryTyped
  <2>4. QueueTyped
    <3>1. [head |-> 0, tail |-> 0, sig |-> 0, slots |-> [i \in Slots |-> Empty]] \in Ring
      BY DEF Ring
    <3>2. QED
      BY <3>1 DEF QueueTyped, Slots
  <2>5. TableTyped /\ PostedTyped
    BY DEF TableTyped, PostedTyped
  <2>6. QED
    BY <2>1, <2>2, <2>3, <2>4, <2>5 DEF Typed
<1>3. Placed /\ Parts /\ Views
  BY <1>1 DEF Placed, MayBe, Sender, Filer, Parts, Views, RolledBack
<1>4. Numbers
  <2>1. Cardinality(PEs) = Originals + Spares
    BY <1>1, FS_Interval DEF PEs
  <2>2. DeathSteps(0) = {}
    BY DEF DeathSteps
  <2>3. Deaths(step) = 0
    BY <2>2, FS_EmptySet DEF Deaths
  <2>4. QED
    BY <1>1, <2>1, <2>3 DEF Numbers
<1>5. Calls
  BY <1>1 DEF Calls
<1>6. Shadows
  BY <1>1 DEF Shadows, ReservedOwn, Sender
<1>7. Rings
  <2>1. SUFFICES ASSUME NEW s \in Storing
                 PROVE  SlotsClaimed("resrv", s) /\ Reservations(s)
    BY DEF Rings
  <2>2. Claimed("resrv", s) = {} /\ SlotsClaimed("resrv", s)
    BY NothingClaimed DEF Queues
  <2>3. \A r \in Rows : Sent(r, s) = 0 /\ Len(table[s][r]) = 0
    BY <1>1 DEF Sent
  <2>4. Reservations(s)
    BY <2>2, <2>3 DEF Reservations
  <2>5. QED
    BY <2>2, <2>4
<1>8. RowsInOrder /\ Drained
  BY DEF RowsInOrder, Drained
<1>9. QED
  BY <1>2, <1>3, <1>4, <1>5, <1>6, <1>7, <1>8 DEF IInv

(* Every step keeps the invariant.                                         *)
LEMMA NextInv == IInv /\ [Next]_vars => IInv'
<1> SUFFICES ASSUME IInv, [Next]_vars
             PROVE  IInv'
  OBVIOUS
<1>1. Storing \subseteq PEs
  BY Numbering DEF IInv, Typed, ProgressTyped
<1>2. CASE UNCHANGED vars
  <2>1. /\ UNCHANGED <<program, stage, step, alive, pc, calls, at, part, view>>
        /\ UNCHANGED <<mem, shadow, shadow_mem_tail, queue, table, posted>>
    BY <1>2 DEF vars, progress, sending, pes, memory
  <2>2. /\ PEs' = PEs /\ Storing' = Storing /\ Spares' = Spares /\ Regions' = Regions
        /\ plan' = plan /\ Carriers' = Carriers
    BY <2>1, Frame
  <2>3. Typed'
    <3>1. ProgressTyped' /\ SendingTyped' /\ PesTyped' /\ MemoryTyped'
      BY <2>1, Frame DEF IInv, Typed, ProgressTyped, SendingTyped, PesTyped, MemoryTyped
    <3>2. QueueTyped' /\ TableTyped' /\ PostedTyped'
      BY <2>1, Frame DEF IInv, Typed, QueueTyped, TableTyped, PostedTyped
    <3>3. QED
      BY <2>1, <2>2, <3>1, <3>2 DEF IInv, Typed
  <2>4. Placed' /\ Parts' /\ Calls'
    BY <2>1, <2>2 DEF IInv, Placed, MayBe, Parts, Calls
  <2>5. \A q : /\ RolledBack(q)' <=> RolledBack(q)
               /\ AfterDeath(q, stage.dead)' = AfterDeath(q, stage.dead)
    BY <2>1, SameDeath DEF RolledBack
  <2>6. Views'
    BY <2>1, <2>5 DEF IInv, Views
  <2>7. Numbers'
    <3>1. Deaths(step)' = Deaths(step)
      BY <2>1, <2>2 DEF Deaths, DeathSteps
    <3>2. QED
      BY <2>1, <2>2, <2>5, <3>1 DEF IInv, Numbers
  <2>8. Shadows'
    <3>1. \A q : ReservedOwn(q)' = ReservedOwn(q)
      BY <2>1 DEF ReservedOwn
    <3>2. QED
      BY <2>1, <2>2, <3>1 DEF IInv, Shadows
  <2>9. Rings'
    <3>1. \A r, s : Sent(r, s)' = Sent(r, s)
      BY <2>1, <2>2 DEF Sent
    <3>2. QED
      BY <2>1, <3>1, RingsKept DEF IInv
  <2>10. RowsInOrder' /\ Drained'
    BY <2>1, <2>2 DEF IInv, RowsInOrder, Drained, Pending
  <2>11. QED
    BY <2>3, <2>4, <2>6, <2>7, <2>8, <2>9, <2>10 DEF IInv
<1>3. ASSUME NEW p \in PEs, pc[p] # "done", ComputingStep(p)
      PROVE  IInv'
  <2>1. CASE Reserve(p)
    BY <1>3, <2>1, ReserveStep
  <2>2. CASE CheckpointData(p)
    BY <1>3, <2>2, CheckpointDataStep
  <2>3. CASE Send(p)
    BY <1>3, <2>3, SendStep
  <2>4. CASE TestSignal(p)
    BY <1>3, <2>4, TestSignalStep
  <2>5. CASE SetSignal(p)
    BY <1>3, <2>5, SetSignalStep
  <2>6. CASE IdleInDrain(p)
    BY <1>3, <2>6, IdleInDrainStep
  <2>7. CASE RollBack(p)
    BY <1>3, <2>7, RollBackStep
  <2>8. QED
    BY <1>3, <2>1, <2>2, <2>3, <2>4, <2>5, <2>6, <2>7 DEF ComputingStep
<1>4. ASSUME NEW s \in Storing, pc[s] # "done", StorageStep(s)
      PROVE  IInv'
  <2>1. CASE WaitReserve(s)
    BY <1>1, <1>4, <2>1, WaitReserveStep
  <2>2. CASE FileReservation(s)
    BY <1>1, <1>4, <2>2, FileReservationStep
  <2>3. CASE EndReserve(s)
    BY <1>1, <1>4, <2>3, EndReserveStep
  <2>4. CASE ClearSignal(s)
    BY <1>1, <1>4, <2>4, ClearSignalStep
  <2>5. CASE CheckpointStored(s)
    BY <1>1, <1>4, <2>5, CheckpointStoredStep
  <2>6. CASE WaitCheck(s)
    BY <1>1, <1>4, <2>6, WaitCheckStep
  <2>7. CASE FileData(s)
    BY <1>1, <1>4, <2>7, FileDataStep
  <2>8. CASE EndCheckpoint(s)
    BY <1>1, <1>4, <2>8, EndCheckpointStep
  <2>9. CASE EmptyQueue(s)
    BY <1>1, <1>4, <2>9, EmptyQueueStep
  <2>10. CASE TakeOver(s)
    BY <1>1, <1>4, <2>10, TakeOverStep
  <2>11. QED
    BY <1>4, <2>1, <2>2, <2>3, <2>4, <2>5, <2>6, <2>7, <2>8, <2>9, <2>10 DEF StorageStep
<1>5. ASSUME NEW m \in posted, Deliver(m)
      PROVE  IInv'
  BY <1>5, DeliverStep
<1>6. CASE Barrier
  BY <1>6, NextRegionStep, NextRoundStep, DieStep, DrainStep DEF Barrier
<1>7. QED
  BY <1>2, <1>3, <1>4, <1>5, <1>6 DEF Next, Step

(* There is always a PE left.                                              *)
LEMMA SomeoneAlive == IInv => IsPlain
<1> SUFFICES ASSUME IInv, alive = {}
             PROVE  FALSE
  BY DEF IsPlain
<1>1. Originals \in Nat \ {0} /\ Spares \in Nat
  BY Constants DEF IInv, Typed, ProgressTyped
<1>2. Deaths(step) \in Nat /\ Deaths(step) <= Spares
  BY CountDeaths DEF IInv, Typed, ProgressTyped
<1>3. Cardinality(alive) = Originals + Spares - Deaths(step)
  BY DEF IInv, Numbers
<1>4. Cardinality(alive) = 0
  BY FS_EmptySet
<1>5. QED
  BY <1>1, <1>2, <1>3, <1>4

-----------------------------------------------------------------------------
(* In a program of checkpoint.c the invariant holds.                       *)
THEOREM Invariance == AnySpec /\ IsPlain => []IInv
<1>1. AnyInit /\ IsPlain => IInv
  BY InitInv DEF AnyInit, IsPlain
<1>2. IInv /\ [AnyNext]_<<vars, OnlyMatmul>> => IInv'
  <2> SUFFICES ASSUME IInv, [AnyNext]_<<vars, OnlyMatmul>>
               PROVE  IInv'
    OBVIOUS
  <2>1. [Next]_vars
    BY SomeoneAlive DEF AnyNext
  <2>2. QED
    BY <2>1, NextInv
<1>3. QED
  BY <1>1, <1>2, PTL DEF AnySpec

(* Indices of rings, rows and shadow memories stay in range, and a PE is   *)
(* always somewhere in a call that its role allows.                        *)
THEOREM TypeCorrect == AnySpec /\ IsPlain => []AnyTypeOK
<1>1. IInv => AnyTypeOK
  <2> SUFFICES ASSUME IInv
               PROVE  TypeOK
    BY SomeoneAlive DEF AnyTypeOK
  <2>1. Rows \subseteq PEs /\ Storing \subseteq PEs /\ Rows \union Storing = PEs
    BY Numbering DEF IInv, Typed, ProgressTyped
  <2>2. \A p \in PEs : shadow[p] \in Seq(Data) /\ Len(shadow[p]) <= Regions
    <3>1. \A p \in Rows : Len(shadow[p]) = shadow_mem_tail[p]
      BY <2>1 DEF IInv, Shadows
    <3>2. \A p \in PEs : shadow[p] \in Seq(Data) /\ shadow_mem_tail[p] \in 0 .. Regions
      BY DEF IInv, Typed, MemoryTyped
    <3>3. \A p \in Storing : Len(shadow[p]) <= Regions
      BY <2>1 DEF IInv, Shadows
    <3>4. QED
      BY <2>1, <3>1, <3>2, <3>3
  <2>3. posted \in SUBSET [to : PEs, queue : Queues, slot : 0 .. QueueLen - 1, carrier : Carriers]
    BY <2>1 DEF IInv, Typed, PostedTyped, Slots
  <2>4. /\ pc \in [PEs -> {"call", "send", "signal", "set", "rwait", "rloop", "rclear",
                           "cwait", "cloop", "restore", "done"}]
        /\ view \in [PEs -> [active : SUBSET PEs, dead : SUBSET PEs, num : 0 .. Spares]]
        /\ queue \in [Queues -> [Storing ->
             [head : Nat, tail : Nat, sig : {0, 1},
              slots : [0 .. QueueLen - 1 -> Carriers \union {Empty}]]]]
    BY DEF IInv, Typed, Places, PesTyped, View, QueueTyped, Ring, Slots
  <2>5. \A s \in Storing, r \in Rows : table[s][r] \in Seq([id : Ids, data : Data])
    BY DEF IInv, Typed, TableTyped, Entry
  <2>6. QED
    BY <2>2, <2>3, <2>4, <2>5 DEF TypeOK, IInv, Typed, ProgressTyped, SendingTyped, PesTyped,
       MemoryTyped
<1>2. QED
  BY <1>1, Invariance, PTL

(* The row of a computing PE has its regions in the order of their ids, so *)
(* that the id is the index.                                               *)
THEOREM IdsAreIndicesAlways == AnySpec /\ IsPlain => []IdsAreIndices
<1>1. IInv => IdsAreIndices
  BY SomeoneAlive DEF IInv, IdsAreIndices
<1>2. QED
  BY <1>1, Invariance, PTL

(* A storage PE without pending reservations has filed all of them.        *)
LEMMA AllFiled ==
    ASSUME IInv, NEW s \in Storing, NEW r \in Rows, ~Pending("resrv", s),
           stage.op = "reserve" => Sent(r, s) = Regions
    PROVE  Len(table[s][r]) = Regions
<1>1. Regions \in Nat \ {0} /\ QueueLen \in Nat \ {0} /\ Sent(r, s) = Regions
  BY Constants DEF IInv, Typed, ProgressTyped, Sent
<1>2. Len(table[s][r]) \in Nat /\ Len(table[s][r]) <= Regions
  BY <1>1 DEF IInv, Typed, TableTyped, Rings, Reservations
<1>3. ASSUME Len(table[s][r]) < Regions
      PROVE  FALSE
  <2>1. Len(table[s][r]) \in 0 .. Sent(r, s) - 1
    BY <1>1, <1>2, <1>3
  <2>2. PICK x \in Claimed("resrv", s) :
          x.carrier.pe_num = r /\ x.carrier.id = Len(table[s][r])
    BY <2>1 DEF IInv, Rings, Reservations
  <2>3. x.slot \in Nat /\ x.slot < queue["resrv"][s].tail
    BY <1>1 DEF IInv, Rings, SlotsClaimed, Claimed, Slots
  <2>4. queue["resrv"][s].head \in Nat /\ queue["resrv"][s].tail \in Nat
    BY DEF IInv, Typed, QueueTyped, Queues, Ring
  <2>5. x.slot < queue["resrv"][s].head
    BY <2>3, <2>4 DEF Pending
  <2>6. x.carrier.id < Len(table[s][x.carrier.pe_num])
    BY <2>5 DEF IInv, Rings, Reservations
  <2>7. QED
    BY <1>2, <2>2, <2>6
<1>4. QED
  BY <1>1, <1>2, <1>3

(* A checkpoint is filed where its region has been reserved.               *)
THEOREM PlacesReserved == AnySpec /\ IsPlain => []PlaceReserved
<1>1. IInv => PlaceReserved
  <2> SUFFICES ASSUME IInv
               PROVE  ReservedFirst
    BY SomeoneAlive DEF PlaceReserved
  <2> SUFFICES ASSUME NEW s \in Storing, pc[s] = "cloop", First("check", s) # Empty
               PROVE  First("check", s).id < Len(table[s][First("check", s).pe_num])
    BY DEF ReservedFirst
  <2> DEFINE c == First("check", s)
  <2>1. /\ s \in PEs /\ Regions \in Nat \ {0} /\ QueueLen \in Nat \ {0}
    BY Numbering, Constants DEF IInv, Typed, ProgressTyped
  <2>2. c \in Carriers
    <3>1. queue["check"][s] \in Ring
      BY DEF IInv, Typed, QueueTyped, Queues
    <3>2. queue["check"][s].head % QueueLen \in Slots
      <4>1. queue["check"][s].head \in Nat
        BY <3>1 DEF Ring
      <4>2. QED
        BY <2>1, <4>1 DEF Slots
    <3>3. QED
      BY <3>1, <3>2 DEF First, Ring
  <2>3. c.pe_num \in Rows /\ c.id \in Ids
    BY <2>2 DEF Carriers
  <2>4. stage.op # "reserve" /\ ~Pending("resrv", s)
    BY <2>1 DEF IInv, Placed, MayBe, Drained
  <2>5. Len(table[s][c.pe_num]) = Regions
    BY <2>3, <2>4, AllFiled
  <2>6. QED
    BY <2>1, <2>3, <2>5 DEF Ids
<1>2. QED
  BY <1>1, Invariance, PTL

-----------------------------------------------------------------------------
(* What the storage PEs hold of the checkpoints.  First, the rounds that   *)
(* have begun; a PE that computes for a row.                               *)
RoundSteps(n) == {w \in 1 .. n : plan[w] = "round"}
Acting(p) == p \in alive /\ p \in view[p].active

(* The rounds in which p has taken the region i into its shadow memory,    *)
(* and those in which it has sent it to s.                                 *)
Kept(p, i) ==
    IF stage.op = "checkpoint" => i < stage.id \/ (i = stage.id /\ pc[p] # "call")
    THEN RoundSteps(step) ELSE RoundSteps(step - 1)
Passed(p, s) == \/ pc[p] = "done"
                \/ pc[p] \in {"signal", "set"} /\ cpr_storage_pes(at[p]) >= s
                \/ pc[p] = "send" /\ cpr_storage_pes(at[p]) > s
Gone(p, i, s) ==
    IF stage.op = "checkpoint" => i < stage.id \/ (i = stage.id /\ Passed(p, s))
    THEN RoundSteps(step) ELSE RoundSteps(step - 1)

(* The rounds of the carriers of a region in the ring of s, and of those   *)
(* that are behind its head.                                               *)
Of(x, r, i) == x.carrier.pe_num = r /\ x.carrier.id = i
Works(r, i, s) ==
    {w \in 0 .. MaxWork : \E x \in Claimed("check", s) : Of(x, r, i) /\ x.carrier.data.work = w}
FiledWorks(r, i, s) ==
    {w \in 0 .. MaxWork : \E x \in Claimed("check", s) :
        Of(x, r, i) /\ x.carrier.data.work = w /\ x.slot < queue["check"][s].head}

(* The data of the last of some rounds.                                    *)
Latest(rounds, r, d) ==
    \/ rounds = {} /\ d = NoData
    \/ \E w \in rounds : (\A v \in rounds : v <= w) /\ d = [row |-> r, work |-> w]

Timing ==
    /\ stage.op = "checkpoint" => step # 0 /\ plan[step] = "round"
    /\ stage.op = "rollback" => step # 0 /\ plan[step] = "death"

(* A storage PE has filed all reservations once it has been through its    *)
(* first checkpoint, and all checkpoints when it restores.                 *)
Emptied ==
    /\ \A s \in alive \intersect Storing :
        /\ s \notin view[s].active /\ stage.op # "reserve"
        /\ stage.op = "checkpoint" /\ stage.id = 0 /\ step = 1 => pc[s] = "done"
        => ~Pending("resrv", s)
    /\ \A s \in Storing : pc[s] = "restore" => ~Pending("check", s)

(* No part is played twice.  The one of the dead PE is played by the PE    *)
(* that was chosen, which is no longer among those that store; the others  *)
(* take no storage PE for dead that is alive.                              *)
Roles ==
    /\ \A p, q \in PEs : Acting(p) /\ Acting(q) /\ part[p] = part[q] => p = q
    /\ \A p \in PEs : stage.op = "rollback" /\ Acting(p) /\ part[p] = stage.dead =>
            RolledBack(p) /\ p = cpr_storage_pes(view[p].num)
    /\ \A p \in alive : view[p].dead \intersect alive \intersect Storing = {}
    /\ stage.op = "rollback" => stage.dead \notin alive \intersect Storing

(* In a checkpoint memory holds the work of the round.                     *)
MemNow ==
    stage.op = "checkpoint" =>
        \A p \in alive, i \in Ids : mem[p][i] = [row |-> part[p], work |-> step]

(* Shadow memory holds what was taken last.                                *)
ShadowData ==
    \A p \in PEs : Acting(p) =>
        /\ p \in Storing => Len(shadow[p]) = Regions
        /\ \A i \in Ids : i < Len(shadow[p]) => Latest(Kept(p, i), part[p], shadow[p][i + 1])

(* Every slot has a carrier, and those of a region follow in the order of  *)
(* the rounds.                                                             *)
CheckRing(s) ==
    /\ SlotsClaimed("check", s)
    /\ \A x \in Claimed("check", s) :
        x.carrier.data.row = x.carrier.pe_num /\ x.carrier.data.work \in RoundSteps(step)
    /\ \A x, y \in Claimed("check", s) :
        /\ x.carrier.pe_num = y.carrier.pe_num /\ x.carrier.id = y.carrier.id
        /\ x.slot < y.slot
        => x.carrier.data.work < y.carrier.data.work
CheckRings == \A s \in Storing : CheckRing(s)

(* The storage PEs that p believes alive have a carrier for each round in  *)
(* which p has passed them; so they have for a dead one, until its part is *)
(* taken over.                                                             *)
Senders ==
    /\ \A p \in PEs : Acting(p) => \A s \in Storing, i \in Ids :
        /\ Works(part[p], i, s) \subseteq Gone(p, i, s)
        /\ s \in Storages(p) => Gone(p, i, s) \subseteq Works(part[p], i, s)
    /\ stage.op = "rollback" /\ stage.dead \in Rows =>
        \A q \in alive : ~RolledBack(q) => \A s \in Storages(q), i \in Ids :
            RoundSteps(step) \subseteq Works(stage.dead, i, s)

(* A table holds what was filed last.                                      *)
TableData ==
    \A s \in Storing, r \in Rows, i \in Ids :
        /\ FiledWorks(r, i, s) # {} => i < Len(table[s][r])
        /\ i < Len(table[s][r]) => Latest(FiledWorks(r, i, s), r, table[s][r][i + 1].data)

Copies ==
    /\ Timing /\ Emptied /\ Roles /\ MemNow /\ ShadowData
    /\ CheckRings /\ Senders /\ TableData

(* The rounds up to a step, and with the next.                             *)
LEMMA Rounds ==
    ASSUME program \in Programs, NEW n \in 0 .. Len(plan)
    PROVE  /\ \A w \in RoundSteps(n) : w \in Nat /\ w <= n
           /\ RoundSteps(n) \subseteq 0 .. MaxWork
           /\ n < Len(plan) =>
                RoundSteps(n + 1) = RoundSteps(n) \union IF plan[n + 1] = "round" THEN {n + 1} ELSE {}
<1>1. Len(plan) \in Nat /\ MaxWork = Len(plan)
  BY Constants
<1>2. \A w \in RoundSteps(n) : w \in Nat /\ w <= n /\ w \in 0 .. MaxWork
  BY <1>1 DEF RoundSteps
<1>3. ASSUME n < Len(plan)
      PROVE  RoundSteps(n + 1) = RoundSteps(n) \union IF plan[n + 1] = "round" THEN {n + 1} ELSE {}
  <2>1. 1 .. n + 1 = (1 .. n) \union {n + 1}
    BY <1>1
  <2>2. QED
    BY <2>1 DEF RoundSteps
<1>4. QED
  BY <1>2, <1>3

(* In a checkpoint the last round is the one that is going on.             *)
LEMMA RoundNow ==
    ASSUME program \in Programs, step \in 0 .. Len(plan), Timing, stage.op = "checkpoint"
    PROVE  /\ RoundSteps(step) = RoundSteps(step - 1) \union {step}
           /\ \A w \in RoundSteps(step - 1) : w \in Nat /\ w < step
           /\ step \in Nat \ {0}
<1>1. /\ step - 1 \in 0 .. Len(plan) /\ step - 1 < Len(plan) /\ step - 1 + 1 = step
      /\ step \in Nat \ {0} /\ plan[step] = "round"
  BY Constants DEF Timing
<1>2. RoundSteps(step - 1 + 1) =
        RoundSteps(step - 1) \union IF plan[step - 1 + 1] = "round" THEN {step - 1 + 1} ELSE {}
  BY <1>1, Rounds
<1>3. \A w \in RoundSteps(step - 1) : w \in Nat /\ w <= step - 1
  BY <1>1, Rounds
<1>4. RoundSteps(step) = RoundSteps(step - 1) \union {step}
  BY <1>1, <1>2
<1>5. QED
  BY <1>1, <1>3, <1>4

(* Rounds have one latest.                                                 *)
LEMMA OneLatest ==
    ASSUME NEW rounds \in SUBSET Nat, NEW r, NEW d, NEW e, Latest(rounds, r, d), Latest(rounds, r, e)
    PROVE  d = e
<1>1. CASE rounds = {}
  BY <1>1 DEF Latest
<1>2. CASE rounds # {}
  <2>1. PICK v \in rounds : (\A u \in rounds : u <= v) /\ d = [row |-> r, work |-> v]
    BY <1>2 DEF Latest
  <2>2. PICK w \in rounds : (\A u \in rounds : u <= w) /\ e = [row |-> r, work |-> w]
    BY <1>2 DEF Latest
  <2>3. v = w
    BY <2>1, <2>2
  <2>4. QED
    BY <2>1, <2>2, <2>3
<1>3. QED
  BY <1>1, <1>2

(* A later round becomes the latest.                                       *)
LEMMA NewLatest ==
    ASSUME NEW rounds \in SUBSET Nat, NEW w \in Nat, \A v \in rounds : v <= w, NEW r
    PROVE  Latest(rounds \union {w}, r, [row |-> r, work |-> w])
  BY DEF Latest

-----------------------------------------------------------------------------
(* What a step within a stage keeps, part by part.                         *)
LEMMA RolesKept ==
    ASSUME IInv, Timing, Emptied, Roles, MemNow, UNCHANGED <<progress, pes, mem>>,
           \A q \in PEs : RolledBack(q)' <=> RolledBack(q),
           \A s \in Storing : /\ stage.op # "reserve" /\ Pending("resrv", s)' => Pending("resrv", s)
                              /\ Pending("check", s)' /\ stage.op = "rollback" => Pending("check", s),
           \A s \in alive \intersect Storing :
               s \notin view[s].active /\ stage.op # "reserve" /\ pc'[s] = "done" =>
                   pc[s] = "done" \/ ~Pending("resrv", s),
           \A s \in Storing : pc'[s] = "restore" =>
                   stage.op = "rollback" /\ (pc[s] = "restore" \/ ~Pending("check", s))
    PROVE  Timing' /\ Emptied' /\ Roles' /\ MemNow' /\ \A q : Acting(q)' <=> Acting(q)
<1>1. /\ program' = program /\ stage' = stage /\ step' = step /\ alive' = alive
      /\ part' = part /\ view' = view /\ mem' = mem
      /\ PEs' = PEs /\ Storing' = Storing /\ Ids' = Ids /\ plan' = plan
      /\ alive \subseteq PEs /\ Storing \subseteq PEs
  BY Frame, Numbering DEF progress, pes, IInv, Typed, ProgressTyped
<1>2. Timing' /\ MemNow' /\ \A q : Acting(q)' <=> Acting(q)
  BY <1>1 DEF Timing, MemNow, Acting
<1>3. Emptied'
  BY <1>1 DEF Emptied
<1>4. Roles'
  BY <1>1, <1>2 DEF Roles
<1>5. QED
  BY <1>2, <1>3, <1>4

(* Shadow memory holds what it did.                                        *)
LEMMA ShadowKept ==
    ASSUME IInv, ShadowData, UNCHANGED <<progress, pes, shadow>>,
           \A q \in PEs, i \in Ids : Acting(q) => Kept(q, i)' = Kept(q, i)
    PROVE  ShadowData'
<1>1. /\ program' = program /\ alive' = alive /\ part' = part /\ view' = view /\ shadow' = shadow
      /\ PEs' = PEs /\ Storing' = Storing /\ Ids' = Ids /\ Regions' = Regions
  BY Frame DEF progress, pes
<1>2. \A q : Acting(q)' <=> Acting(q)
  BY <1>1 DEF Acting
<1>3. ASSUME NEW q \in PEs, Acting(q), NEW i \in Ids, i < Len(shadow[q])
      PROVE  Latest(Kept(q, i), part[q], shadow[q][i + 1])'
  <2>1. Latest(Kept(q, i), part[q], shadow[q][i + 1])
    BY <1>3 DEF ShadowData
  <2>2. Kept(q, i)' = Kept(q, i)
    BY <1>3
  <2>3. QED
    BY <1>1, <2>1, <2>2 DEF Latest
<1>4. QED
  BY <1>1, <1>2, <1>3 DEF ShadowData

(* A PE sends to PEs that store at the start.                              *)
LEMMA StoragesStore ==
    ASSUME IInv, NEW q \in alive
    PROVE  Storages(q) \subseteq Storing
<1> SUFFICES ASSUME NEW s \in Storages(q)
             PROVE  s \in Storing
  OBVIOUS
<1>1. view[q].num \in 0 .. Spares /\ Spares \in Nat
  BY Constants DEF IInv, Typed, PesTyped, ProgressTyped, View
<1>2. PICK j \in 0 .. view[q].num - 1 : s = cpr_storage_pes(j)
  BY DEF Storages
<1>3. QED
  BY <1>1, <1>2, Numbering DEF IInv, Typed, ProgressTyped

(* Rings that have not changed agree with the PEs that send to them.       *)
LEMMA SendersKept ==
    ASSUME IInv, Senders, UNCHANGED <<progress, pes>>,
           \A q \in PEs : RolledBack(q)' <=> RolledBack(q),
           \A s \in Storing, r \in Rows, i \in Ids : Works(r, i, s)' = Works(r, i, s),
           \A q \in PEs, i \in Ids, s \in Storing : Acting(q) =>
               /\ Gone(q, i, s) \subseteq Gone(q, i, s)'
               /\ s \in Storages(q) => Gone(q, i, s)' = Gone(q, i, s)
    PROVE  Senders'
<1>1. /\ program' = program /\ stage' = stage /\ step' = step /\ alive' = alive
      /\ part' = part /\ view' = view /\ alive \subseteq PEs
      /\ PEs' = PEs /\ Storing' = Storing /\ Ids' = Ids /\ plan' = plan
  BY Frame DEF progress, pes, IInv, Typed, ProgressTyped
<1>2. /\ \A q : Acting(q)' <=> Acting(q)
      /\ \A q : Storages(q)' = Storages(q)
      /\ RoundSteps(step)' = RoundSteps(step)
  BY <1>1 DEF Acting, Storages, RoundSteps, cpr_storage_pes
<1>3. \A q \in PEs : Acting(q) => part[q] \in Rows
  BY DEF Acting, IInv, Parts
<1>4. \A q \in alive : Storages(q) \subseteq Storing
  BY StoragesStore
<1>5. ASSUME NEW q \in PEs, Acting(q), NEW s \in Storing, NEW i \in Ids
      PROVE  /\ Works(part[q], i, s)' \subseteq Gone(q, i, s)'
             /\ s \in Storages(q) => Gone(q, i, s)' \subseteq Works(part[q], i, s)'
  <2>1. Works(part[q], i, s)' = Works(part[q], i, s)
    BY <1>1, <1>3, <1>5 DEF Works
  <2>2. /\ Works(part[q], i, s) \subseteq Gone(q, i, s)
        /\ s \in Storages(q) => Gone(q, i, s) \subseteq Works(part[q], i, s)
    BY <1>5 DEF Senders
  <2>3. QED
    BY <1>5, <2>1, <2>2
<1>6. QED
  BY <1>1, <1>2, <1>4, <1>5 DEF Senders

(* The rounds of the carriers are what they were when what is claimed is.  *)
LEMMA CarriersKept ==
    ASSUME IInv, CheckRings, program' = program, RoundSteps(step) \subseteq RoundSteps(step)',
           \A s \in Storing : /\ Claimed("check", s)' = Claimed("check", s)
                              /\ SlotsClaimed("check", s)'
                              /\ queue'["check"][s].head = queue["check"][s].head
    PROVE  /\ CheckRings'
           /\ \A s \in Storing : \A r, i : /\ Works(r, i, s)' = Works(r, i, s)
                                           /\ FiledWorks(r, i, s)' = FiledWorks(r, i, s)
<1>1. Storing' = Storing /\ MaxWork' = MaxWork
  BY Frame
<1>2. ASSUME NEW s \in Storing
      PROVE  /\ CheckRing(s)'
             /\ \A r, i : /\ Works(r, i, s)' = Works(r, i, s)
                          /\ FiledWorks(r, i, s)' = FiledWorks(r, i, s)
  <2>1. CheckRing(s)
    BY DEF CheckRings
  <2>2. CheckRing(s)'
    BY <2>1 DEF CheckRing
  <2>3. \A r, i : /\ Works(r, i, s)' = Works(r, i, s)
                  /\ FiledWorks(r, i, s)' = FiledWorks(r, i, s)
    BY <1>1 DEF Works, FiledWorks, Of
  <2>4. QED
    BY <2>2, <2>3
<1>3. QED
  BY <1>1, <1>2 DEF CheckRings

(* So it is when the rings are.                                            *)
LEMMA ChecksKept ==
    ASSUME IInv, CheckRings, program' = program, RoundSteps(step) \subseteq RoundSteps(step)',
           \A s \in Storing : /\ queue'["check"][s].head = queue["check"][s].head
                              /\ queue'["check"][s].tail = queue["check"][s].tail
                              /\ queue'["check"][s].slots = queue["check"][s].slots,
           \A m : m.queue = "check" => (m \in posted' <=> m \in posted)
    PROVE  /\ CheckRings'
           /\ \A s \in Storing : \A r, i : /\ Works(r, i, s)' = Works(r, i, s)
                                           /\ FiledWorks(r, i, s)' = FiledWorks(r, i, s)
<1>1. ASSUME NEW s \in Storing
      PROVE  Claimed("check", s)' = Claimed("check", s) /\ SlotsClaimed("check", s)'
  <2>1. SlotsClaimed("check", s) /\ "check" \in Queues
    BY DEF CheckRings, CheckRing, Queues
  <2>2. QED
    BY <2>1, ClaimedKept
<1>2. QED
  BY <1>1, CarriersKept

(* A table holds what it did when its rows do.                             *)
LEMMA TableKept ==
    ASSUME IInv, TableData, program' = program,
           \A s \in Storing : \A r, i : FiledWorks(r, i, s)' = FiledWorks(r, i, s),
           \A s \in Storing, r \in Rows :
               /\ Len(table'[s][r]) = Len(table[s][r])
               /\ \A i \in 1 .. Len(table[s][r]) : table'[s][r][i].data = table[s][r][i].data
    PROVE  TableData'
<1>1. Storing' = Storing /\ Ids' = Ids /\ Regions \in Nat \ {0}
  BY Frame, Constants DEF IInv, Typed, ProgressTyped
<1>2. ASSUME NEW s \in Storing, NEW r \in Rows, NEW i \in Ids
      PROVE  /\ FiledWorks(r, i, s)' # {} => i < Len(table'[s][r])
             /\ i < Len(table'[s][r]) =>
                  Latest(FiledWorks(r, i, s)', r, table'[s][r][i + 1].data)
  <2>1. /\ FiledWorks(r, i, s) # {} => i < Len(table[s][r])
        /\ i < Len(table[s][r]) => Latest(FiledWorks(r, i, s), r, table[s][r][i + 1].data)
    BY DEF TableData
  <2>2. i < Len(table[s][r]) => i + 1 \in 1 .. Len(table[s][r])
    <3>1. table[s][r] \in Seq(Entry) /\ i \in Nat
      BY <1>1 DEF IInv, Typed, TableTyped, Ids
    <3>2. QED
      BY <3>1
  <2>3. QED
    BY <2>1, <2>2
<1>3. QED
  BY <1>1, <1>2 DEF TableData, Latest

(* A PE moves on, and takes nothing into a ring, a table or memory.        *)
LEMMA CopiesMove ==
    ASSUME IInv, Copies, UNCHANGED <<progress, pes, mem, shadow>>,
           \A q \in PEs : RolledBack(q)' <=> RolledBack(q),
           \A s \in Storing : stage.op # "reserve" /\ Pending("resrv", s)' => Pending("resrv", s),
           \A s \in alive \intersect Storing :
               s \notin view[s].active /\ stage.op # "reserve" /\ pc'[s] = "done" =>
                   pc[s] = "done" \/ ~Pending("resrv", s),
           \A s \in Storing : pc'[s] = "restore" =>
                   stage.op = "rollback" /\ (pc[s] = "restore" \/ ~Pending("check", s)),
           \A q \in PEs, i \in Ids : Acting(q) => Kept(q, i)' = Kept(q, i),
           \A q \in PEs, i \in Ids, s \in Storing : Acting(q) =>
               /\ Gone(q, i, s) \subseteq Gone(q, i, s)'
               /\ s \in Storages(q) => Gone(q, i, s)' = Gone(q, i, s),
           \A s \in Storing : /\ queue'["check"][s].head = queue["check"][s].head
                              /\ queue'["check"][s].tail = queue["check"][s].tail
                              /\ queue'["check"][s].slots = queue["check"][s].slots,
           \A m : m.queue = "check" => (m \in posted' <=> m \in posted),
           table' = table
    PROVE  Copies'
<1>1. program' = program /\ step' = step /\ plan' = plan
  BY Frame DEF progress
<1>2. \A s \in Storing : Pending("check", s)' = Pending("check", s)
  BY DEF Pending
<1>3. Timing' /\ Emptied' /\ Roles' /\ MemNow'
  BY <1>2, RolesKept DEF Copies
<1>4. ShadowData'
  BY ShadowKept DEF Copies
<1>5. RoundSteps(step)' = RoundSteps(step)
  BY <1>1 DEF RoundSteps
<1>6. /\ CheckRings'
      /\ \A s \in Storing : \A r, i : /\ Works(r, i, s)' = Works(r, i, s)
                                      /\ FiledWorks(r, i, s)' = FiledWorks(r, i, s)
  BY <1>1, <1>5, ChecksKept DEF Copies
<1>7. Senders'
  BY <1>6, SendersKept DEF Copies
<1>8. TableData'
  BY <1>1, <1>6, TableKept DEF Copies
<1>9. QED
  BY <1>3, <1>4, <1>6, <1>7, <1>8 DEF Copies

-----------------------------------------------------------------------------
(* A PE that stores, or is idle, goes to its next place.                   *)
LEMMA StoringMove ==
    ASSUME IInv, Copies, NEW p \in PEs, NEW to, pc[p] # "done", pc' = [pc EXCEPT ![p] = to],
           UNCHANGED <<progress, at, pes, memory, table, posted>>,
           ~Acting(p) \/ stage.op = "drain",
           to = "done" => /\ stage.op # "rollback"
                          /\ stage.op = "reserve" \/ p \in view[p].active \/ ~Pending("resrv", p),
           to = "restore" => stage.op = "rollback" /\ ~Pending("check", p),
           \A l \in Queues, t \in Storing : /\ queue'[l][t].head = queue[l][t].head
                                            /\ queue'[l][t].tail = queue[l][t].tail
                                            /\ queue'[l][t].slots = queue[l][t].slots
    PROVE  Copies'
<1>1. /\ program' = program /\ stage' = stage /\ step' = step /\ alive' = alive /\ at' = at
      /\ view' = view /\ mem' = mem /\ shadow' = shadow /\ UNCHANGED <<progress, pes, mem, shadow>>
      /\ plan' = plan /\ Storing \subseteq PEs
  BY Frame, Numbering DEF progress, pes, memory, IInv, Typed, ProgressTyped
<1>2. pc'[p] = to /\ \A q \in PEs \ {p} : pc'[q] = pc[q]
  BY DEF IInv, Typed
<1>3. \A q \in PEs : RolledBack(q)' <=> RolledBack(q)
  BY <1>1, <1>2 DEF RolledBack
<1>4. \A k \in Queues, s \in Storing : Pending(k, s)' = Pending(k, s)
  BY DEF Pending
<1>5. \A s \in alive \intersect Storing :
        s \notin view[s].active /\ stage.op # "reserve" /\ pc'[s] = "done" =>
            pc[s] = "done" \/ ~Pending("resrv", s)
  BY <1>1, <1>2
<1>6. \A s \in Storing : pc'[s] = "restore" =>
        stage.op = "rollback" /\ (pc[s] = "restore" \/ ~Pending("check", s))
  <2>1. \A s \in Storing : pc[s] = "restore" => stage.op = "rollback"
    BY <1>1 DEF IInv, Placed, MayBe
  <2>2. QED
    BY <1>1, <1>2, <2>1
<1>8. \A q \in PEs, i \in Ids : Acting(q) => Kept(q, i)' = Kept(q, i)
  <2>1. SUFFICES ASSUME NEW q \in PEs, NEW i \in Ids, q # p \/ stage.op = "drain"
                 PROVE  Kept(q, i)' = Kept(q, i)
    OBVIOUS
  <2>2. stage.op = "checkpoint" => pc'[q] = pc[q]
    BY <1>2, <2>1
  <2>3. RoundSteps(step)' = RoundSteps(step) /\ RoundSteps(step - 1)' = RoundSteps(step - 1)
    BY <1>1 DEF RoundSteps
  <2>4. QED
    BY <1>1, <2>2, <2>3 DEF Kept
<1>9. \A q \in PEs, i \in Ids, s \in Storing : Acting(q) => Gone(q, i, s)' = Gone(q, i, s)
  <2>1. SUFFICES ASSUME NEW q \in PEs, NEW i \in Ids, NEW s \in Storing,
                        q # p \/ stage.op = "drain"
                 PROVE  Gone(q, i, s)' = Gone(q, i, s)
    OBVIOUS
  <2>2. stage.op = "checkpoint" => (Passed(q, s)' <=> Passed(q, s))
    BY <1>1, <1>2, <2>1 DEF Passed, cpr_storage_pes
  <2>3. RoundSteps(step)' = RoundSteps(step) /\ RoundSteps(step - 1)' = RoundSteps(step - 1)
    BY <1>1 DEF RoundSteps
  <2>4. QED
    BY <1>1, <2>2, <2>3 DEF Gone
<1>10. \A s \in Storing : /\ queue'["check"][s].head = queue["check"][s].head
                          /\ queue'["check"][s].tail = queue["check"][s].tail
                          /\ queue'["check"][s].slots = queue["check"][s].slots
  BY DEF Queues
<1>11. \A s \in Storing : stage.op # "reserve" /\ Pending("resrv", s)' => Pending("resrv", s)
  BY <1>4 DEF Queues
<1>12. QED
  BY <1>1, <1>3, <1>5, <1>6, <1>8, <1>9, <1>10, <1>11, CopiesMove

(* Those steps, one after the other.                                       *)
LEMMA StoringSteps ==
    ASSUME IInv, Copies, NEW s \in Storing, pc[s] # "done",
           \/ WaitReserve(s) \/ EndReserve(s) \/ ClearSignal(s) \/ CheckpointStored(s)
           \/ WaitCheck(s) \/ EndCheckpoint(s) \/ EmptyQueue(s)
    PROVE  Copies'
<1> USE DEF Goto
<1>1. s \in PEs /\ (pc[s] \in Filer => s \notin view[s].active)
  BY Numbering DEF IInv, Typed, ProgressTyped, Placed, MayBe
<1>2. /\ s \notin view[s].active /\ UNCHANGED <<progress, at, pes, memory, table, posted>>
      /\ queue' = queue \/ queue' = [queue EXCEPT !["resrv"][s].sig = 0]
  BY <1>1 DEF WaitReserve, EndReserve, ClearSignal, CheckpointStored, WaitCheck, EndCheckpoint,
     EmptyQueue, sending, role, RoleOf, Filer
<1>3. \A l \in Queues, t \in Storing : /\ queue'[l][t].head = queue[l][t].head
                                       /\ queue'[l][t].tail = queue[l][t].tail
                                       /\ queue'[l][t].slots = queue[l][t].slots
  <2>1. "resrv" \in Queues /\ 0 \in {0, 1} /\ QueueTyped
    BY DEF Queues, IInv, Typed
  <2>2. QED
    BY <1>2, <2>1, Signalled
<1>4. PICK to : /\ pc' = [pc EXCEPT ![s] = to]
                /\ to = "done" => /\ stage.op # "rollback"
                                  /\ stage.op = "reserve" \/ pc[s] = "cloop"
                /\ to = "restore" => stage.op = "rollback" /\ ~Pending("check", s)
  BY DEF WaitReserve, EndReserve, ClearSignal, CheckpointStored, WaitCheck, EndCheckpoint,
     EmptyQueue
<1>5. pc[s] = "cloop" /\ stage.op # "reserve" => ~Pending("resrv", s)
  BY <1>1 DEF IInv, Drained
<1>6. ~Acting(s)
  BY <1>2 DEF Acting
<1>7. to = "done" => /\ stage.op # "rollback"
                     /\ stage.op = "reserve" \/ s \in view[s].active \/ ~Pending("resrv", s)
  BY <1>4, <1>5
<1>8. QED
  BY <1>1, <1>2, <1>3, <1>4, <1>6, <1>7, StoringMove

(* A computing PE has nothing to do in the last stage.                     *)
LEMMA IdleCopies ==
    ASSUME IInv, Copies, NEW p \in PEs, IdleInDrain(p)
    PROVE  Copies'
<1>1. /\ pc[p] = "call" /\ pc' = [pc EXCEPT ![p] = "done"] /\ stage.op = "drain"
      /\ p \in view[p].active
      /\ UNCHANGED <<progress, at, pes, memory, table, posted>> /\ queue' = queue
  BY DEF IdleInDrain, Goto, sending, role, RoleOf
<1>2. QED
  BY <1>1, StoringMove

-----------------------------------------------------------------------------
(* A computing PE that goes on within a call: what depends on its place is *)
(* the same in all stages but checkpoints.                                 *)
LEMMA OnlyCheckpoints ==
    ASSUME IInv, Timing, UNCHANGED progress, NEW p \in PEs, \A q \in PEs \ {p} : pc'[q] = pc[q],
           \A q \in PEs \ {p} : at'[q] = at[q]
    PROVE  /\ RoundSteps(step)' = RoundSteps(step)
           /\ stage.op = "checkpoint" => RoundSteps(step - 1) \subseteq RoundSteps(step)
           /\ \A q \in PEs, i \in Ids : Kept(q, i)' =
                IF q = p /\ stage.op = "checkpoint" /\ i = stage.id
                THEN IF pc'[p] # "call" THEN RoundSteps(step) ELSE RoundSteps(step - 1)
                ELSE Kept(q, i)
           /\ \A q \in PEs, i \in Ids, s \in Storing : Gone(q, i, s)' =
                IF q = p /\ stage.op = "checkpoint" /\ i = stage.id
                THEN IF Passed(p, s)' THEN RoundSteps(step) ELSE RoundSteps(step - 1)
                ELSE Gone(q, i, s)
<1>1. /\ program' = program /\ stage' = stage /\ step' = step /\ plan' = plan
      /\ stage.op = "checkpoint" => stage.id \in Ids
  BY Frame, StageMeans DEF progress, IInv, Typed, ProgressTyped
<1>2. RoundSteps(step)' = RoundSteps(step) /\ RoundSteps(step - 1)' = RoundSteps(step - 1)
  BY <1>1 DEF RoundSteps
<1>3. stage.op = "checkpoint" => RoundSteps(step - 1) \subseteq RoundSteps(step)
  BY RoundNow DEF IInv, Typed, ProgressTyped
<1>4. \A i \in Ids : i \in Int
  BY Constants DEF Ids, IInv, Typed, ProgressTyped
<1>5. \A q \in PEs, i \in Ids : Kept(q, i)' =
        IF q = p /\ stage.op = "checkpoint" /\ i = stage.id
        THEN IF pc'[p] # "call" THEN RoundSteps(step) ELSE RoundSteps(step - 1)
        ELSE Kept(q, i)
  <2>1. SUFFICES ASSUME NEW q \in PEs, NEW i \in Ids
                 PROVE  Kept(q, i)' =
                          IF q = p /\ stage.op = "checkpoint" /\ i = stage.id
                          THEN IF pc'[p] # "call" THEN RoundSteps(step) ELSE RoundSteps(step - 1)
                          ELSE Kept(q, i)
    OBVIOUS
  <2>2. CASE q = p /\ stage.op = "checkpoint" /\ i = stage.id
    BY <1>1, <1>2, <1>4, <2>2 DEF Kept
  <2>3. CASE ~(q = p /\ stage.op = "checkpoint" /\ i = stage.id)
    BY <1>1, <1>2, <1>4, <2>3 DEF Kept
  <2>4. QED
    BY <2>2, <2>3
<1>6. \A q \in PEs, i \in Ids, s \in Storing : Gone(q, i, s)' =
        IF q = p /\ stage.op = "checkpoint" /\ i = stage.id
        THEN IF Passed(p, s)' THEN RoundSteps(step) ELSE RoundSteps(step - 1)
        ELSE Gone(q, i, s)
  <2>1. SUFFICES ASSUME NEW q \in PEs, NEW i \in Ids, NEW s \in Storing
                 PROVE  Gone(q, i, s)' =
                          IF q = p /\ stage.op = "checkpoint" /\ i = stage.id
                          THEN IF Passed(p, s)' THEN RoundSteps(step) ELSE RoundSteps(step - 1)
                          ELSE Gone(q, i, s)
    OBVIOUS
  <2>2. CASE q = p /\ stage.op = "checkpoint" /\ i = stage.id
    BY <1>1, <1>2, <1>4, <2>2 DEF Gone
  <2>3. CASE ~(q = p /\ stage.op = "checkpoint" /\ i = stage.id)
    <3>1. q # p => (Passed(q, s)' <=> Passed(q, s))
      BY DEF Passed, cpr_storage_pes
    <3>2. QED
      BY <1>1, <1>2, <1>4, <2>3, <3>1 DEF Gone
  <2>4. QED
    BY <2>2, <2>3
<1>7. QED
  BY <1>2, <1>3, <1>5, <1>6

(* The loop over the storage PEs goes on behind the one that it is at.     *)
LEMMA LoopCopies ==
    ASSUME IInv, Copies, NEW p \in PEs, NEW from \in {"signal", "set"}, SendFrom(p, from, at[p] + 1),
           pc[p] = from, UNCHANGED <<progress, pes, memory, table, posted>>,
           \A l \in Queues, t \in Storing : /\ queue'[l][t].head = queue[l][t].head
                                            /\ queue'[l][t].tail = queue[l][t].tail
                                            /\ queue'[l][t].slots = queue[l][t].slots
    PROVE  Copies'
<1>1. /\ UNCHANGED <<progress, pes, mem, shadow>> /\ stage' = stage /\ view' = view /\ alive' = alive
      /\ at \in [PEs -> 0 .. Spares - 1] /\ Spares \in Nat /\ Originals \in Nat
      /\ pc \in [PEs -> Places]
      /\ \A s \in Storing : s \in Nat /\ Originals <= s
  BY Constants, Numbering DEF progress, pes, memory, IInv, Typed, ProgressTyped, SendingTyped
<1>2. p \in alive /\ p \in view[p].active /\ stage.op \in {"reserve", "checkpoint"}
  BY InCallAlive DEF IInv, MayBe, Sender
<1>3. /\ pc' = [pc EXCEPT ![p] = pc'[p]] /\ at' = [at EXCEPT ![p] = at'[p]]
      /\ at'[p] \in 0 .. Spares - 1
      /\ pc'[p] \in {"send", "call", "done"}
      /\ stage.op # "reserve" => pc'[p] \in {"send", "done"}
      /\ pc'[p] = "send" => at[p] + 1 <= at'[p]
      /\ \A s \in Storages(p) : cpr_storage_pes(at[p] + 1) <= s =>
           pc'[p] = "send" /\ cpr_storage_pes(at'[p]) <= s
  <2>1. at[p] + 1 \in 0 .. Spares /\ pc[p] # "done"
    BY <1>1
  <2>2. QED
    BY <2>1, NextTarget DEF IInv
<1>4. \A q \in PEs \ {p} : pc'[q] = pc[q] /\ at'[q] = at[q]
  BY <1>1, <1>3
<1>5. ASSUME NEW s \in Storing
      PROVE  /\ Passed(p, s) => Passed(p, s)' \/ stage.op = "reserve"
             /\ s \in Storages(p) /\ Passed(p, s)' => Passed(p, s) \/ stage.op = "reserve"
  <2>1. Passed(p, s) <=> Originals + at[p] >= s
    BY DEF Passed, cpr_storage_pes
  <2>2. Passed(p, s)' <=> pc'[p] = "done" \/ (pc'[p] = "send" /\ Originals + at'[p] > s)
    BY <1>3 DEF Passed, cpr_storage_pes
  <2>3. at[p] \in Int /\ at'[p] \in Int /\ s \in Int
    BY <1>1, <1>3
  <2>4. QED
    BY <1>1, <1>3, <2>1, <2>2, <2>3 DEF cpr_storage_pes
<1>6. /\ stage.op = "checkpoint" => RoundSteps(step - 1) \subseteq RoundSteps(step)
      /\ \A q \in PEs, i \in Ids : Kept(q, i)' =
           IF q = p /\ stage.op = "checkpoint" /\ i = stage.id
           THEN IF pc'[p] # "call" THEN RoundSteps(step) ELSE RoundSteps(step - 1)
           ELSE Kept(q, i)
      /\ \A q \in PEs, i \in Ids, s \in Storing : Gone(q, i, s)' =
           IF q = p /\ stage.op = "checkpoint" /\ i = stage.id
           THEN IF Passed(p, s)' THEN RoundSteps(step) ELSE RoundSteps(step - 1)
           ELSE Gone(q, i, s)
  BY <1>1, <1>4, OnlyCheckpoints DEF Copies
<1>7. \A q \in PEs, i \in Ids : Acting(q) => Kept(q, i)' = Kept(q, i)
  BY <1>3, <1>6 DEF Kept
<1>8. \A q \in PEs, i \in Ids, s \in Storing : Acting(q) =>
        /\ Gone(q, i, s) \subseteq Gone(q, i, s)'
        /\ s \in Storages(q) => Gone(q, i, s)' = Gone(q, i, s)
  <2>1. SUFFICES ASSUME NEW q \in PEs, NEW i \in Ids, NEW s \in Storing
                 PROVE  /\ Gone(q, i, s) \subseteq Gone(q, i, s)'
                        /\ s \in Storages(q) => Gone(q, i, s)' = Gone(q, i, s)
    OBVIOUS
  <2>2. CASE q = p /\ stage.op = "checkpoint" /\ i = stage.id
    <3>1. i \in Int
      BY Constants DEF Ids, IInv, Typed, ProgressTyped
    <3>2. Gone(q, i, s) = IF Passed(p, s) THEN RoundSteps(step) ELSE RoundSteps(step - 1)
      BY <2>2, <3>1 DEF Gone
    <3>3. QED
      BY <1>5, <1>6, <2>2, <3>2
  <2>3. CASE ~(q = p /\ stage.op = "checkpoint" /\ i = stage.id)
    BY <1>6, <2>3
  <2>4. QED
    BY <2>2, <2>3
<1>9. \A q \in PEs : RolledBack(q)' <=> RolledBack(q)
  BY <1>1, <1>2, <1>4 DEF RolledBack
<1>10. /\ \A s \in Storing : stage.op # "reserve" /\ Pending("resrv", s)' => Pending("resrv", s)
       /\ \A s \in Storing : /\ queue'["check"][s].head = queue["check"][s].head
                             /\ queue'["check"][s].tail = queue["check"][s].tail
                             /\ queue'["check"][s].slots = queue["check"][s].slots
  BY DEF Queues, Pending
<1>11. \A s \in alive \intersect Storing :
         s \notin view[s].active /\ stage.op # "reserve" /\ pc'[s] = "done" =>
             pc[s] = "done" \/ ~Pending("resrv", s)
  BY <1>1, <1>2, <1>4 DEF IInv, Typed, ProgressTyped
<1>12. \A s \in Storing : pc'[s] = "restore" =>
         stage.op = "rollback" /\ (pc[s] = "restore" \/ ~Pending("check", s))
  <2>1. Storing \subseteq PEs
    BY Numbering DEF IInv, Typed, ProgressTyped
  <2>2. QED
    BY <1>3, <1>4, <2>1 DEF IInv, Placed, MayBe
<1>13. QED
  BY <1>1, <1>7, <1>8, <1>9, <1>10, <1>11, <1>12, CopiesMove

(* A step that stays at the same storage PE before the next is looked for. *)
LEMMA StayCopies ==
    ASSUME IInv, Copies, NEW p \in PEs, NEW to,
           \/ pc[p] = "signal" /\ to = "set"
           \/ pc[p] = "send" /\ to = "signal" /\ stage.op = "reserve",
           pc' = [pc EXCEPT ![p] = to],
           UNCHANGED <<progress, at, pes, memory, table>>,
           \A t \in Storing : /\ queue'["check"][t].head = queue["check"][t].head
                              /\ queue'["check"][t].tail = queue["check"][t].tail
                              /\ queue'["check"][t].slots = queue["check"][t].slots,
           stage.op # "reserve" => UNCHANGED <<queue, posted>>,
           \A m : m.queue = "check" => (m \in posted' <=> m \in posted)
    PROVE  Copies'
<1>1. /\ UNCHANGED <<progress, pes, mem, shadow>> /\ stage' = stage /\ at' = at
      /\ pc'[p] = to /\ \A q \in PEs \ {p} : pc'[q] = pc[q] /\ at'[q] = at[q]
  BY DEF progress, pes, memory, IInv, Typed
<1>2. /\ \A q \in PEs, i \in Ids : Kept(q, i)' =
           IF q = p /\ stage.op = "checkpoint" /\ i = stage.id
           THEN IF pc'[p] # "call" THEN RoundSteps(step) ELSE RoundSteps(step - 1)
           ELSE Kept(q, i)
      /\ \A q \in PEs, i \in Ids, s \in Storing : Gone(q, i, s)' =
           IF q = p /\ stage.op = "checkpoint" /\ i = stage.id
           THEN IF Passed(p, s)' THEN RoundSteps(step) ELSE RoundSteps(step - 1)
           ELSE Gone(q, i, s)
  BY <1>1, OnlyCheckpoints DEF Copies
<1>3. \A i \in Ids : i \in Int
  BY Constants DEF Ids, IInv, Typed, ProgressTyped
<1>4. stage.op = "checkpoint" => pc[p] = "signal" /\ pc'[p] = "set"
  BY <1>1
<1>5. \A q \in PEs, i \in Ids : Kept(q, i)' = Kept(q, i)
  BY <1>2, <1>3, <1>4 DEF Kept
<1>6. \A s : stage.op = "checkpoint" => (Passed(p, s)' <=> Passed(p, s))
  BY <1>1, <1>4 DEF Passed, cpr_storage_pes
<1>7. \A q \in PEs, i \in Ids, s \in Storing : Gone(q, i, s)' = Gone(q, i, s)
  BY <1>2, <1>3, <1>6 DEF Gone
<1>8. \A q \in PEs : RolledBack(q)' <=> RolledBack(q)
  BY <1>1 DEF RolledBack
<1>9. \A s \in Storing : stage.op # "reserve" /\ Pending("resrv", s)' => Pending("resrv", s)
  BY DEF Pending
<1>10. /\ \A s \in alive \intersect Storing :
            s \notin view[s].active /\ stage.op # "reserve" /\ pc'[s] = "done" =>
                pc[s] = "done" \/ ~Pending("resrv", s)
       /\ \A s \in Storing : pc'[s] = "restore" =>
            stage.op = "rollback" /\ (pc[s] = "restore" \/ ~Pending("check", s))
  <2>1. Storing \subseteq PEs
    BY Numbering DEF IInv, Typed, ProgressTyped
  <2>2. QED
    BY <1>1, <2>1 DEF IInv, Placed, MayBe
<1>11. QED
  BY <1>1, <1>5, <1>7, <1>8, <1>9, <1>10, CopiesMove

(* A PE that looks at the signal goes to raise it, or on in its loop.      *)
LEMMA TestSignalCopies ==
    ASSUME IInv, Copies, NEW p \in PEs, TestSignal(p)
    PROVE  Copies'
<1>1. pc[p] = "signal" /\ UNCHANGED <<progress, pes, memory, queue, table, posted>>
  BY DEF TestSignal
<1>2. CASE Goto(p, "signal", "set") /\ UNCHANGED sending
  BY <1>1, <1>2, StayCopies DEF Goto, sending
<1>3. CASE SendFrom(p, "signal", at[p] + 1)
  <2>1. "signal" \in {"signal", "set"}
    OBVIOUS
  <2>2. QED
    BY <1>1, <1>3, <2>1, LoopCopies
<1>4. QED
  BY <1>2, <1>3 DEF TestSignal

(* A signal is raised.                                                     *)
LEMMA SetSignalCopies ==
    ASSUME IInv, Copies, NEW p \in PEs, SetSignal(p)
    PROVE  Copies'
<1>1. /\ pc[p] = "set" /\ SendFrom(p, "set", at[p] + 1) /\ "set" \in {"signal", "set"}
      /\ UNCHANGED <<progress, pes, memory, table, posted>>
      /\ queue' = [queue EXCEPT ![Kind][cpr_storage_pes(at[p])].sig = 1]
  BY DEF SetSignal
<1>2. \A l \in Queues, t \in Storing : /\ queue'[l][t].head = queue[l][t].head
                                       /\ queue'[l][t].tail = queue[l][t].tail
                                       /\ queue'[l][t].slots = queue[l][t].slots
  <2>1. Kind \in Queues /\ 1 \in {0, 1} /\ QueueTyped /\ cpr_storage_pes(at[p]) \in Storing
    BY Numbering DEF Kind, Queues, IInv, Typed, ProgressTyped, SendingTyped
  <2>2. QED
    BY <1>1, <2>1, Signalled
<1>3. QED
  BY <1>1, <1>2, LoopCopies

(* In the first stage there is nothing yet in shadow memory but what has   *)
(* been reserved.                                                          *)
LEMMA ReserveCopies ==
    ASSUME IInv, Copies, NEW p \in PEs, Reserve(p)
    PROVE  Copies'
<1>1. /\ program' = program /\ stage' = stage /\ step' = step /\ alive' = alive
      /\ part' = part /\ view' = view /\ mem' = mem /\ table' = table
      /\ queue' = queue /\ posted' = posted /\ UNCHANGED <<progress, pes, mem>>
      /\ pc[p] = "call" /\ stage.op = "reserve" /\ role(p) = "active"
      /\ shadow' = [shadow EXCEPT ![p] = Append(@, NoData)]
      /\ SendFrom(p, "call", 0)
  BY DEF Reserve, progress, pes
<1>2. /\ PEs' = PEs /\ Storing' = Storing /\ Ids' = Ids /\ Regions' = Regions
      /\ Storing \subseteq PEs /\ Rows \intersect Storing = {}
  BY <1>1, Frame, Numbering DEF IInv, Typed, ProgressTyped
<1>3. p \in Rows
  BY <1>1, SenderMeans DEF IInv
<1>4. \A q \in PEs \ {p} : pc'[q] = pc[q] /\ at'[q] = at[q]
  <2>1. 0 \in 0 .. Spares /\ pc[p] # "done"
    BY <1>1, Constants DEF IInv, Typed, ProgressTyped
  <2>2. pc' = [pc EXCEPT ![p] = pc'[p]] /\ at' = [at EXCEPT ![p] = at'[p]]
    BY <1>1, <2>1, NextTarget DEF IInv
  <2>3. QED
    BY <2>2 DEF IInv, Typed, SendingTyped
<1>5. Timing' /\ Emptied' /\ Roles' /\ MemNow' /\ \A q : Acting(q)' <=> Acting(q)
  <2>1. \A q \in PEs : RolledBack(q)' <=> RolledBack(q)
    BY <1>1 DEF RolledBack
  <2>2. \A s \in Storing : pc'[s] # "restore"
    BY <1>1, <1>2, <1>3, <1>4 DEF IInv, Placed, MayBe
  <2>3. QED
    BY <1>1, <2>1, <2>2, RolesKept DEF Copies
<1>6. /\ RoundSteps(step)' = RoundSteps(step)
      /\ \A q \in PEs, i \in Ids : Kept(q, i)' = Kept(q, i)
      /\ \A q \in PEs, i \in Ids, s \in Storing : Gone(q, i, s)' = Gone(q, i, s)
  BY <1>1, <1>4, OnlyCheckpoints DEF Copies
<1>7. /\ CheckRings'
      /\ \A s \in Storing : \A r, i : /\ Works(r, i, s)' = Works(r, i, s)
                                      /\ FiledWorks(r, i, s)' = FiledWorks(r, i, s)
  BY <1>1, <1>6, ChecksKept DEF Copies
<1>8. Senders'
  <2>1. \A q \in PEs : RolledBack(q)' <=> RolledBack(q)
    BY <1>1 DEF RolledBack
  <2>2. QED
    BY <1>1, <1>6, <1>7, <2>1, SendersKept DEF Copies
<1>9. TableData'
  BY <1>1, <1>7, TableKept DEF Copies
<1>10. ShadowData'
  <2>1. \A i \in Ids : Kept(p, i) = {}
    <3>1. step = 0
      BY <1>1 DEF IInv, Calls
    <3>2. QED
      BY <1>1, <3>1 DEF Kept, RoundSteps
  <2>2. shadow \in [PEs -> Seq(Data)]
    BY DEF IInv, Typed, MemoryTyped
  <2>3. ASSUME NEW q \in PEs, Acting(q), NEW i \in Ids, i < Len(shadow'[q])
        PROVE  Latest(Kept(q, i), part[q], shadow'[q][i + 1])
    <3>1. i \in Nat
      BY Constants DEF Ids, IInv, Typed, ProgressTyped
    <3>2. CASE q = p
      <4>1. shadow'[p] = Append(shadow[p], NoData) /\ Len(shadow'[p]) = Len(shadow[p]) + 1
        BY <1>1, <2>2
      <4>2. i < Len(shadow[p]) => shadow'[p][i + 1] = shadow[p][i + 1]
        BY <2>2, <3>1, <4>1
      <4>3. i = Len(shadow[p]) => shadow'[p][i + 1] = NoData
        BY <2>2, <4>1
      <4>4. i < Len(shadow[p]) => Latest(Kept(p, i), part[p], shadow[p][i + 1])
        BY <2>3, <3>2 DEF Copies, ShadowData
      <4>5. Latest(Kept(p, i), part[p], NoData)
        BY <2>1 DEF Latest
      <4>6. Len(shadow[p]) \in Nat
        BY <2>2
      <4>7. QED
        BY <2>3, <3>1, <3>2, <4>1, <4>2, <4>3, <4>4, <4>5, <4>6
    <3>3. CASE q # p
      <4>1. shadow'[q] = shadow[q]
        BY <1>1, <2>2, <3>3
      <4>2. QED
        BY <2>3, <4>1 DEF Copies, ShadowData
    <3>4. QED
      BY <3>2, <3>3
  <2>4. \A q \in Storing : shadow'[q] = shadow[q]
    BY <1>1, <1>2, <1>3, <2>2
  <2>5. ASSUME NEW q \in PEs, Acting(q)
        PROVE  /\ q \in Storing => Len(shadow'[q]) = Regions
               /\ \A i \in Ids : i < Len(shadow'[q]) => Latest(Kept(q, i), part[q], shadow[q][i + 1])'
    <3>1. q \in Storing => Len(shadow'[q]) = Regions
      BY <2>4, <2>5 DEF Copies, ShadowData
    <3>2. ASSUME NEW i \in Ids, i < Len(shadow'[q])
          PROVE  Latest(Kept(q, i), part[q], shadow[q][i + 1])'
      <4>1. Latest(Kept(q, i), part[q], shadow'[q][i + 1]) /\ Kept(q, i)' = Kept(q, i)
        BY <1>6, <2>3, <2>5, <3>2
      <4>2. QED
        BY <1>1, <4>1 DEF Latest
    <3>3. QED
      BY <3>1, <3>2
  <2>6. QED
    BY <1>2, <1>5, <2>5 DEF ShadowData
<1>11. QED
  BY <1>5, <1>7, <1>8, <1>9, <1>10 DEF Copies

(* Memory is taken into shadow memory.                                     *)
LEMMA CheckpointDataCopies ==
    ASSUME IInv, Copies, NEW p \in PEs, CheckpointData(p)
    PROVE  Copies'
<1>1. /\ program' = program /\ stage' = stage /\ step' = step /\ alive' = alive
      /\ part' = part /\ view' = view /\ mem' = mem /\ table' = table
      /\ queue' = queue /\ posted' = posted /\ UNCHANGED <<progress, pes, mem>>
      /\ pc[p] = "call" /\ stage.op = "checkpoint" /\ role(p) = "active"
      /\ shadow' = [shadow EXCEPT ![p][stage.id + 1] = mem[p][stage.id]]
      /\ SendFrom(p, "call", 0)
  BY DEF CheckpointData, progress, pes
<1>2. /\ PEs' = PEs /\ Storing' = Storing /\ Ids' = Ids /\ Regions' = Regions
      /\ Storing \subseteq PEs /\ Spares \in Nat /\ Originals \in Nat
      /\ \A s \in Storing : s \in Nat /\ Originals <= s
      /\ \A i \in Ids : i \in Nat
  BY <1>1, Frame, Numbering, Constants DEF IInv, Typed, ProgressTyped, Ids
<1>3. p \in alive /\ p \in view[p].active /\ stage.id \in Ids
  BY <1>1, SenderMeans DEF IInv
<1>4. /\ \A q \in PEs \ {p} : pc'[q] = pc[q] /\ at'[q] = at[q]
      /\ pc'[p] \in {"send", "done"} /\ at'[p] \in 0 .. Spares - 1
      /\ \A s \in Storages(p) : pc'[p] = "send" /\ cpr_storage_pes(at'[p]) <= s
  <2>1. 0 \in 0 .. Spares /\ pc[p] # "done"
    BY <1>1, <1>2
  <2>2. /\ pc' = [pc EXCEPT ![p] = pc'[p]] /\ at' = [at EXCEPT ![p] = at'[p]]
        /\ pc'[p] \in {"send", "done"} /\ at'[p] \in 0 .. Spares - 1
        /\ \A s \in Storages(p) : cpr_storage_pes(0) <= s =>
             pc'[p] = "send" /\ cpr_storage_pes(at'[p]) <= s
    BY <1>1, <2>1, NextTarget DEF IInv
  <2>3. \A s \in Storages(p) : cpr_storage_pes(0) <= s
    BY <1>2, <1>3, StoragesStore DEF cpr_storage_pes
  <2>4. QED
    BY <2>2, <2>3 DEF IInv, Typed, SendingTyped
<1>5. Timing' /\ Emptied' /\ Roles' /\ MemNow' /\ \A q : Acting(q)' <=> Acting(q)
  <2>1. \A q \in PEs : RolledBack(q)' <=> RolledBack(q)
    BY <1>1 DEF RolledBack
  <2>2. /\ \A s \in Storing : pc'[s] # "restore"
        /\ \A s \in alive \intersect Storing : s \notin view[s].active => pc'[s] = pc[s]
    BY <1>1, <1>2, <1>3, <1>4 DEF IInv, Placed, MayBe
  <2>3. \A s \in Storing : /\ Pending("resrv", s)' => Pending("resrv", s)
                           /\ Pending("check", s)' => Pending("check", s)
    BY <1>1 DEF Pending
  <2>4. QED
    BY <1>1, <2>1, <2>2, <2>3, RolesKept DEF Copies
<1>6. /\ RoundSteps(step)' = RoundSteps(step) /\ RoundSteps(step - 1) \subseteq RoundSteps(step)
      /\ \A q \in PEs, i \in Ids : Kept(q, i)' =
           IF q = p /\ i = stage.id THEN RoundSteps(step) ELSE Kept(q, i)
      /\ \A q \in PEs, i \in Ids, s \in Storing : Gone(q, i, s)' =
           IF q = p /\ i = stage.id
           THEN IF Passed(p, s)' THEN RoundSteps(step) ELSE RoundSteps(step - 1)
           ELSE Gone(q, i, s)
  <2>1. pc'[p] # "call"
    BY <1>4
  <2>2. QED
    BY <1>1, <1>4, <2>1, OnlyCheckpoints DEF Copies
<1>7. \A s \in Storing : Gone(p, stage.id, s) = RoundSteps(step - 1)
  BY <1>1, <1>2, <1>3 DEF Gone, Passed
<1>8. \A s \in Storages(p) : ~Passed(p, s)'
  BY <1>2, <1>3, <1>4, StoragesStore DEF Passed, cpr_storage_pes
<1>9. /\ CheckRings'
      /\ \A s \in Storing : \A r, i : /\ Works(r, i, s)' = Works(r, i, s)
                                      /\ FiledWorks(r, i, s)' = FiledWorks(r, i, s)
  BY <1>1, <1>6, ChecksKept DEF Copies
<1>10. Senders'
  <2>1. \A q \in PEs : RolledBack(q)' <=> RolledBack(q)
    BY <1>1 DEF RolledBack
  <2>2. \A q \in PEs, i \in Ids, s \in Storing : Acting(q) =>
          /\ Gone(q, i, s) \subseteq Gone(q, i, s)'
          /\ s \in Storages(q) => Gone(q, i, s)' = Gone(q, i, s)
    BY <1>6, <1>7, <1>8
  <2>3. QED
    BY <1>1, <1>9, <2>1, <2>2, SendersKept DEF Copies
<1>11. TableData'
  BY <1>1, <1>9, TableKept DEF Copies
<1>12. ShadowData'
  <2>1. /\ shadow \in [PEs -> Seq(Data)] /\ mem \in [PEs -> [Ids -> Data]]
        /\ mem[p][stage.id] = [row |-> part[p], work |-> step]
    BY <1>1, <1>3 DEF IInv, Typed, MemoryTyped, Copies, MemNow
  <2> DEFINE new == [shadow[p] EXCEPT ![stage.id + 1] = mem[p][stage.id]]
  <2>2. /\ new \in Seq(Data) /\ Len(new) = Len(shadow[p])
        /\ \A i \in Ids : i < Len(new) =>
             new[i + 1] = IF i = stage.id THEN mem[p][stage.id] ELSE shadow[p][i + 1]
    <3>1. shadow[p] \in Seq(Data) /\ mem[p][stage.id] \in Data
      BY <1>3, <2>1
    <3>2. shadow[p] \in [1 .. Len(shadow[p]) -> Data]
      BY <3>1
    <3>3. new \in [1 .. Len(shadow[p]) -> Data]
      BY <3>1, <3>2
    <3>4. \A i \in Ids : i < Len(shadow[p]) =>
             new[i + 1] = IF i = stage.id THEN mem[p][stage.id] ELSE shadow[p][i + 1]
      <4>1. \A i \in Ids : i < Len(shadow[p]) => i + 1 \in 1 .. Len(shadow[p])
        BY <1>2, <3>1
      <4>2. QED
        BY <1>2, <1>3, <3>2, <4>1
    <3> HIDE DEF new
    <3>5. new \in Seq(Data) /\ Len(new) = Len(shadow[p])
      BY <3>1, <3>3, SeqExcept
    <3>6. QED
      BY <3>4, <3>5
  <2>3. shadow' = [shadow EXCEPT ![p] = new]
    BY <1>1
  <2> HIDE DEF new
  <2>4. Latest(RoundSteps(step), part[p], mem[p][stage.id])
    <3>1. /\ RoundSteps(step) = RoundSteps(step - 1) \union {step} /\ step \in Nat
          /\ \A w \in RoundSteps(step - 1) : w \in Nat /\ w < step
      BY <1>1, RoundNow DEF Copies, IInv, Typed, ProgressTyped
    <3>2. RoundSteps(step - 1) \in SUBSET Nat /\ \A w \in RoundSteps(step - 1) : w <= step
      BY <3>1
    <3>3. Latest(RoundSteps(step - 1) \union {step}, part[p], [row |-> part[p], work |-> step])
      BY <3>1, <3>2, NewLatest
    <3>4. QED
      BY <2>1, <3>1, <3>3
  <2>5. ASSUME NEW q \in PEs, Acting(q)
        PROVE  /\ q \in Storing => Len(shadow'[q]) = Regions
               /\ \A i \in Ids : i < Len(shadow'[q]) => Latest(Kept(q, i), part[q], shadow[q][i + 1])'
    <3>1. /\ q \in Storing => Len(shadow[q]) = Regions
          /\ \A i \in Ids : i < Len(shadow[q]) => Latest(Kept(q, i), part[q], shadow[q][i + 1])
      BY <2>5 DEF Copies, ShadowData
    <3>2. q = p => shadow'[q] = new
      BY <2>1, <2>3
    <3>3. q # p => shadow'[q] = shadow[q]
      BY <2>1, <2>3
    <3>4. Len(shadow'[q]) = Len(shadow[q])
      BY <2>2, <3>2, <3>3
    <3>5. ASSUME NEW i \in Ids, i < Len(shadow'[q])
          PROVE  Latest(Kept(q, i), part[q], shadow[q][i + 1])'
      <4>1. Latest(Kept(q, i)', part[q], shadow'[q][i + 1])
        <5>1. CASE q = p /\ i = stage.id
          BY <1>6, <2>2, <2>4, <3>2, <3>5, <5>1
        <5>2. CASE ~(q = p /\ i = stage.id)
          <6>1. shadow'[q][i + 1] = shadow[q][i + 1]
            BY <2>2, <3>2, <3>3, <3>5, <5>2
          <6>2. QED
            BY <1>6, <3>1, <3>4, <3>5, <5>2, <6>1
        <5>3. QED
          BY <5>1, <5>2
      <4>2. QED
        BY <1>1, <4>1 DEF Latest
    <3>6. QED
      BY <3>1, <3>4, <3>5
  <2>6. QED
    BY <1>2, <1>5, <2>5 DEF ShadowData
<1>13. QED
  BY <1>5, <1>9, <1>10, <1>11, <1>12 DEF Copies

-----------------------------------------------------------------------------
(* The arrival of a put changes nothing of what is claimed.                *)
LEMMA DeliverCopies ==
    ASSUME IInv, Copies, NEW m \in posted, Deliver(m)
    PROVE  Copies'
<1>1. /\ program' = program /\ stage' = stage /\ step' = step /\ pc' = pc /\ at' = at
      /\ posted' = posted \ {m} /\ table' = table
      /\ UNCHANGED <<progress, pes, mem, shadow>> /\ plan' = plan
  BY Frame DEF Deliver, progress, sending, memory
<1>2. \A l \in Queues, t \in Storing :
        /\ queue'[l][t].head = queue[l][t].head /\ queue'[l][t].tail = queue[l][t].tail
        /\ queue'[l][t].slots =
             IF l = m.queue /\ t = m.to THEN [queue[l][t].slots EXCEPT ![m.slot] = m.carrier]
             ELSE queue[l][t].slots
  BY DeliverMeans DEF IInv
<1>3. \A k \in Queues, s \in Storing : Pending(k, s)' <=> Pending(k, s)
  BY <1>2 DEF Pending
<1>4. \A q : RolledBack(q)' <=> RolledBack(q)
  BY <1>1 DEF RolledBack
<1>5. /\ RoundSteps(step)' = RoundSteps(step)
      /\ \A q \in PEs, i \in Ids : Kept(q, i)' = Kept(q, i)
      /\ \A q \in PEs, i \in Ids, s \in Storing : Gone(q, i, s)' = Gone(q, i, s)
  <2>1. RoundSteps(step)' = RoundSteps(step) /\ RoundSteps(step - 1)' = RoundSteps(step - 1)
    BY <1>1 DEF RoundSteps
  <2>2. \A q, s : Passed(q, s)' <=> Passed(q, s)
    BY <1>1 DEF Passed, cpr_storage_pes
  <2>3. QED
    BY <1>1, <2>1, <2>2 DEF Kept, Gone
<1>6. Timing' /\ Emptied' /\ Roles' /\ MemNow'
  <2>1. /\ \A s \in Storing : /\ Pending("resrv", s)' => Pending("resrv", s)
                              /\ Pending("check", s)' => Pending("check", s)
    BY <1>3 DEF Queues
  <2>2. \A s \in Storing : pc'[s] = "restore" => stage.op = "rollback" /\ pc[s] = "restore"
    BY <1>1, Numbering DEF IInv, Placed, MayBe, Typed, ProgressTyped
  <2>3. QED
    BY <1>1, <1>4, <2>1, <2>2, RolesKept DEF Copies
<1>7. ShadowData'
  BY <1>1, <1>5, ShadowKept DEF Copies
<1>8. \A s \in Storing : /\ Claimed("check", s)' = Claimed("check", s)
                         /\ SlotsClaimed("check", s)'
                         /\ queue'["check"][s].head = queue["check"][s].head
  <2>1. SUFFICES ASSUME NEW s \in Storing
                 PROVE  /\ Claimed("check", s)' = Claimed("check", s)
                        /\ SlotsClaimed("check", s)'
                        /\ queue'["check"][s].head = queue["check"][s].head
    OBVIOUS
  <2>2. "check" \in Queues /\ Typed /\ SlotsClaimed("check", s)
    BY DEF Queues, IInv, Copies, CheckRings, CheckRing
  <2>3. QED
    BY <1>1, <1>2, <2>2, ClaimArrives
<1>9. /\ CheckRings'
      /\ \A s \in Storing : \A r, i : /\ Works(r, i, s)' = Works(r, i, s)
                                      /\ FiledWorks(r, i, s)' = FiledWorks(r, i, s)
  BY <1>1, <1>5, <1>8, CarriersKept DEF Copies
<1>10. Senders'
  BY <1>1, <1>4, <1>5, <1>9, SendersKept DEF Copies
<1>11. TableData'
  BY <1>1, <1>9, TableKept DEF Copies
<1>12. QED
  BY <1>6, <1>7, <1>9, <1>10, <1>11 DEF Copies

(* A reservation is filed before any checkpoint of its region.             *)
LEMMA FileReservationCopies ==
    ASSUME IInv, Copies, NEW s \in Storing, FileReservation(s)
    PROVE  Copies'
<1> DEFINE c == First("resrv", s)
           row == table[s][c.pe_num]
           new == Append(row, [id |-> c.id, data |-> NoData])
<1>1. /\ program' = program /\ stage' = stage /\ step' = step /\ at' = at
      /\ UNCHANGED <<progress, pes, mem, shadow>> /\ posted' = posted
      /\ pc[s] = "rloop" /\ pc' = [pc EXCEPT ![s] = "rloop"]
      /\ Pending("resrv", s) /\ c # Empty
      /\ queue' = [queue EXCEPT !["resrv"][s].head = @ + 1]
      /\ table' = [table EXCEPT ![s] = [table[s] EXCEPT ![c.pe_num] = new]]
      /\ plan' = plan
  BY Frame DEF FileReservation, Goto, progress, sending, memory
<1>2. pc' = pc
  BY <1>1 DEF IInv, Typed
<1>3. /\ c \in Carriers /\ c.id = Len(row) /\ queue["resrv"][s].head \in Nat
  BY <1>1, NextReservation
<1>4. \A l \in Queues, t \in Storing :
        /\ queue'[l][t].head = queue[l][t].head + IF l = "resrv" /\ t = s THEN 1 ELSE 0
        /\ queue'[l][t].tail = queue[l][t].tail
        /\ queue'[l][t].slots = queue[l][t].slots
  BY <1>1, HeadMoves DEF IInv, Queues
<1>5. /\ \A l \in Queues, t \in Storing :
           queue[l][t].head \in Int /\ queue[l][t].tail \in Int
      /\ "check" \in Queues /\ "resrv" \in Queues /\ "check" # "resrv"
  BY DEF IInv, Typed, QueueTyped, Ring, Queues
<1>6. \A t \in Storing : /\ queue'["check"][t].head = queue["check"][t].head
                         /\ queue'["check"][t].tail = queue["check"][t].tail
                         /\ queue'["check"][t].slots = queue["check"][t].slots
  BY <1>4, <1>5
<1>7. \A k \in Queues, t \in Storing : Pending(k, t)' => Pending(k, t)
  BY <1>4, <1>5 DEF Pending
<1>8. \A q : RolledBack(q)' <=> RolledBack(q)
  BY <1>1, <1>2 DEF RolledBack
<1>9. /\ RoundSteps(step)' = RoundSteps(step)
      /\ \A q \in PEs, i \in Ids : Kept(q, i)' = Kept(q, i)
      /\ \A q \in PEs, i \in Ids, t \in Storing : Gone(q, i, t)' = Gone(q, i, t)
  <2>1. RoundSteps(step)' = RoundSteps(step) /\ RoundSteps(step - 1)' = RoundSteps(step - 1)
    BY <1>1 DEF RoundSteps
  <2>2. \A q, t : Passed(q, t)' <=> Passed(q, t)
    BY <1>1, <1>2 DEF Passed, cpr_storage_pes
  <2>3. QED
    BY <1>1, <1>2, <2>1, <2>2 DEF Kept, Gone
<1>10. Timing' /\ Emptied' /\ Roles' /\ MemNow'
  <2>1. \A t \in Storing : pc'[t] = "restore" => stage.op = "rollback" /\ pc[t] = "restore"
    BY <1>2, Numbering DEF IInv, Placed, MayBe, Typed, ProgressTyped
  <2>2. QED
    BY <1>1, <1>2, <1>5, <1>7, <1>8, <2>1, RolesKept DEF Copies
<1>11. ShadowData'
  BY <1>1, <1>9, ShadowKept DEF Copies
<1>12. /\ CheckRings'
       /\ \A t \in Storing : \A r, i : /\ Works(r, i, t)' = Works(r, i, t)
                                       /\ FiledWorks(r, i, t)' = FiledWorks(r, i, t)
  BY <1>1, <1>6, <1>9, ChecksKept DEF Copies
<1>13. Senders'
  BY <1>1, <1>8, <1>9, <1>12, SendersKept DEF Copies
<1>14. TableData'
  <2>1. /\ Storing' = Storing /\ Ids' = Ids /\ c.pe_num \in Rows /\ c.id \in Ids
        /\ \A i \in Ids : i \in Nat
        /\ table \in [Storing -> [Rows -> Seq(Entry)]] /\ row \in Seq(Entry)
    <3>1. Storing' = Storing /\ Ids' = Ids
      BY <1>1, Frame
    <3>2. c.pe_num \in Rows /\ c.id \in Ids
      BY <1>3 DEF Carriers
    <3>3. \A i \in Ids : i \in Nat
      BY Constants DEF Ids, IInv, Typed, ProgressTyped
    <3>4. table \in [Storing -> [Rows -> Seq(Entry)]] /\ row \in Seq(Entry)
      BY <3>2 DEF IInv, Typed, TableTyped
    <3>5. QED
      BY <3>1, <3>2, <3>3, <3>4
  <2>2. FiledWorks(c.pe_num, c.id, s) = {}
    <3>1. Len(row) \in Nat
      BY <2>1
    <3>2. FiledWorks(c.pe_num, c.id, s) # {} => c.id < Len(row)
      BY <2>1 DEF Copies, TableData
    <3>3. QED
      BY <1>3, <3>1, <3>2
  <2>3. /\ Len(new) = Len(row) + 1 /\ new[Len(row) + 1].data = NoData
        /\ \A i \in Ids : i < Len(row) => new[i + 1] = row[i + 1]
    <3>1. \A i \in Ids : i < Len(row) => i + 1 \in 1 .. Len(row)
      BY <2>1
    <3>2. QED
      BY <2>1, <3>1
  <2> HIDE DEF new
  <2>4. /\ table'[s][c.pe_num] = new
        /\ \A t \in Storing, r \in Rows : t # s \/ r # c.pe_num => table'[t][r] = table[t][r]
    BY <1>1, <2>1
  <2> HIDE DEF c, row
  <2>5. ASSUME NEW t \in Storing, NEW r \in Rows, NEW i \in Ids
        PROVE  /\ FiledWorks(r, i, t)' # {} => i < Len(table'[t][r])
               /\ i < Len(table'[t][r]) =>
                    Latest(FiledWorks(r, i, t)', r, table'[t][r][i + 1].data)
    <3>1. /\ FiledWorks(r, i, t) # {} => i < Len(table[t][r])
          /\ i < Len(table[t][r]) => Latest(FiledWorks(r, i, t), r, table[t][r][i + 1].data)
          /\ FiledWorks(r, i, t)' = FiledWorks(r, i, t)
      BY <1>12 DEF Copies, TableData
    <3>2. CASE t = s /\ r = c.pe_num
      <4>1. table[t][r] = row /\ table'[t][r] = new /\ Len(row) \in Nat
        BY <2>1, <2>4, <3>2 DEF row
      <4>2. CASE i < Len(row)
        <5>1. new[i + 1] = row[i + 1] /\ i < Len(new)
          BY <2>1, <2>3, <4>1, <4>2
        <5>2. QED
          BY <3>1, <4>1, <4>2, <5>1
      <4>3. CASE ~(i < Len(row))
        <5>1. i < Len(new) => i = Len(row)
          BY <2>1, <2>3, <4>1, <4>3
        <5>2. i < Len(new) => Latest(FiledWorks(r, i, t), r, new[i + 1].data)
          BY <1>3, <2>2, <2>3, <3>2, <5>1 DEF Latest, c, row
        <5>3. QED
          BY <3>1, <4>1, <4>3, <5>2
      <4>4. QED
        BY <4>2, <4>3
    <3>3. CASE ~(t = s /\ r = c.pe_num)
      <4>1. table'[t][r] = table[t][r]
        BY <2>4, <3>3
      <4>2. QED
        BY <3>1, <4>1
    <3>4. QED
      BY <3>2, <3>3
  <2>6. QED
    BY <2>1, <2>5 DEF TableData, Latest
<1>15. QED
  BY <1>10, <1>11, <1>12, <1>13, <1>14 DEF Copies

(* A carrier names the row whose data it has.                              *)
LEMMA CarriedData ==
    ASSUME IInv, NEW s \in Storing, CheckRing(s), NEW x \in Claimed("check", s)
    PROVE  /\ x.slot \in Nat /\ x.carrier.pe_num \in Rows /\ x.carrier.id \in Ids
           /\ x.carrier.data.work \in 0 .. MaxWork
           /\ x.carrier.data = [row |-> x.carrier.pe_num, work |-> x.carrier.data.work]
<1>1. x.slot \in Slots /\ x.carrier \in Carriers /\ x.carrier.data.row = x.carrier.pe_num
  BY DEF Claimed, CheckRing
<1>2. x.slot \in Nat
  BY <1>1, Constants DEF Slots, IInv, Typed, ProgressTyped
<1>3. x.carrier.pe_num \in Rows /\ x.carrier.id \in Ids /\ x.carrier.data \in Data
  BY <1>1 DEF Carriers
<1>4. x.carrier.data # NoData
  <2>1. -1 \notin Rows
    BY Numbering DEF IInv, Typed, ProgressTyped
  <2>2. NoData.row = -1
    BY DEF NoData
  <2>3. QED
    BY <1>1, <1>3, <2>1, <2>2
<1>5. x.carrier.data \in [row : PEs, work : 0 .. MaxWork]
  BY <1>3, <1>4 DEF Data
<1>6. QED
  BY <1>1, <1>2, <1>3, <1>5

(* A checkpoint is filed: it is the latest of its region so far.           *)
LEMMA FileDataCopies ==
    ASSUME IInv, Copies, NEW s \in Storing, FileData(s)
    PROVE  Copies'
<1> DEFINE c == First("check", s)
           head == queue["check"][s].head
           x == [slot |-> head, carrier |-> c]
<1>1. /\ program' = program /\ stage' = stage /\ step' = step /\ at' = at
      /\ UNCHANGED <<progress, pes, mem, shadow>> /\ posted' = posted
      /\ pc[s] = "cloop" /\ pc' = [pc EXCEPT ![s] = "cloop"]
      /\ Pending("check", s) /\ c # Empty
      /\ queue' = [queue EXCEPT !["check"][s].head = @ + 1]
      /\ table' = [table EXCEPT ![s][c.pe_num][c.id + 1].data = c.data]
      /\ plan' = plan /\ Storing' = Storing /\ Ids' = Ids /\ MaxWork' = MaxWork
      /\ Carriers' = Carriers
  BY Frame DEF FileData, Goto, progress, sending, memory
<1>2. pc' = pc
  BY <1>1 DEF IInv, Typed
<1>3. \A l \in Queues, t \in Storing :
        /\ queue'[l][t].head = queue[l][t].head + IF l = "check" /\ t = s THEN 1 ELSE 0
        /\ queue'[l][t].tail = queue[l][t].tail
        /\ queue'[l][t].slots = queue[l][t].slots
  BY <1>1, HeadMoves DEF IInv, Queues
<1>4. /\ \A l \in Queues, t \in Storing :
           queue[l][t].head \in Nat /\ queue[l][t].tail \in Nat
      /\ "check" \in Queues /\ "resrv" \in Queues /\ "check" # "resrv"
  BY DEF IInv, Typed, QueueTyped, Ring, Queues
<1>5. \A k \in Queues, t \in Storing : Pending(k, t)' => Pending(k, t)
  BY <1>3, <1>4 DEF Pending
<1>6. \A q : RolledBack(q)' <=> RolledBack(q)
  BY <1>1, <1>2 DEF RolledBack
<1>7. /\ RoundSteps(step)' = RoundSteps(step)
      /\ \A q \in PEs, i \in Ids : Kept(q, i)' = Kept(q, i)
      /\ \A q \in PEs, i \in Ids, t \in Storing : Gone(q, i, t)' = Gone(q, i, t)
  <2>1. RoundSteps(step)' = RoundSteps(step) /\ RoundSteps(step - 1)' = RoundSteps(step - 1)
    BY <1>1 DEF RoundSteps
  <2>2. \A q, t : Passed(q, t)' <=> Passed(q, t)
    BY <1>1, <1>2 DEF Passed, cpr_storage_pes
  <2>3. QED
    BY <1>1, <1>2, <2>1, <2>2 DEF Kept, Gone
<1>8. Timing' /\ Emptied' /\ Roles' /\ MemNow'
  <2>1. \A t \in Storing : pc'[t] = "restore" => stage.op = "rollback" /\ pc[t] = "restore"
    BY <1>2, Numbering DEF IInv, Placed, MayBe, Typed, ProgressTyped
  <2>2. QED
    BY <1>1, <1>2, <1>4, <1>5, <1>6, <2>1, RolesKept DEF Copies
<1>9. ShadowData'
  BY <1>1, <1>7, ShadowKept DEF Copies
<1>10. x \in Claimed("check", s) /\ c \in Carriers
  BY <1>1, <1>4, HeadClaimed DEF IInv, Copies, CheckRings, CheckRing
<1>11. \A t \in Storing : Claimed("check", t)' = Claimed("check", t)
  BY <1>1, <1>3, <1>4 DEF Claimed
<1>12. \A t \in Storing : SlotsClaimed("check", t)'
  <2>1. SUFFICES ASSUME NEW t \in Storing
                 PROVE  SlotsClaimed("check", t)'
    OBVIOUS
  <2>2. SlotsClaimed("check", t)
    BY DEF Copies, CheckRings, CheckRing
  <2>3. queue'["check"][t].head <= queue'["check"][t].tail
    BY <1>1, <1>3, <1>4, <2>2 DEF Pending, SlotsClaimed
  <2>4. queue'["check"][t].tail = queue["check"][t].tail
        /\ queue'["check"][t].slots = queue["check"][t].slots
    BY <1>3, <1>4
  <2>5. QED
    BY <1>1, <1>11, <2>2, <2>3, <2>4 DEF SlotsClaimed
<1>13. CheckRings'
  BY <1>1, <1>7, <1>11, <1>12 DEF Copies, CheckRings, CheckRing
<1>14. \A t \in Storing : \A r, i : Works(r, i, t)' = Works(r, i, t)
  BY <1>1, <1>11 DEF Works, Of
<1>15. Senders'
  BY <1>1, <1>6, <1>7, <1>14, SendersKept DEF Copies
<1> HIDE DEF c, head, x
<1>16. /\ x.slot = head /\ x.carrier = c /\ head \in Nat /\ c.pe_num \in Rows /\ c.id \in Ids
       /\ c.data.work \in 0 .. MaxWork /\ c.data = [row |-> c.pe_num, work |-> c.data.work]
  BY <1>10, CarriedData DEF Copies, CheckRings, x
<1>17. \A t \in Storing : \A r, i : FiledWorks(r, i, t)' =
         FiledWorks(r, i, t) \union IF t = s /\ r = c.pe_num /\ i = c.id THEN {c.data.work} ELSE {}
  <2>1. ASSUME NEW t \in Storing, NEW y \in Claimed("check", t)
        PROVE  y.slot < queue'["check"][t].head
                 <=> y.slot < queue["check"][t].head \/ (t = s /\ y = x)
    <3>1. y.slot \in Nat /\ queue["check"][t].head \in Nat
      BY <1>4, CarriedData DEF Copies, CheckRings
    <3>2. t = s /\ y.slot = head => y = x
      BY <1>10, <1>16 DEF Copies, CheckRings, CheckRing, SlotsClaimed
    <3>3. queue'["check"][t].head = queue["check"][t].head + IF t = s THEN 1 ELSE 0
      BY <1>3, <1>4
    <3>4. QED
      BY <1>16, <3>1, <3>2, <3>3 DEF head
  <2>2. ASSUME NEW t \in Storing, NEW r, NEW i, NEW w \in 0 .. MaxWork
        PROVE  (\E y \in Claimed("check", t) :
                  Of(y, r, i) /\ y.carrier.data.work = w /\ y.slot < queue'["check"][t].head)
               <=> \/ \E y \in Claimed("check", t) :
                        Of(y, r, i) /\ y.carrier.data.work = w /\ y.slot < queue["check"][t].head
                   \/ t = s /\ r = c.pe_num /\ i = c.id /\ w = c.data.work
    BY <1>10, <1>16, <2>1 DEF Of
  <2>3. ASSUME NEW t \in Storing, NEW r, NEW i
        PROVE  FiledWorks(r, i, t)' = {w \in 0 .. MaxWork : \E y \in Claimed("check", t) :
                  Of(y, r, i) /\ y.carrier.data.work = w /\ y.slot < queue'["check"][t].head}
    BY <1>1, <1>11 DEF FiledWorks, Of
  <2>4. SUFFICES ASSUME NEW t \in Storing, NEW r, NEW i
                 PROVE  FiledWorks(r, i, t)' = FiledWorks(r, i, t) \union
                          IF t = s /\ r = c.pe_num /\ i = c.id THEN {c.data.work} ELSE {}
    OBVIOUS
  <2>5. QED
    BY <1>16, <2>2, <2>3 DEF FiledWorks
<1>18. TableData'
  <2>1. \A v \in FiledWorks(c.pe_num, c.id, s) : v \in Nat /\ v <= c.data.work
    <3>1. SUFFICES ASSUME NEW v \in FiledWorks(c.pe_num, c.id, s)
                   PROVE  v \in Nat /\ v <= c.data.work
      OBVIOUS
    <3>2. PICK y \in Claimed("check", s) :
            Of(y, c.pe_num, c.id) /\ y.carrier.data.work = v /\ y.slot < head
      BY DEF FiledWorks, head
    <3>3. v < c.data.work
      BY <1>10, <1>16, <3>2 DEF Of, Copies, CheckRings, CheckRing
    <3>4. v \in 0 .. MaxWork /\ MaxWork \in Nat
      BY Constants DEF FiledWorks, IInv, Typed, ProgressTyped
    <3>5. QED
      BY <1>16, <3>3, <3>4
  <2>2. Latest(FiledWorks(c.pe_num, c.id, s) \union {c.data.work}, c.pe_num, c.data)
    <3>1. c.data.work \in Nat
      BY <1>16, Constants DEF IInv, Typed, ProgressTyped
    <3>2. FiledWorks(c.pe_num, c.id, s) \in SUBSET Nat
      BY <2>1
    <3>3. Latest(FiledWorks(c.pe_num, c.id, s) \union {c.data.work}, c.pe_num,
                 [row |-> c.pe_num, work |-> c.data.work])
      BY <2>1, <3>1, <3>2, NewLatest
    <3>4. QED
      BY <1>16, <3>3
  <2>3. \A t \in Storing, r \in Rows :
          /\ Len(table'[t][r]) = Len(table[t][r])
          /\ DOMAIN table'[t][r] = DOMAIN table[t][r]
          /\ \A i \in DOMAIN table[t][r] :
               table'[t][r][i].data = IF t = s /\ r = c.pe_num /\ i = c.id + 1
                                      THEN c.data ELSE table[t][r][i].data
    BY <1>10, FileDataTable DEF IInv, c
  <2>4. Len(table[s][c.pe_num]) = Regions
    <3>1. stage.op # "reserve"
      BY <1>1, Numbering DEF IInv, Placed, MayBe, Typed, ProgressTyped
    <3>2. ~Pending("resrv", s)
      BY <1>1, <3>1 DEF IInv, Drained
    <3>3. QED
      BY <1>16, <3>1, <3>2, AllFiled
  <2>5. \A i \in Ids : i \in Nat /\ i < Regions
    BY Constants DEF Ids, IInv, Typed, ProgressTyped
  <2>6. ASSUME NEW t \in Storing, NEW r \in Rows, NEW i \in Ids
        PROVE  /\ FiledWorks(r, i, t)' # {} => i < Len(table'[t][r])
               /\ i < Len(table'[t][r]) =>
                    Latest(FiledWorks(r, i, t)', r, table'[t][r][i + 1].data)
    <3>1. /\ FiledWorks(r, i, t) # {} => i < Len(table[t][r])
          /\ i < Len(table[t][r]) => Latest(FiledWorks(r, i, t), r, table[t][r][i + 1].data)
      BY DEF Copies, TableData
    <3>2. Len(table'[t][r]) = Len(table[t][r])
      BY <2>3
    <3>3. i < Len(table[t][r]) => i + 1 \in DOMAIN table[t][r]
      <4>1. table[t][r] \in Seq(Entry)
        BY DEF IInv, Typed, TableTyped
      <4>2. QED
        BY <2>5, <4>1
    <3>4. CASE t = s /\ r = c.pe_num /\ i = c.id
      <4>1. FiledWorks(r, i, t)' = FiledWorks(c.pe_num, c.id, s) \union {c.data.work}
        BY <1>17, <3>4
      <4>2. i < Len(table[t][r]) => table'[t][r][i + 1].data = c.data
        BY <2>3, <3>3, <3>4
      <4>3. i < Len(table[t][r])
        BY <2>4, <2>5, <3>4
      <4>4. QED
        BY <2>2, <3>2, <3>4, <4>1, <4>2, <4>3
    <3>5. CASE ~(t = s /\ r = c.pe_num /\ i = c.id)
      <4>1. FiledWorks(r, i, t)' = FiledWorks(r, i, t)
        <5>1. FiledWorks(r, i, t)' = FiledWorks(r, i, t) \union {}
          BY <1>17, <3>5
        <5>2. QED
          BY <5>1
      <4>2. ~(t = s /\ r = c.pe_num /\ i + 1 = c.id + 1)
        BY <1>16, <2>5, <3>5
      <4>3. i < Len(table[t][r]) => table'[t][r][i + 1].data = table[t][r][i + 1].data
        BY <2>3, <3>3, <4>2
      <4>4. QED
        BY <3>1, <3>2, <4>1, <4>3
    <3>6. QED
      BY <3>4, <3>5
  <2>7. QED
    BY <1>1, <2>6 DEF TableData, Latest
<1>19. QED
  BY <1>8, <1>9, <1>13, <1>15, <1>18 DEF Copies

-----------------------------------------------------------------------------
(* A ring of checkpoints has room for one that has not been sent: no two   *)
(* of its carriers are for the same region of a PE in the same round.      *)
LEMMA CheckRoom ==
    ASSUME IInv, NEW s \in Storing, CheckRing(s), NEW r \in Rows, NEW n \in Ids,
           step \in RoundSteps(step), \A w \in Works(r, n, s) : w # step
    PROVE  queue["check"][s].tail \in 0 .. QueueLen - 1
<1> DEFINE claimed == Claimed("check", s)
           tail == queue["check"][s].tail
           rounds == RoundSteps(Len(plan))
           AtSlot(i) == CHOOSE x \in claimed : x.slot = i
           KeyOf(x) == <<<<x.carrier.pe_num, x.carrier.id>>, x.carrier.data.work>>
           key == [i \in 0 .. tail |-> IF i < tail THEN KeyOf(AtSlot(i)) ELSE <<<<r, n>>, step>>]
<1>1. /\ tail \in Nat /\ program \in Programs /\ step \in 0 .. Len(plan)
      /\ plan \in Seq({"round", "death"}) /\ MaxWork = Len(plan) /\ Len(plan) \in Nat
      /\ Originals \in Nat \ {0} /\ Regions \in Nat \ {0} /\ QueueLen \in Nat \ {0}
  BY Constants DEF IInv, Typed, ProgressTyped, QueueTyped, Ring, Queues
<1>2. \A w \in RoundSteps(step) : w \in rounds
  BY <1>1 DEF RoundSteps
<1>3. \A x \in claimed : /\ x.carrier.pe_num \in Rows /\ x.carrier.id \in Ids /\ x.slot \in Nat
                         /\ x.carrier.data.work \in rounds /\ x.carrier.data.work \in 0 .. MaxWork
  BY <1>2, CarriedData DEF CheckRing
<1>4. \A i \in 0 .. tail - 1 : AtSlot(i) \in claimed /\ AtSlot(i).slot = i
  <2>1. SUFFICES ASSUME NEW i \in 0 .. tail - 1
                 PROVE  AtSlot(i) \in claimed /\ AtSlot(i).slot = i
    OBVIOUS
  <2>2. \E x \in claimed : x.slot = i
    BY DEF CheckRing, SlotsClaimed
  <2> HIDE DEF claimed
  <2>3. QED
    BY <2>2
<1>5. \A x, y \in claimed :
        x.carrier.pe_num = y.carrier.pe_num /\ x.carrier.id = y.carrier.id /\ x.slot < y.slot
          => x.carrier.data.work < y.carrier.data.work
  BY DEF CheckRing
<1>6. \A x \in claimed : x.carrier.pe_num = r /\ x.carrier.id = n => x.carrier.data.work # step
  BY <1>3 DEF Works, Of
<1>7. \A w \in rounds : w \in Nat
  BY <1>1 DEF RoundSteps
<1> HIDE DEF claimed, tail, AtSlot, rounds
<1>8. key \in [0 .. tail -> (Rows \X Ids) \X rounds]
  <2>1. \A x \in claimed : KeyOf(x) \in (Rows \X Ids) \X rounds
    BY <1>3
  <2>2. <<<<r, n>>, step>> \in (Rows \X Ids) \X rounds
    BY <1>2
  <2> HIDE DEF KeyOf
  <2>3. QED
    BY <1>1, <1>4, <2>1, <2>2
<1>9. ASSUME NEW i \in 0 .. tail, NEW j \in 0 .. tail, i < j
      PROVE  key[i] # key[j]
  <2>1. key[i] = KeyOf(AtSlot(i)) /\ i \in 0 .. tail - 1
    BY <1>1, <1>9
  <2>2. CASE j < tail
    <3>1. key[j] = KeyOf(AtSlot(j)) /\ j \in 0 .. tail - 1
      BY <1>1, <2>2
    <3>2. AtSlot(i) \in claimed /\ AtSlot(j) \in claimed /\ AtSlot(i).slot < AtSlot(j).slot
      BY <1>4, <1>9, <2>1, <3>1
    <3>3. /\ AtSlot(i).carrier.data.work \in Nat /\ AtSlot(j).carrier.data.work \in Nat
          /\ AtSlot(i).carrier.pe_num = AtSlot(j).carrier.pe_num
             /\ AtSlot(i).carrier.id = AtSlot(j).carrier.id
               => AtSlot(i).carrier.data.work < AtSlot(j).carrier.data.work
      BY <1>3, <1>5, <1>7, <3>2
    <3>4. QED
      BY <2>1, <3>1, <3>3
  <2>3. CASE j = tail
    <3>1. key[j] = <<<<r, n>>, step>>
      BY <1>1, <2>3
    <3>2. AtSlot(i) \in claimed
      BY <1>4, <2>1
    <3>3. AtSlot(i).carrier.pe_num = r /\ AtSlot(i).carrier.id = n
            => AtSlot(i).carrier.data.work # step
      BY <1>6, <3>2
    <3>4. QED
      BY <2>1, <3>1, <3>3
  <2>4. QED
    BY <1>1, <2>2, <2>3
<1>10. key \in Injection(0 .. tail, (Rows \X Ids) \X rounds)
  <2> HIDE DEF key
  <2>1. \A i, j \in 0 .. tail : key[i] = key[j] => i = j
    BY <1>1, <1>9
  <2>2. QED
    BY <1>8, <2>1 DEF Injection, IsInjective
<1>11. /\ IsFiniteSet((Rows \X Ids) \X rounds)
       /\ Cardinality((Rows \X Ids) \X rounds) = Originals * Regions * Cardinality(rounds)
  <2>0. Originals \in Nat \ {0} /\ Regions \in Nat \ {0}
    BY <1>1
  <2>1. IsFiniteSet(Rows) /\ Cardinality(Rows) = Originals
    BY <2>0, FS_Interval DEF Rows
  <2>2. IsFiniteSet(Ids) /\ Cardinality(Ids) = Regions
    BY <2>0, FS_Interval DEF Ids
  <2>3. IsFiniteSet(Rows \X Ids) /\ Cardinality(Rows \X Ids) = Originals * Regions
    BY <2>1, <2>2, FS_Product
  <2>4. IsFiniteSet(rounds)
    <3>1. IsFiniteSet(1 .. Len(plan)) /\ rounds \subseteq 1 .. Len(plan)
      BY <1>1, FS_Interval DEF rounds, RoundSteps
    <3>2. QED
      BY <3>1, FS_Subset
  <2>5. QED
    BY <2>3, <2>4, FS_Product
<1>12. Cardinality(0 .. tail) = tail + 1
  BY <1>1, FS_Interval
<1>13. Cardinality(0 .. tail) <= Cardinality((Rows \X Ids) \X rounds)
  <2> HIDE DEF key
  <2>1. QED
    BY <1>10, <1>11, FS_Injection
<1>14. Originals * Regions * Cardinality(rounds) <= QueueLen
  <2>1. rounds = {i \in DOMAIN plan : plan[i] = "round"}
    BY <1>1 DEF rounds, RoundSteps
  <2>2. QED
    BY <1>1, <2>1, CheckpointsFit DEF plan, Regions
<1>15. tail \in Nat /\ QueueLen \in Nat /\ tail + 1 <= QueueLen
  <2> DEFINE all == Cardinality((Rows \X Ids) \X rounds)
  <2>1. all \in Nat
    BY <1>11, FS_CardinalityType
  <2>2. all <= QueueLen
    BY <1>11, <1>14
  <2>3. tail + 1 <= all
    BY <1>12, <1>13
  <2>4. tail \in Nat /\ QueueLen \in Nat
    BY <1>1
  <2> HIDE DEF all
  <2>5. QED
    BY <2>1, <2>2, <2>3, <2>4
<1>16. QED
  BY <1>15 DEF tail

(* The checkpoint of the round is sent: it is the next of its region, and  *)
(* the only one that has not been there.                                   *)
LEMMA SendCheckpoint ==
    ASSUME IInv, Copies, NEW p \in PEs, Send(p), stage.op = "checkpoint",
           NEW s, s = cpr_storage_pes(at[p]),
           NEW c, c = Carrier(p), NEW tail, tail = queue["check"][s].tail,
           NEW new, new = [slot |-> tail, carrier |-> c]
    PROVE  /\ s \in Storing /\ Acting(p) /\ part[p] \in Rows /\ stage.id \in Ids
           /\ new \in [slot : Nat, carrier : Carriers]
           /\ new.carrier.pe_num = part[p] /\ new.carrier.id = stage.id
           /\ new.carrier.data = [row |-> part[p], work |-> step]
           /\ step \in RoundSteps(step) /\ step \in 0 .. MaxWork
           /\ \A w \in Works(part[p], stage.id, s) : w \in RoundSteps(step - 1)
           /\ Claimed("check", s)' = Claimed("check", s) \union {new}
           /\ SlotsClaimed("check", s)'
           /\ \A t \in Storing \ {s} : /\ Claimed("check", t)' = Claimed("check", t)
                                       /\ SlotsClaimed("check", t)'
           /\ \A t \in Storing : queue'["check"][t].head = queue["check"][t].head
<1>1. program' = program /\ pc[p] = "send" /\ Kind = "check" /\ "check" \in Queues
  BY DEF Send, Goto, progress, Kind, Queues
<1>2. /\ s \in Storing /\ c \in Carriers
      /\ posted' = posted \union {[to |-> s, queue |-> "check", carrier |-> c,
                                   slot |-> tail % QueueLen]}
      /\ \A l \in Queues, t \in Storing :
           /\ queue'[l][t].head = queue[l][t].head
           /\ queue'[l][t].slots = queue[l][t].slots
           /\ queue'[l][t].tail = queue[l][t].tail + IF l = "check" /\ t = s THEN 1 ELSE 0
  BY <1>1, SendMeans
<1>3. Acting(p) /\ part[p] \in Rows /\ stage.id \in Ids
  BY <1>1, SenderMeans DEF IInv, Sender, Acting
<1>4. c.pe_num = part[p] /\ c.id = stage.id /\ c.data = [row |-> part[p], work |-> step]
  BY <1>3 DEF Carrier, Copies, MemNow, Acting
<1>5. /\ RoundSteps(step) = RoundSteps(step - 1) \union {step} /\ step \in Nat
      /\ \A w \in RoundSteps(step - 1) : w \in Nat /\ w < step
      /\ step \in 0 .. MaxWork
  BY RoundNow, Constants DEF Copies, IInv, Typed, ProgressTyped
<1>6. Works(part[p], stage.id, s) \subseteq RoundSteps(step - 1)
  <2>1. Works(part[p], stage.id, s) \subseteq Gone(p, stage.id, s)
    BY <1>2, <1>3 DEF Copies, Senders
  <2>2. at[p] \in Int /\ Originals \in Int /\ stage.id \in Int
    BY <1>3, Constants DEF IInv, Typed, ProgressTyped, SendingTyped, Ids
  <2>3. ~Passed(p, s)
    BY <1>1, <2>2 DEF Passed, cpr_storage_pes
  <2>4. Gone(p, stage.id, s) = RoundSteps(step - 1)
    BY <2>2, <2>3 DEF Gone
  <2>5. QED
    BY <2>1, <2>4
<1>7. CheckRing(s)
  BY <1>2 DEF Copies, CheckRings
<1>8. tail \in 0 .. QueueLen - 1
  <2>1. step \in RoundSteps(step) /\ \A w \in Works(part[p], stage.id, s) : w # step
    BY <1>5, <1>6
  <2>2. QED
    BY <1>2, <1>3, <1>7, <2>1, CheckRoom
<1>9. Claimed("check", s)' = Claimed("check", s) \union {new} /\ SlotsClaimed("check", s)'
  <2>1. /\ queue'["check"][s].head = queue["check"][s].head
        /\ queue'["check"][s].slots = queue["check"][s].slots
        /\ queue'["check"][s].tail = tail + 1
    BY <1>1, <1>2
  <2>2. Typed /\ SlotsClaimed("check", s)
    BY <1>7 DEF IInv, CheckRing
  <2>3. /\ program' = program /\ "check" \in Queues /\ s \in Storing /\ c \in Carriers
        /\ posted' = posted \union {[to |-> s, queue |-> "check", carrier |-> c,
                                     slot |-> queue["check"][s].tail % QueueLen]}
    BY <1>1, <1>2
  <2>4. QED
    BY <1>8, <2>1, <2>2, <2>3, ClaimSlot
<1>10. ASSUME NEW t \in Storing \ {s}
       PROVE  Claimed("check", t)' = Claimed("check", t) /\ SlotsClaimed("check", t)'
  <2>1. SlotsClaimed("check", t)
    BY DEF Copies, CheckRings, CheckRing
  <2>2. queue[ "check"][t].tail \in Int
    BY <1>1 DEF IInv, Typed, QueueTyped, Ring
  <2>3. /\ queue'["check"][t].head = queue["check"][t].head
        /\ queue'["check"][t].slots = queue["check"][t].slots
        /\ queue'["check"][t].tail = queue["check"][t].tail
    BY <1>1, <1>2, <2>2
  <2>4. \A m : m.to = t /\ m.queue = "check" => (m \in posted' <=> m \in posted)
    BY <1>2
  <2>5. QED
    BY <1>1, <2>1, <2>3, <2>4, ClaimedKept
<1>11. tail \in Nat
  BY <1>8, Constants DEF IInv, Typed, ProgressTyped
<1>12. \A t \in Storing : queue'["check"][t].head = queue["check"][t].head
  BY <1>1, <1>2
<1>13. /\ new \in [slot : Nat, carrier : Carriers] /\ new.carrier = c
       /\ step \in RoundSteps(step) /\ \A w \in Works(part[p], stage.id, s) : w \in RoundSteps(step - 1)
  BY <1>2, <1>5, <1>6, <1>11
<1>14. /\ new.carrier.pe_num = part[p] /\ new.carrier.id = stage.id
       /\ new.carrier.data = [row |-> part[p], work |-> step]
  BY <1>4, <1>13
<1>15. QED
  BY <1>2, <1>3, <1>5, <1>9, <1>10, <1>12, <1>13, <1>14

(* A PE claims a slot for its carrier and puts it.                         *)
LEMMA SendCopies ==
    ASSUME IInv, Copies, NEW p \in PEs, Send(p)
    PROVE  Copies'
<1>1. /\ program' = program /\ stage' = stage /\ step' = step /\ at' = at /\ part' = part
      /\ view' = view /\ alive' = alive
      /\ UNCHANGED <<progress, pes, memory, mem, shadow, table>>
      /\ pc[p] = "send" /\ pc' = [pc EXCEPT ![p] = "signal"] /\ plan' = plan
      /\ Storing' = Storing /\ MaxWork' = MaxWork
  BY Frame DEF Send, Goto, progress, sending, memory, pes
<1>2. stage.op \in {"reserve", "checkpoint"}
  BY <1>1, InCallAlive DEF IInv, MayBe, Sender
<1>3. CASE stage.op = "reserve"
  <2>1. Kind = "resrv"
    BY <1>3 DEF Kind
  <2>2. /\ \A m : m.queue = "check" => (m \in posted' <=> m \in posted)
        /\ \A t \in Storing : /\ queue'["check"][t].head = queue["check"][t].head
                              /\ queue'["check"][t].tail = queue["check"][t].tail
                              /\ queue'["check"][t].slots = queue["check"][t].slots
    <3>1. "check" \in Queues /\ \A t \in Storing : queue["check"][t].tail \in Int
      BY DEF Queues, IInv, Typed, QueueTyped, Ring
    <3>2. QED
      BY <2>1, <3>1, SendMeans
  <2>3. QED
    BY <1>1, <1>3, <2>2, StayCopies
<1>4. CASE stage.op = "checkpoint"
  <2> SUFFICES ASSUME NEW s, s = cpr_storage_pes(at[p]), NEW c, c = Carrier(p),
                      NEW tail, tail = queue["check"][s].tail,
                      NEW new, new = [slot |-> tail, carrier |-> c]
               PROVE  Copies'
    OBVIOUS
  <2>1. /\ s \in Storing /\ Acting(p) /\ part[p] \in Rows /\ stage.id \in Ids
        /\ new \in [slot : Nat, carrier : Carriers]
        /\ new.carrier.pe_num = part[p] /\ new.carrier.id = stage.id
        /\ new.carrier.data = [row |-> part[p], work |-> step]
        /\ step \in RoundSteps(step) /\ step \in 0 .. MaxWork
        /\ \A w \in Works(part[p], stage.id, s) : w \in RoundSteps(step - 1)
        /\ Claimed("check", s)' = Claimed("check", s) \union {new}
        /\ SlotsClaimed("check", s)'
        /\ \A t \in Storing \ {s} : /\ Claimed("check", t)' = Claimed("check", t)
                                    /\ SlotsClaimed("check", t)'
        /\ \A t \in Storing : queue'["check"][t].head = queue["check"][t].head
    BY <1>4, SendCheckpoint
  <2>2. /\ RoundSteps(step) = RoundSteps(step - 1) \union {step}
        /\ RoundSteps(step)' = RoundSteps(step)
        /\ \A w \in RoundSteps(step - 1) : w \in Nat /\ w < step
    BY <1>1, <1>4, RoundNow DEF Copies, IInv, Typed, ProgressTyped, RoundSteps
  <2>3. /\ pc'[p] = "signal" /\ \A q \in PEs \ {p} : pc'[q] = pc[q]
        /\ \A q : RolledBack(q)' <=> RolledBack(q)
    BY <1>1, <1>4 DEF IInv, Typed, RolledBack
  <2>4. /\ \A q \in PEs, i \in Ids : Kept(q, i)' = Kept(q, i)
        /\ \A q \in PEs, i \in Ids, t \in Storing :
             Gone(q, i, t)' = Gone(q, i, t) \union
               IF q = p /\ i = stage.id /\ t = s THEN {step} ELSE {}
    <3>1. /\ \A q \in PEs, i \in Ids : Kept(q, i)' =
               IF q = p /\ i = stage.id THEN RoundSteps(step) ELSE Kept(q, i)
          /\ \A q \in PEs, i \in Ids, t \in Storing : Gone(q, i, t)' =
               IF q = p /\ i = stage.id
               THEN IF Passed(p, t)' THEN RoundSteps(step) ELSE RoundSteps(step - 1)
               ELSE Gone(q, i, t)
      <4>1. pc'[p] # "call"
        BY <2>3
      <4>2. \A q \in PEs \ {p} : pc'[q] = pc[q] /\ at'[q] = at[q]
        BY <1>1, <2>3
      <4>3. QED
        BY <1>1, <1>4, <4>1, <4>2, OnlyCheckpoints DEF Copies
    <3>2. \A i \in Ids : i \in Int
      BY Constants DEF Ids, IInv, Typed, ProgressTyped
    <3>3. Kept(p, stage.id) = RoundSteps(step)
      BY <1>1, <2>1, <3>2 DEF Kept
    <3>4. \A t \in Storing : /\ Passed(p, t)' <=> s >= t
                             /\ Passed(p, t) <=> s > t
      BY <1>1, <2>3 DEF Passed, cpr_storage_pes
    <3>5. \A t \in Storing : t \in Nat
      BY Numbering DEF IInv, Typed, ProgressTyped
    <3>6. \A t \in Storing : Gone(p, stage.id, t) =
            IF Passed(p, t) THEN RoundSteps(step) ELSE RoundSteps(step - 1)
      BY <1>4, <2>1, <3>2 DEF Gone
    <3>7. \A t \in Storing : Passed(p, t)' <=> (Passed(p, t) \/ t = s)
      BY <2>1, <3>4, <3>5
    <3>8. ~Passed(p, s)
      BY <2>1, <3>4, <3>5
    <3>9. ASSUME NEW q \in PEs, NEW i \in Ids, NEW t \in Storing
          PROVE  Gone(q, i, t)' = Gone(q, i, t) \union
                   IF q = p /\ i = stage.id /\ t = s THEN {step} ELSE {}
      <4>1. CASE q = p /\ i = stage.id /\ t = s
        BY <2>2, <3>1, <3>6, <3>7, <3>8, <4>1
      <4>2. CASE ~(q = p /\ i = stage.id /\ t = s)
        <5>1. Gone(q, i, t)' = Gone(q, i, t)
          BY <3>1, <3>6, <3>7, <4>2
        <5>2. QED
          BY <4>2, <5>1
      <4>3. QED
        BY <4>1, <4>2
    <3>10. QED
      BY <3>1, <3>3, <3>9
  <2>5. /\ \A t \in Storing : \A r, i :
             Works(r, i, t)' = Works(r, i, t) \union
               IF t = s /\ r = part[p] /\ i = stage.id THEN {step} ELSE {}
        /\ \A t \in Storing : \A r, i : FiledWorks(r, i, t)' = FiledWorks(r, i, t)
    <3>1. new.carrier.data.work = step /\ new.slot = tail
      BY <2>1
    <3>2. ASSUME NEW t \in Storing, NEW r, NEW i
          PROVE  /\ Works(r, i, t)' = Works(r, i, t) \union
                      IF t = s /\ r = part[p] /\ i = stage.id THEN {step} ELSE {}
                 /\ FiledWorks(r, i, t)' = FiledWorks(r, i, t)
      <4>1. CASE t = s
        <5>1. ~(new.slot < queue["check"][s].head)
          <6>1. queue["check"][s].head <= tail /\ queue["check"][s].head \in Int /\ tail \in Int
            BY <2>1 DEF Copies, CheckRings, CheckRing, SlotsClaimed, IInv, Typed, QueueTyped, Queues, Ring
          <6>2. QED
            BY <3>1, <6>1
        <5>2. Works(r, i, s)' = {w \in 0 .. MaxWork : \E x \in Claimed("check", s) \union {new} :
                                   Of(x, r, i) /\ x.carrier.data.work = w}
          BY <1>1, <2>1 DEF Works, Of
        <5>3. Works(r, i, s)' = Works(r, i, s) \union
                IF r = part[p] /\ i = stage.id THEN {step} ELSE {}
          BY <2>1, <3>1, <5>2 DEF Works, Of
        <5>4. FiledWorks(r, i, s)' = {w \in 0 .. MaxWork : \E x \in Claimed("check", s) \union {new} :
                 Of(x, r, i) /\ x.carrier.data.work = w /\ x.slot < queue["check"][s].head}
          BY <1>1, <2>1 DEF FiledWorks, Of
        <5>5. FiledWorks(r, i, s)' = FiledWorks(r, i, s)
          BY <5>1, <5>4 DEF FiledWorks
        <5>6. QED
          BY <4>1, <5>3, <5>5
      <4>2. CASE t # s
        <5>1. Claimed("check", t)' = Claimed("check", t)
              /\ queue'["check"][t].head = queue["check"][t].head
          BY <2>1, <4>2
        <5>2. Works(r, i, t)' = Works(r, i, t) /\ FiledWorks(r, i, t)' = FiledWorks(r, i, t)
          BY <1>1, <5>1 DEF Works, FiledWorks, Of
        <5>3. QED
          BY <4>2, <5>2
      <4>3. QED
        BY <4>1, <4>2
    <3>3. QED
      BY <3>2
  <2>6. Timing' /\ Emptied' /\ Roles' /\ MemNow'
    <3>1. Storing \subseteq PEs
      BY Numbering DEF IInv, Typed, ProgressTyped
    <3>2. \A t \in Storing : pc'[t] = "restore" => stage.op = "rollback"
      BY <1>4, <2>3, <3>1 DEF IInv, Placed, MayBe
    <3>3. /\ \A t \in Storing : pc'[t] # "restore"
          /\ \A t \in Storing : pc'[t] = "done" => pc[t] = "done"
      BY <1>4, <2>3, <3>1, <3>2
    <3>4. \A t \in Storing : Pending("resrv", t)' <=> Pending("resrv", t)
      <4>1. Kind = "check" /\ "resrv" \in Queues /\ \A t \in Storing : queue["resrv"][t].tail \in Int
        BY <1>4 DEF Kind, Queues, IInv, Typed, QueueTyped, Ring
      <4>2. QED
        BY <4>1, SendMeans DEF Pending
    <3>5. QED
      BY <1>1, <1>4, <2>3, <3>3, <3>4, RolesKept DEF Copies
  <2>7. ShadowData'
    BY <1>1, <2>4, ShadowKept DEF Copies
  <2>8. CheckRings'
    <3>1. ASSUME NEW t \in Storing
          PROVE  CheckRing(t)'
      <4>1. CheckRing(t) /\ SlotsClaimed("check", t)'
        BY <2>1 DEF Copies, CheckRings
      <4>2. CASE t = s
        <5>1. \A x \in Claimed("check", s) :
                /\ x.slot < tail /\ x.slot \in Nat /\ x.carrier.data.work \in 0 .. MaxWork
                /\ x.carrier.pe_num = part[p] /\ x.carrier.id = stage.id
                   => x.carrier.data.work < step
          BY <2>1, <2>2, <4>1, <4>2, CarriedData DEF Works, Of, CheckRing, SlotsClaimed
        <5>2. new.slot = tail /\ new.carrier.data.row = new.carrier.pe_num
              /\ new.carrier.data.work = step /\ tail \in Nat
          BY <2>1
        <5>3. \A x \in Claimed("check", s)' :
                x.carrier.data.row = x.carrier.pe_num /\ x.carrier.data.work \in RoundSteps(step)
          BY <2>1, <4>1, <4>2, <5>2 DEF CheckRing
        <5>4. ASSUME NEW x \in Claimed("check", s)', NEW y \in Claimed("check", s)',
                     x.carrier.pe_num = y.carrier.pe_num, x.carrier.id = y.carrier.id,
                     x.slot < y.slot
              PROVE  x.carrier.data.work < y.carrier.data.work
          <6>1. CASE y = new
            <7>1. x # new
              BY <5>2, <5>4, <6>1
            <7>2. QED
              BY <2>1, <5>1, <5>2, <5>4, <6>1, <7>1
          <6>2. CASE y # new
            <7>1. y \in Claimed("check", s)
              BY <2>1, <6>2
            <7>2. x # new
              BY <5>1, <5>2, <5>4, <7>1
            <7>3. QED
              BY <2>1, <4>1, <4>2, <5>4, <7>1, <7>2 DEF CheckRing
          <6>3. QED
            BY <6>1, <6>2
        <5>5. QED
          BY <2>2, <4>1, <4>2, <5>3, <5>4 DEF CheckRing
      <4>3. CASE t # s
        BY <2>1, <2>2, <4>1, <4>3 DEF CheckRing
      <4>4. QED
        BY <4>2, <4>3
    <3>2. QED
      BY <1>1, <3>1 DEF CheckRings
  <2>9. Senders'
    <3>1. /\ PEs' = PEs /\ Ids' = Ids /\ \A q : Acting(q)' <=> Acting(q)
          /\ \A q : Storages(q)' = Storages(q)
      BY <1>1, Frame DEF Acting, Storages, cpr_storage_pes
    <3>2. ASSUME NEW q \in PEs, Acting(q), NEW t \in Storing, NEW i \in Ids
          PROVE  /\ Works(part[q], i, t)' \subseteq Gone(q, i, t)'
                 /\ t \in Storages(q) => Gone(q, i, t)' \subseteq Works(part[q], i, t)'
      <4>1. /\ Works(part[q], i, t) \subseteq Gone(q, i, t)
            /\ t \in Storages(q) => Gone(q, i, t) \subseteq Works(part[q], i, t)
        BY <3>2 DEF Copies, Senders
      <4>2. part[q] = part[p] <=> q = p
        BY <2>1, <3>2 DEF Copies, Roles
      <4>3. Works(part[q], i, t)' = Works(part[q], i, t) \union
              IF t = s /\ q = p /\ i = stage.id THEN {step} ELSE {}
        <5>1. Works(part[q], i, t)' = {w \in 0 .. MaxWork : \E x \in Claimed("check", t)' :
                                         Of(x, part[q], i) /\ x.carrier.data.work = w}
          BY <1>1 DEF Works, Of
        <5>2. SUFFICES ASSUME NEW r, r = part[q]
                       PROVE  Works(r, i, t)' = Works(r, i, t) \union
                                IF t = s /\ r = part[p] /\ i = stage.id THEN {step} ELSE {}
          BY <1>1, <4>2, <5>1 DEF Works, Of
        <5>3. QED
          BY <2>5
      <4>4. Gone(q, i, t)' = Gone(q, i, t) \union
              IF t = s /\ q = p /\ i = stage.id THEN {step} ELSE {}
        BY <2>4
      <4>5. QED
        BY <4>1, <4>3, <4>4
    <3>3. QED
      BY <1>1, <1>4, <3>1, <3>2 DEF Senders
  <2>10. TableData'
    BY <1>1, <2>5, TableKept DEF Copies
  <2>11. QED
    BY <2>6, <2>7, <2>8, <2>9, <2>10 DEF Copies
<1>5. QED
  BY <1>2, <1>3, <1>4

-----------------------------------------------------------------------------
(* A PE comes to the end of a rollback.  It sends to no PE that it has not *)
(* sent to before.                                                         *)
LEMMA FewerStorages ==
    ASSUME IInv, NEW p \in alive, stage.op = "rollback", pc[p] # "done",
           view'[p] = AfterDeath(p, stage.dead)
    PROVE  /\ view'[p].dead = view[p].dead \union {stage.dead}
           /\ view'[p].num = view[p].num - 1
           /\ Storages(p)' \subseteq Storages(p)
           /\ view[p].num \in 1 .. Spares
<1>1. p \in PEs /\ view[p] \in View /\ view[p].num \in 1 .. Spares /\ Spares \in Nat
  BY Chosen, Constants DEF IInv, Typed, ProgressTyped, PesTyped
<1>2. view'[p].dead = view[p].dead \union {stage.dead} /\ view'[p].num = view[p].num - 1
  <2> DEFINE a == IF RoleOf(p, stage.dead) = "active"
                  THEN view[p].active \union {chosen_pe(p)} ELSE view[p].active
             v == view[p]
  <2>1. view'[p] = [v EXCEPT !.active = a, !.dead = v.dead \union {stage.dead}, !.num = v.num - 1]
    BY DEF AfterDeath
  <2> HIDE DEF a
  <2>2. QED
    BY <1>1, <2>1 DEF View
<1>3. Storages(p)' \subseteq Storages(p)
  BY <1>1, <1>2 DEF Storages, cpr_storage_pes
<1>4. QED
  BY <1>1, <1>2, <1>3

(* What does not depend on the part it plays.                              *)
LEMMA RollingCopies ==
    ASSUME IInv, Copies, NEW p \in PEs, pc[p] # "done", stage.op = "rollback",
           UNCHANGED <<progress, queue, table, posted>>, pc' = [pc EXCEPT ![p] = "done"],
           view' = [view EXCEPT ![p] = AfterDeath(p, stage.dead)]
    PROVE  /\ Timing' /\ Emptied' /\ MemNow' /\ CheckRings' /\ TableData'
           /\ p \in alive /\ ~RolledBack(p) /\ RolledBack(p)'
           /\ view'[p] = AfterDeath(p, stage.dead)
           /\ \A q \in PEs \ {p} : /\ RolledBack(q)' <=> RolledBack(q)
                                   /\ view'[q] = view[q]
                                   /\ Acting(q)' <=> Acting(q)
           /\ \A q \in alive : Storages(q)' \subseteq Storages(q)
           /\ \A q \in alive : view'[q].dead \intersect alive \intersect Storing = {}
           /\ stage.dead \notin alive \intersect Storing
           /\ RoundSteps(step)' = RoundSteps(step)
           /\ \A q, i : Kept(q, i) = RoundSteps(step) /\ Kept(q, i)' = RoundSteps(step)
           /\ \A q, i, s : Gone(q, i, s) = RoundSteps(step) /\ Gone(q, i, s)' = RoundSteps(step)
           /\ \A s \in Storing : \A r, i : Works(r, i, s)' = Works(r, i, s)
           /\ stage.dead \in Rows =>
                \A q \in alive : ~RolledBack(q)' => \A s \in Storages(q)', i \in Ids :
                    RoundSteps(step) \subseteq Works(stage.dead, i, s)'
<1>1. /\ program' = program /\ stage' = stage /\ step' = step /\ alive' = alive
      /\ queue' = queue /\ table' = table /\ posted' = posted /\ plan' = plan
      /\ PEs' = PEs /\ Storing' = Storing /\ Storing \subseteq PEs /\ alive \subseteq PEs
  BY Frame, Numbering DEF progress, IInv, Typed, ProgressTyped
<1>2. p \in alive
  BY InCallAlive DEF IInv
<1>3. /\ pc'[p] = "done" /\ \A q \in PEs \ {p} : pc'[q] = pc[q]
      /\ view'[p] = AfterDeath(p, stage.dead) /\ \A q \in PEs \ {p} : view'[q] = view[q]
  BY DEF IInv, Typed, PesTyped
<1>4. /\ ~RolledBack(p) /\ RolledBack(p)'
      /\ \A q \in PEs \ {p} : RolledBack(q)' <=> RolledBack(q)
  BY <1>1, <1>3 DEF RolledBack
<1>5. \A q \in PEs \ {p} : Acting(q)' <=> Acting(q)
  BY <1>1, <1>3 DEF Acting
<1>6. /\ view'[p].dead = view[p].dead \union {stage.dead}
      /\ Storages(p)' \subseteq Storages(p)
      /\ view[p].active \subseteq view'[p].active
  BY <1>2, <1>3, FewerStorages, Chosen DEF IInv
<1>7. \A q \in PEs \ {p} : Storages(q)' = Storages(q)
  BY <1>3 DEF Storages, cpr_storage_pes
<1>8. /\ \A q \in alive : view'[q].dead \intersect alive \intersect Storing = {}
      /\ stage.dead \notin alive \intersect Storing
  <2>1. /\ \A q \in alive : view[q].dead \intersect alive \intersect Storing = {}
        /\ stage.dead \notin alive \intersect Storing
    BY DEF Copies, Roles
  <2>2. ASSUME NEW q \in alive
        PROVE  view'[q].dead \intersect alive \intersect Storing = {}
    <3>1. CASE q = p
      BY <1>6, <2>1, <3>1
    <3>2. CASE q # p
      BY <1>1, <1>3, <2>1, <3>2
    <3>3. QED
      BY <3>1, <3>2
  <2>3. QED
    BY <2>1, <2>2
<1>9. Timing' /\ MemNow'
  BY <1>1 DEF Copies, Timing, MemNow
<1>10. Emptied'
  <2>1. \A k, s : Pending(k, s)' <=> Pending(k, s)
    BY <1>1 DEF Pending
  <2>2. ASSUME NEW s \in alive \intersect Storing, s \notin view'[s].active
        PROVE  ~Pending("resrv", s)
    <3>1. s \notin view[s].active
      BY <1>1, <1>3, <1>6, <2>2
    <3>2. QED
      BY <3>1 DEF Copies, Emptied
  <2>3. ASSUME NEW s \in Storing, pc'[s] = "restore"
        PROVE  ~Pending("check", s)
    BY <1>1, <1>3, <2>3 DEF Copies, Emptied
  <2>4. QED
    BY <1>1, <2>1, <2>2, <2>3 DEF Emptied
<1>11. /\ RoundSteps(step)' = RoundSteps(step)
       /\ \A q, i : Kept(q, i) = RoundSteps(step) /\ Kept(q, i)' = RoundSteps(step)
       /\ \A q, i, s : Gone(q, i, s) = RoundSteps(step) /\ Gone(q, i, s)' = RoundSteps(step)
  <2>1. RoundSteps(step)' = RoundSteps(step)
    BY <1>1 DEF RoundSteps
  <2>2. stage.op # "checkpoint" /\ stage'.op # "checkpoint"
    BY <1>1
  <2>3. QED
    BY <2>1, <2>2 DEF Kept, Gone
<1>12. /\ CheckRings'
       /\ \A s \in Storing : \A r, i : /\ Works(r, i, s)' = Works(r, i, s)
                                       /\ FiledWorks(r, i, s)' = FiledWorks(r, i, s)
  BY <1>1, <1>11, ChecksKept DEF Copies
<1>13. TableData'
  BY <1>1, <1>12, TableKept DEF Copies
<1>14. ASSUME stage.dead \in Rows, NEW q \in alive, ~RolledBack(q)', NEW s \in Storages(q)', NEW i \in Ids
       PROVE  RoundSteps(step) \subseteq Works(stage.dead, i, s)'
  <2>1. q # p /\ ~RolledBack(q) /\ s \in Storages(q)
    BY <1>1, <1>4, <1>7, <1>14
  <2>2. RoundSteps(step) \subseteq Works(stage.dead, i, s) /\ s \in Storing
    BY <1>14, <2>1, StoragesStore DEF Copies, Senders
  <2>3. Works(stage.dead, i, s)' = Works(stage.dead, i, s)
    <3>1. SUFFICES ASSUME NEW r, r = stage.dead
                   PROVE  Works(r, i, s)' = Works(r, i, s)
      BY <1>1 DEF Works, Of
    <3>2. QED
      BY <1>12, <2>2
  <2>4. QED
    BY <2>2, <2>3
<1>15. \A q \in alive : Storages(q)' \subseteq Storages(q)
  BY <1>1, <1>6, <1>7
<1>16. \A q \in PEs \ {p} : /\ RolledBack(q)' <=> RolledBack(q)
                            /\ view'[q] = view[q]
                            /\ Acting(q)' <=> Acting(q)
  BY <1>3, <1>4, <1>5
<1>17. stage.dead \in Rows =>
         \A q \in alive : ~RolledBack(q)' => \A s \in Storages(q)', i \in Ids :
             RoundSteps(step) \subseteq Works(stage.dead, i, s)'
  BY <1>14
<1>18. QED
  BY <1>2, <1>3, <1>4, <1>8, <1>9, <1>10, <1>11, <1>12, <1>13, <1>15, <1>16, <1>17

(* A PE that goes on playing its part, or none.                            *)
LEMMA SamePartCopies ==
    ASSUME IInv, Copies, NEW p \in PEs, pc[p] # "done", stage.op = "rollback",
           UNCHANGED <<progress, queue, table, posted>>, pc' = [pc EXCEPT ![p] = "done"],
           view' = [view EXCEPT ![p] = AfterDeath(p, stage.dead)],
           UNCHANGED <<part, shadow>>, Acting(p)' <=> Acting(p)
    PROVE  Copies'
<1>1. /\ program' = program /\ stage' = stage /\ step' = step /\ alive' = alive
      /\ part' = part /\ shadow' = shadow
      /\ PEs' = PEs /\ Storing' = Storing /\ Ids' = Ids /\ Regions' = Regions
      /\ alive \subseteq PEs
  BY Frame DEF progress, IInv, Typed, ProgressTyped
<1>2. /\ Timing' /\ Emptied' /\ MemNow' /\ CheckRings' /\ TableData'
      /\ p \in alive /\ ~RolledBack(p) /\ RolledBack(p)'
      /\ \A q \in PEs \ {p} : /\ RolledBack(q)' <=> RolledBack(q)
                              /\ view'[q] = view[q]
                              /\ Acting(q)' <=> Acting(q)
      /\ \A q \in alive : Storages(q)' \subseteq Storages(q)
      /\ \A q \in alive : view'[q].dead \intersect alive \intersect Storing = {}
      /\ stage.dead \notin alive \intersect Storing
      /\ RoundSteps(step)' = RoundSteps(step)
      /\ \A q, i : Kept(q, i) = RoundSteps(step) /\ Kept(q, i)' = RoundSteps(step)
      /\ \A q, i, s : Gone(q, i, s) = RoundSteps(step) /\ Gone(q, i, s)' = RoundSteps(step)
      /\ \A s \in Storing : \A r, i : Works(r, i, s)' = Works(r, i, s)
      /\ stage.dead \in Rows =>
           \A q \in alive : ~RolledBack(q)' => \A s \in Storages(q)', i \in Ids :
               RoundSteps(step) \subseteq Works(stage.dead, i, s)'
  BY RollingCopies
<1>3. \A q \in PEs : Acting(q)' <=> Acting(q)
  BY <1>2
<1>4. Roles'
  <2>1. \A q, r \in PEs : Acting(q) /\ Acting(r) /\ part[q] = part[r] => q = r
    BY DEF Copies, Roles
  <2>2. ASSUME NEW q \in PEs, Acting(q), part[q] = stage.dead
        PROVE  RolledBack(q)' /\ q = cpr_storage_pes(view'[q].num)
    <3>1. RolledBack(q) /\ q = cpr_storage_pes(view[q].num)
      BY <2>2 DEF Copies, Roles
    <3>2. q # p
      BY <1>2, <3>1
    <3>3. QED
      BY <1>2, <3>1, <3>2
  <2>3. QED
    BY <1>1, <1>2, <1>3, <2>1, <2>2 DEF Roles, cpr_storage_pes
<1>5. ShadowData'
  <2>1. ASSUME NEW q \in PEs, Acting(q)
        PROVE  /\ q \in Storing => Len(shadow[q]) = Regions
               /\ \A i \in Ids : i < Len(shadow[q]) => Latest(RoundSteps(step), part[q], shadow[q][i + 1])
    BY <1>2, <2>1 DEF Copies, ShadowData
  <2>2. ASSUME NEW q \in PEs, Acting(q), NEW i \in Ids, i < Len(shadow[q])
        PROVE  Latest(Kept(q, i), part[q], shadow[q][i + 1])'
    <3>1. Latest(RoundSteps(step), part[q], shadow[q][i + 1]) /\ Kept(q, i)' = RoundSteps(step)
      BY <1>2, <2>1, <2>2
    <3>2. QED
      BY <1>1, <3>1 DEF Latest
  <2>3. QED
    BY <1>1, <1>3, <2>1, <2>2 DEF ShadowData
<1>6. Senders'
  <2>1. ASSUME NEW q \in PEs, Acting(q), NEW s \in Storing, NEW i \in Ids
        PROVE  /\ Works(part[q], i, s)' \subseteq Gone(q, i, s)'
               /\ s \in Storages(q)' => Gone(q, i, s)' \subseteq Works(part[q], i, s)'
    <3>1. /\ Works(part[q], i, s) \subseteq RoundSteps(step)
          /\ s \in Storages(q) => RoundSteps(step) \subseteq Works(part[q], i, s)
          /\ q \in alive
      BY <1>2, <2>1 DEF Copies, Senders, Acting
    <3>2. Works(part[q], i, s)' = Works(part[q], i, s)
      <4>1. SUFFICES ASSUME NEW r, r = part[q]
                     PROVE  Works(r, i, s)' = Works(r, i, s)
        BY <1>1 DEF Works, Of
      <4>2. QED
        BY <1>2
    <3>3. QED
      BY <1>2, <3>1, <3>2
  <2>2. QED
    BY <1>1, <1>2, <1>3, <2>1 DEF Senders
<1>7. QED
  BY <1>2, <1>4, <1>5, <1>6 DEF Copies

(* A PE that computes, or one that loses none but a PE that stores.        *)
LEMMA RollBackCopies ==
    ASSUME IInv, Copies, NEW p \in PEs, RollBack(p)
    PROVE  Copies'
<1>1. /\ stage.op = "rollback" /\ pc[p] = "call" /\ pc' = [pc EXCEPT ![p] = "done"]
      /\ view' = [view EXCEPT ![p] = AfterDeath(p, stage.dead)]
      /\ UNCHANGED <<progress, queue, table, posted>> /\ UNCHANGED <<part, shadow>>
      /\ stage.dead \in view[p].active => p \in view[p].active
  BY DEF RollBack, Goto, RoleOf, role
<1>2. p \in alive /\ alive' = alive
  BY <1>1, InCallAlive DEF IInv, progress
<1>3. view'[p] = AfterDeath(p, stage.dead)
  BY <1>1 DEF IInv, Typed, PesTyped
<1>4. p \in view'[p].active <=> p \in view[p].active
  <2>1. AfterDeath(p, stage.dead).active =
          IF stage.dead \in view[p].active
          THEN view[p].active \union {chosen_pe(p)} ELSE view[p].active
    BY <1>1, <1>2, Chosen DEF IInv
  <2>2. QED
    BY <1>1, <1>3, <2>1
<1>5. Acting(p)' <=> Acting(p)
  BY <1>2, <1>4 DEF Acting
<1>6. QED
  BY <1>1, <1>5, SamePartCopies

(* A storage PE without pending checkpoints has filed all of them.         *)
LEMMA AllHeadsPassed ==
    ASSUME IInv, CheckRings, NEW s \in Storing, ~Pending("check", s), NEW r, NEW i
    PROVE  FiledWorks(r, i, s) = Works(r, i, s)
<1>1. CheckRing(s) /\ queue["check"][s].head \in Nat /\ queue["check"][s].tail \in Nat
  BY DEF CheckRings, IInv, Typed, QueueTyped, Queues, Ring
<1>2. \A x \in Claimed("check", s) : x.slot \in Nat /\ x.slot < queue["check"][s].tail
  BY <1>1, CarriedData DEF CheckRing, SlotsClaimed
<1>3. \A x \in Claimed("check", s) : x.slot < queue["check"][s].head
  BY <1>1, <1>2 DEF Pending
<1>4. QED
  BY <1>3 DEF FiledWorks, Works

(* The rows of a storage PE that has emptied its rings have, in a          *)
(* rollback, what the dead PE had in its shadow memory.                    *)
LEMMA TakenRow ==
    ASSUME IInv, Copies, NEW s \in Storing, TakeOver(s), part[s] = chosen_pe(s)
    PROVE  /\ s \in alive /\ ~Acting(s) /\ stage.dead \in Rows /\ stage.op = "rollback"
           /\ s = cpr_storage_pes(view[s].num - 1)
           /\ Len(table[s][stage.dead]) = Regions
           /\ \A i \in Ids : Latest(RoundSteps(step), stage.dead, table[s][stage.dead][i + 1].data)
           /\ \A t \in Storing, i \in Ids : /\ Works(stage.dead, i, t) \subseteq RoundSteps(step)
                                            /\ t \in Storages(s) =>
                                                RoundSteps(step) \subseteq Works(stage.dead, i, t)
<1>1. /\ pc[s] = "restore" /\ s \in PEs /\ Rows \intersect Storing = {} /\ program \in Programs
      /\ Spares \in Nat /\ Originals \in Nat
  BY Numbering, Constants DEF TakeOver, Goto, IInv, Typed, ProgressTyped
<1>2. s \in alive /\ s \notin view[s].active /\ stage.op = "rollback" /\ stage.dead \in Rows
  BY <1>1, InCallAlive DEF IInv, MayBe, Filer
<1>3. part[s] = s
  BY <1>1, <1>2 DEF IInv, Parts
<1>4. s = cpr_storage_pes(view[s].num - 1)
  BY <1>3 DEF chosen_pe
<1>5. ~Pending("resrv", s) /\ ~Pending("check", s)
  BY <1>1, <1>2 DEF Copies, Emptied
<1>6. Len(table[s][stage.dead]) = Regions
  BY <1>2, <1>5, AllFiled
<1>7. s \in Storages(s)
  <2>1. view[s].num \in 1 .. Spares
    BY <1>1, <1>2, Chosen DEF IInv
  <2>2. view[s].num - 1 \in 0 .. view[s].num - 1
    BY <2>1
  <2>3. s \notin view[s].dead
    BY <1>2 DEF Copies, Roles
  <2>4. QED
    BY <1>4, <2>2, <2>3 DEF Storages
<1>8. ASSUME NEW t \in Storing, NEW i \in Ids
      PROVE  /\ Works(stage.dead, i, t) \subseteq RoundSteps(step)
             /\ t \in Storages(s) => RoundSteps(step) \subseteq Works(stage.dead, i, t)
  <2>1. Works(stage.dead, i, t) \subseteq RoundSteps(step)
    BY DEF Works, Copies, CheckRings, CheckRing
  <2>2. ~RolledBack(s)
    BY <1>1 DEF RolledBack
  <2>3. QED
    BY <1>2, <2>1, <2>2 DEF Copies, Senders
<1>9. ASSUME NEW i \in Ids
      PROVE  Latest(RoundSteps(step), stage.dead, table[s][stage.dead][i + 1].data)
  <2>1. Works(stage.dead, i, s) = RoundSteps(step)
    BY <1>7, <1>8
  <2>2. FiledWorks(stage.dead, i, s) = Works(stage.dead, i, s)
    BY <1>5, AllHeadsPassed DEF Copies
  <2>3. i < Len(table[s][stage.dead])
    BY <1>1, <1>6, Constants DEF Ids
  <2>4. Latest(FiledWorks(stage.dead, i, s), stage.dead, table[s][stage.dead][i + 1].data)
    BY <1>2, <2>3 DEF Copies, TableData
  <2>5. QED
    BY <2>1, <2>2, <2>4
<1>10. QED
  BY <1>2, <1>4, <1>6, <1>8, <1>9 DEF Acting

(* A storage PE takes over the part of the dead one, or another does.      *)
LEMMA TakeOverCopies ==
    ASSUME IInv, Copies, NEW s \in Storing, TakeOver(s)
    PROVE  Copies'
<1> SUFFICES ASSUME NEW row, row = table[s][stage.dead],
                    NEW data, data = [i \in 1 .. Len(row) |-> row[i].data]
             PROVE  Copies'
  OBVIOUS
<1>1. /\ program' = program /\ stage' = stage /\ step' = step /\ alive' = alive
      /\ pc[s] = "restore" /\ pc' = [pc EXCEPT ![s] = "done"]
      /\ view' = [view EXCEPT ![s] = AfterDeath(s, stage.dead)]
      /\ UNCHANGED <<progress, queue, table, posted>>
      /\ shadow' = IF part[s] = chosen_pe(s) THEN [shadow EXCEPT ![s] = data] ELSE shadow
      /\ part' = IF part[s] = chosen_pe(s) THEN [part EXCEPT ![s] = stage.dead] ELSE part
  BY DEF TakeOver, Goto, progress
<1>2. /\ PEs' = PEs /\ Storing' = Storing /\ Ids' = Ids /\ Regions' = Regions
      /\ Rows \subseteq PEs /\ Storing \subseteq PEs /\ Rows \intersect Storing = {}
      /\ s \in PEs /\ alive \subseteq PEs
  BY <1>1, Frame, Numbering DEF IInv, Typed, ProgressTyped
<1>3. /\ s \in alive /\ s \notin view[s].active /\ stage.op = "rollback" /\ stage.dead \in Rows
      /\ part[s] = s /\ stage.dead \in view[s].active
  <2>1. s \in alive /\ MayBe(s, "restore")
    BY <1>1, <1>2, InCallAlive DEF IInv
  <2>2. s \notin view[s].active /\ stage.op = "rollback" /\ stage.dead \in Rows
    BY <2>1 DEF MayBe, Filer
  <2>3. QED
    BY <1>2, <2>1, <2>2 DEF IInv, Parts
<1>4. /\ part \in [PEs -> PEs] /\ shadow \in [PEs -> Seq(Data)]
  BY DEF IInv, Typed, PesTyped, MemoryTyped
<1>5. /\ Timing' /\ Emptied' /\ MemNow' /\ CheckRings' /\ TableData'
      /\ s \in alive /\ ~RolledBack(s) /\ RolledBack(s)'
      /\ view'[s] = AfterDeath(s, stage.dead)
      /\ \A q \in PEs \ {s} : /\ RolledBack(q)' <=> RolledBack(q)
                              /\ view'[q] = view[q]
                              /\ Acting(q)' <=> Acting(q)
      /\ \A q \in alive : Storages(q)' \subseteq Storages(q)
      /\ \A q \in alive : view'[q].dead \intersect alive \intersect Storing = {}
      /\ stage.dead \notin alive \intersect Storing
      /\ RoundSteps(step)' = RoundSteps(step)
      /\ \A q, i : Kept(q, i) = RoundSteps(step) /\ Kept(q, i)' = RoundSteps(step)
      /\ \A q, i, t : Gone(q, i, t) = RoundSteps(step) /\ Gone(q, i, t)' = RoundSteps(step)
      /\ \A t \in Storing : \A r, i : Works(r, i, t)' = Works(r, i, t)
      /\ stage.dead \in Rows =>
           \A q \in alive : ~RolledBack(q)' => \A t \in Storages(q)', i \in Ids :
               RoundSteps(step) \subseteq Works(stage.dead, i, t)'
  BY <1>1, <1>2, <1>3, RollingCopies
<1>6. CASE part[s] # chosen_pe(s)
  <2>1. AfterDeath(s, stage.dead).active = view[s].active \union {chosen_pe(s)}
    BY <1>1, <1>3, Chosen DEF IInv
  <2>2. Acting(s)' <=> Acting(s)
    BY <1>1, <1>3, <1>5, <1>6, <2>1 DEF Acting
  <2>3. UNCHANGED <<part, shadow>>
    BY <1>1, <1>6
  <2>4. QED
    BY <1>1, <1>2, <1>3, <2>2, <2>3, SamePartCopies
<1>7. CASE part[s] = chosen_pe(s)
  <2>1. /\ ~Acting(s) /\ s = cpr_storage_pes(view[s].num - 1) /\ Len(row) = Regions
        /\ \A i \in Ids : Latest(RoundSteps(step), stage.dead, row[i + 1].data)
        /\ \A t \in Storing, i \in Ids : /\ Works(stage.dead, i, t) \subseteq RoundSteps(step)
                                         /\ t \in Storages(s) =>
                                              RoundSteps(step) \subseteq Works(stage.dead, i, t)
    BY <1>7, TakenRow
  <2>2. /\ part'[s] = stage.dead /\ shadow'[s] = data
        /\ \A q \in PEs \ {s} : part'[q] = part[q] /\ shadow'[q] = shadow[q]
    BY <1>1, <1>2, <1>3, <1>4, <1>7
  <2>3. view'[s].num = view[s].num - 1
    BY <1>1, <1>3, <1>5, FewerStorages
  <2>4. ASSUME NEW q \in PEs \ {s}, Acting(q)
        PROVE  part[q] # stage.dead
    <3>1. SUFFICES ASSUME part[q] = stage.dead
                   PROVE  FALSE
      OBVIOUS
    <3>2. RolledBack(q) /\ q = cpr_storage_pes(view[q].num) /\ q \in alive
      BY <1>3, <2>4, <3>1 DEF Copies, Roles, Acting
    <3>3. view[q] = AfterDeath(s, stage.dead)
      BY <1>3, <1>5, <3>2 DEF IInv, Views
    <3>4. view[q].num = view[s].num - 1
      BY <1>5, <2>3, <3>3
    <3>5. QED
      BY <2>1, <3>2, <3>4
  <2>5. Roles'
    <3>1. ASSUME NEW q \in PEs, NEW r \in PEs, Acting(q)', Acting(r)', part'[q] = part'[r]
          PROVE  q = r
      <4>1. CASE q = s \/ r = s
        BY <1>5, <2>2, <2>4, <3>1, <4>1
      <4>2. CASE q # s /\ r # s
        BY <1>5, <2>2, <3>1, <4>2 DEF Copies, Roles
      <4>3. QED
        BY <4>1, <4>2
    <3>2. ASSUME NEW q \in PEs, Acting(q)', part'[q] = stage.dead
          PROVE  RolledBack(q)' /\ q = cpr_storage_pes(view'[q].num)
      <4>1. q = s
        BY <1>5, <2>2, <2>4, <3>2
      <4>2. QED
        BY <1>5, <2>1, <2>3, <4>1
    <3>3. QED
      BY <1>1, <1>2, <1>5, <3>1, <3>2 DEF Roles, cpr_storage_pes
  <2>6. ShadowData'
    <3>1. Len(data) = Regions /\ \A i \in Ids : data[i + 1] = row[i + 1].data
      <4>1. Regions \in Nat
        BY Constants DEF IInv, Typed, ProgressTyped
      <4>2. \A i \in Ids : i + 1 \in 1 .. Len(row)
        BY <2>1, <4>1 DEF Ids
      <4>3. QED
        BY <2>1, <4>1, <4>2
    <3>2. ASSUME NEW q \in PEs, Acting(q)'
          PROVE  /\ q \in Storing => Len(shadow'[q]) = Regions
                 /\ \A i \in Ids : i < Len(shadow'[q]) =>
                      Latest(RoundSteps(step), part'[q], shadow'[q][i + 1])
      <4>1. CASE q = s
        BY <2>1, <2>2, <3>1, <4>1
      <4>2. CASE q # s
        <5>1. Acting(q) /\ shadow'[q] = shadow[q] /\ part'[q] = part[q]
          BY <1>5, <2>2, <3>2, <4>2
        <5>2. QED
          BY <1>5, <5>1 DEF Copies, ShadowData
      <4>3. QED
        BY <4>1, <4>2
    <3>3. ASSUME NEW q \in PEs, Acting(q)', NEW i \in Ids, i < Len(shadow'[q])
          PROVE  Latest(Kept(q, i), part[q], shadow[q][i + 1])'
      <4>1. Latest(RoundSteps(step), part'[q], shadow'[q][i + 1]) /\ Kept(q, i)' = RoundSteps(step)
        BY <1>5, <3>2, <3>3
      <4>2. QED
        BY <4>1 DEF Latest
    <3>4. QED
      BY <1>2, <3>2, <3>3 DEF ShadowData
  <2>7. Senders'
    <3>1. ASSUME NEW q \in PEs, Acting(q)', NEW t \in Storing, NEW i \in Ids
          PROVE  /\ Works(part[q], i, t)' \subseteq Gone(q, i, t)'
                 /\ t \in Storages(q)' => Gone(q, i, t)' \subseteq Works(part[q], i, t)'
      <4>1. Works(part[q], i, t)' = Works(part'[q], i, t)
        <5>1. SUFFICES ASSUME NEW r, r = part'[q]
                       PROVE  Works(r, i, t)' = Works(r, i, t)
          BY DEF Works, Of
        <5>2. QED
          BY <1>5
      <4>2. q \in alive /\ Storages(q)' \subseteq Storages(q)
        BY <1>1, <1>5, <3>1 DEF Acting
      <4>3. /\ Works(part'[q], i, t) \subseteq RoundSteps(step)
            /\ t \in Storages(q) => RoundSteps(step) \subseteq Works(part'[q], i, t)
        <5>1. CASE q = s
          BY <2>1, <2>2, <5>1
        <5>2. CASE q # s
          <6>1. Acting(q) /\ part'[q] = part[q]
            BY <1>5, <2>2, <3>1, <5>2
          <6>2. QED
            BY <1>5, <6>1 DEF Copies, Senders
        <5>3. QED
          BY <5>1, <5>2
      <4>4. QED
        BY <1>5, <4>1, <4>2, <4>3
    <3>2. QED
      BY <1>1, <1>2, <1>5, <3>1 DEF Senders
  <2>8. QED
    BY <1>5, <2>5, <2>6, <2>7 DEF Copies
<1>8. QED
  BY <1>6, <1>7

-----------------------------------------------------------------------------
(* At a barrier a region of the checkpoint that is over has been taken and *)
(* sent, and so it is for the stage that follows.                          *)
LEMMA EnterCopies ==
    ASSUME IInv, Copies, NEW st, NEW by, Enter(st, by), by = alive', alive' \subseteq alive,
           RoundSteps(step) \subseteq RoundSteps(step)', st.op # "reserve",
           stage.op = "reserve" => st.op = "checkpoint" /\ st.id = 0 /\ step' = 1,
           \A i \in Ids :
               (IF st.op = "checkpoint" => i < st.id THEN RoundSteps(step)' ELSE RoundSteps(step - 1)')
               = IF stage.op = "checkpoint" => i <= stage.id
                 THEN RoundSteps(step) ELSE RoundSteps(step - 1)
    PROVE  /\ Emptied' /\ ShadowData' /\ CheckRings' /\ TableData'
           /\ \A q : Acting(q)' => Acting(q)
           /\ \A p, q \in PEs : Acting(p)' /\ Acting(q)' /\ part'[p] = part'[q] => p = q
           /\ \A p \in alive' : view'[p].dead \intersect alive' \intersect Storing' = {}
           /\ \A p \in PEs : Acting(p)' => \A s \in Storing, i \in Ids :
                /\ Works(part[p], i, s)' \subseteq Gone(p, i, s)'
                /\ s \in Storages(p)' => Gone(p, i, s)' \subseteq Works(part[p], i, s)'
           /\ \A s \in Storing : \A r, i : Works(r, i, s)' = Works(r, i, s)
           /\ \A q : Storages(q)' = Storages(q)
           /\ st.op # "rollback" => Roles' /\ Senders'
<1>1. /\ program' = program /\ stage' = st /\ part' = part /\ view' = view /\ shadow' = shadow
      /\ queue' = queue /\ table' = table /\ posted' = posted
      /\ \A q \in alive : pc[q] = "done"
      /\ pc' = [p \in PEs |-> IF p \in by THEN "call" ELSE "done"]
  BY DEF Enter, StageOver, pes
<1>2. /\ PEs' = PEs /\ Storing' = Storing /\ Ids' = Ids /\ Regions' = Regions
      /\ alive \subseteq PEs /\ Storing \subseteq PEs /\ \A i \in Ids : i \in Int
  BY <1>1, Frame, Numbering, Constants DEF Ids, IInv, Typed, ProgressTyped
<1>3. \A q \in alive' : q \in PEs /\ q \in alive /\ pc[q] = "done" /\ pc'[q] = "call"
  BY <1>1, <1>2
<1>4. \A q : Acting(q)' => Acting(q) /\ q \in alive'
  BY <1>1 DEF Acting
<1>5. ASSUME NEW q \in alive', NEW i \in Ids
      PROVE  Kept(q, i)' = Kept(q, i) /\ \A s : Gone(q, i, s)' = Gone(q, i, s)
  <2>1. stage.op = "checkpoint" => stage.id \in Int
    BY <1>2, StageMeans DEF IInv, Typed, ProgressTyped
  <2>2. Kept(q, i) = IF stage.op = "checkpoint" => i <= stage.id
                     THEN RoundSteps(step) ELSE RoundSteps(step - 1)
    BY <1>2, <1>3, <2>1 DEF Kept
  <2>3. Kept(q, i)' = IF st.op = "checkpoint" => i < st.id
                      THEN RoundSteps(step)' ELSE RoundSteps(step - 1)'
    BY <1>1, <1>3 DEF Kept
  <2>4. ASSUME NEW s
        PROVE  Gone(q, i, s)' = Gone(q, i, s)
    <3>1. Passed(q, s) /\ ~Passed(q, s)'
      BY <1>3 DEF Passed
    <3>2. Gone(q, i, s) = IF stage.op = "checkpoint" => i <= stage.id
                          THEN RoundSteps(step) ELSE RoundSteps(step - 1)
      BY <1>2, <2>1, <3>1 DEF Gone
    <3>3. Gone(q, i, s)' = IF st.op = "checkpoint" => i < st.id
                           THEN RoundSteps(step)' ELSE RoundSteps(step - 1)'
      BY <1>1, <3>1 DEF Gone
    <3>4. QED
      BY <3>2, <3>3
  <2>5. QED
    BY <2>2, <2>3, <2>4
<1>6. Emptied'
  <2>1. ASSUME NEW s \in alive' \intersect Storing, s \notin view[s].active,
               st.op = "checkpoint" /\ st.id = 0 /\ step' = 1 => pc'[s] = "done"
        PROVE  ~Pending("resrv", s)
    BY <1>3, <2>1 DEF Copies, Emptied
  <2>2. \A s : pc'[s] # "restore" \/ s \notin PEs
    BY <1>1
  <2>3. QED
    BY <1>1, <1>2, <2>1, <2>2 DEF Emptied, Pending
<1>7. ShadowData'
  <2>1. ASSUME NEW q \in PEs, Acting(q)', NEW i \in Ids, i < Len(shadow[q])
        PROVE  Latest(Kept(q, i), part[q], shadow[q][i + 1])'
    <3>1. Latest(Kept(q, i), part[q], shadow[q][i + 1]) /\ Kept(q, i)' = Kept(q, i)
      BY <1>4, <1>5, <2>1 DEF Copies, ShadowData
    <3>2. QED
      BY <1>1, <3>1 DEF Latest
  <2>2. \A q \in Storing : Acting(q)' => Len(shadow[q]) = Regions
    BY <1>2, <1>4 DEF Copies, ShadowData
  <2>3. QED
    BY <1>1, <1>2, <2>1, <2>2 DEF ShadowData
<1>8. /\ CheckRings'
      /\ \A s \in Storing : \A r, i : /\ Works(r, i, s)' = Works(r, i, s)
                                      /\ FiledWorks(r, i, s)' = FiledWorks(r, i, s)
  BY <1>1, ChecksKept DEF Copies
<1>9. TableData'
  BY <1>1, <1>8, TableKept DEF Copies
<1>10. \A q : Storages(q)' = Storages(q)
  BY <1>1 DEF Storages, cpr_storage_pes
<1>11. ASSUME NEW p \in PEs, Acting(p)', NEW s \in Storing, NEW i \in Ids
       PROVE  /\ Works(part[p], i, s)' \subseteq Gone(p, i, s)'
              /\ s \in Storages(p)' => Gone(p, i, s)' \subseteq Works(part[p], i, s)'
  <2>1. /\ Works(part[p], i, s) \subseteq Gone(p, i, s)
        /\ s \in Storages(p) => Gone(p, i, s) \subseteq Works(part[p], i, s)
    BY <1>4, <1>11 DEF Copies, Senders
  <2>2. Works(part[p], i, s)' = Works(part[p], i, s)
    <3>1. SUFFICES ASSUME NEW r, r = part[p]
                   PROVE  Works(r, i, s)' = Works(r, i, s)
      BY <1>1 DEF Works, Of
    <3>2. QED
      BY <1>8
  <2>3. QED
    BY <1>4, <1>5, <1>10, <1>11, <2>1, <2>2
<1>12. /\ \A p, q \in PEs : Acting(p)' /\ Acting(q)' /\ part'[p] = part'[q] => p = q
       /\ \A p \in alive' : view'[p].dead \intersect alive' \intersect Storing' = {}
  BY <1>1, <1>2, <1>4 DEF Copies, Roles
<1>13. ASSUME st.op # "rollback"
       PROVE  Roles' /\ Senders'
  BY <1>1, <1>2, <1>11, <1>12, <1>13 DEF Roles, Senders
<1>14. QED
  BY <1>4, <1>6, <1>7, <1>8, <1>9, <1>10, <1>11, <1>12, <1>13

(* The next region, or the last stage.                                     *)
LEMMA NextRegionCopies ==
    ASSUME IInv, Copies, NextRegion
    PROVE  Copies'
<1> DEFINE next == [stage EXCEPT !.id = @ + 1]
<1> SUFFICES ASSUME NEW st, st = next
             PROVE  Copies'
  OBVIOUS
<1>1. stage.op = "checkpoint" /\ stage.id \in Ids /\ stage \in [op : {"checkpoint"}, id : Ids]
  BY StageMeans DEF NextRegion, IInv, Typed, ProgressTyped, Stages
<1>2. st.op = "checkpoint" /\ st.id = stage.id + 1
  BY <1>1
<1>3. Enter(st, alive) /\ step' = step /\ alive' = alive /\ mem' = mem
  BY DEF NextRegion
<1> HIDE DEF next
<1>4. /\ program' = program /\ stage' = st /\ part' = part /\ Ids' = Ids /\ plan' = plan
      /\ stage.id \in Int /\ \A i \in Ids : i \in Int
  BY <1>1, <1>3, Frame, Constants DEF Enter, pes, Ids, IInv, Typed, ProgressTyped
<1>5. RoundSteps(step)' = RoundSteps(step) /\ RoundSteps(step - 1)' = RoundSteps(step - 1)
  BY <1>3, <1>4 DEF RoundSteps
<1>6. \A i \in Ids :
        (IF st.op = "checkpoint" => i < st.id THEN RoundSteps(step)' ELSE RoundSteps(step - 1)')
        = IF stage.op = "checkpoint" => i <= stage.id THEN RoundSteps(step) ELSE RoundSteps(step - 1)
  <2>1. \A i \in Ids : i < stage.id + 1 <=> i <= stage.id
    BY <1>4
  <2>2. QED
    BY <1>1, <1>2, <1>5, <2>1
<1>7. Timing' /\ MemNow'
  BY <1>1, <1>2, <1>3, <1>4 DEF Copies, Timing, MemNow
<1>8. Emptied' /\ Roles' /\ ShadowData' /\ CheckRings' /\ Senders' /\ TableData'
  BY <1>1, <1>2, <1>3, <1>5, <1>6, EnterCopies
<1>9. QED
  BY <1>7, <1>8 DEF Copies

(* Between rounds, and before the first, all regions of the rounds have    *)
(* been taken.                                                             *)
LEMMA BetweenCopies ==
    ASSUME IInv, stage.op = "reserve" \/ BetweenRounds
    PROVE  \A i \in Ids : stage.op = "checkpoint" => i <= stage.id
<1>1. Regions \in Nat
  BY Constants DEF IInv, Typed, ProgressTyped
<1>2. QED
  BY <1>1 DEF BetweenRounds, Ids

(* The last stage.                                                         *)
LEMMA DrainCopies ==
    ASSUME IInv, Copies, Drain
    PROVE  Copies'
<1>1. /\ Enter([op |-> "drain"], alive) /\ step' = step /\ alive' = alive
      /\ stage' = [op |-> "drain"] /\ program' = program
      /\ \A i \in Ids : stage.op = "checkpoint" => i <= stage.id
      /\ stage.op # "reserve"
  BY BetweenCopies DEF Drain, Enter, BetweenRounds
<1>2. RoundSteps(step)' = RoundSteps(step)
  BY <1>1, Frame DEF RoundSteps
<1>3. Timing' /\ MemNow'
  BY <1>1 DEF Timing, MemNow
<1>4. Emptied' /\ Roles' /\ ShadowData' /\ CheckRings' /\ Senders' /\ TableData'
  <2>1. SUFFICES ASSUME NEW st, st = [op |-> "drain"]
                 PROVE  Emptied' /\ Roles' /\ ShadowData' /\ CheckRings' /\ Senders' /\ TableData'
    OBVIOUS
  <2>2. st.op = "drain" /\ Enter(st, alive)
    BY <1>1, <2>1
  <2>3. QED
    BY <1>1, <1>2, <2>2, EnterCopies
<1>5. QED
  BY <1>3, <1>4 DEF Copies

(* A round begins.                                                         *)
LEMMA NextRoundCopies ==
    ASSUME IInv, Copies, NextRound
    PROVE  Copies'
<1>1. /\ Enter(FirstRegion, alive) /\ step' = step + 1 /\ alive' = alive /\ program' = program
      /\ plan[step + 1] = "round" /\ mem' = Computed(alive, step + 1) /\ part' = part
      /\ stage' = FirstRegion
      /\ \A i \in Ids : stage.op = "checkpoint" => i <= stage.id
  BY BetweenCopies DEF NextRound, Enter, pes
<1>2. FirstRegion.op = "checkpoint" /\ FirstRegion.id = 0
  BY DEF FirstRegion
<1>3. /\ step \in 0 .. Len(plan) /\ step < Len(plan) /\ Len(plan) \in Nat
      /\ PEs' = PEs /\ Ids' = Ids /\ plan' = plan /\ alive \subseteq PEs
      /\ Regions \in Nat
  BY <1>1, Frame, Constants DEF NextRound, IInv, Typed, ProgressTyped
<1>4. /\ RoundSteps(step)' = RoundSteps(step + 1) /\ RoundSteps(step - 1)' = RoundSteps(step)
      /\ RoundSteps(step) \subseteq RoundSteps(step + 1)
  <2>1. step' - 1 = step /\ 1 .. step \subseteq 1 .. step + 1
    BY <1>1, <1>3
  <2>2. QED
    BY <1>1, <1>3, <2>1 DEF RoundSteps
<1>5. Timing'
  BY <1>1, <1>2, <1>3 DEF Timing
<1>6. MemNow'
  <2>1. \A p \in alive, i \in Ids : mem'[p][i] = [row |-> part[p], work |-> step + 1]
    BY <1>1, <1>3 DEF Computed
  <2>2. QED
    BY <1>1, <1>3, <2>1 DEF MemNow
<1>7. stage.op = "reserve" => step' = 1
  BY <1>1 DEF IInv, Calls
<1>8. \A i \in Ids : ~(i < 0)
  BY <1>3 DEF Ids
<1>9. \A i \in Ids :
        (IF FirstRegion.op = "checkpoint" => i < FirstRegion.id
         THEN RoundSteps(step)' ELSE RoundSteps(step - 1)')
        = IF stage.op = "checkpoint" => i <= stage.id THEN RoundSteps(step) ELSE RoundSteps(step - 1)
  BY <1>1, <1>2, <1>4, <1>8
<1>10. Emptied' /\ Roles' /\ ShadowData' /\ CheckRings' /\ Senders' /\ TableData'
  BY <1>1, <1>2, <1>4, <1>7, <1>9, EnterCopies
<1>11. QED
  BY <1>5, <1>6, <1>10 DEF Copies

(* A PE dies: what it has sent is there.                                   *)
LEMMA DieCopies ==
    ASSUME IInv, Copies, Die
    PROVE  Copies'
<1>1. PICK d \in MayDie \intersect alive :
        /\ alive' = alive \ {d}
        /\ Enter([op |-> "rollback", dead |-> part[d]], alive \ {d})
  BY DEF Die
<1> SUFFICES ASSUME NEW st, st = [op |-> "rollback", dead |-> part[d]]
             PROVE  Copies'
  OBVIOUS
<1>2. /\ st.op = "rollback" /\ st.dead = part[d] /\ stage' = st /\ program' = program
      /\ Enter(st, alive \ {d}) /\ part' = part /\ view' = view /\ StageOver
      /\ step' = step + 1 /\ plan[step + 1] = "death" /\ stage.op # "reserve"
      /\ pc' = [p \in PEs |-> IF p \in alive \ {d} THEN "call" ELSE "done"]
      /\ \A i \in Ids : stage.op = "checkpoint" => i <= stage.id
  BY <1>1, BetweenCopies DEF Die, Enter, pes, BetweenRounds
<1>3. /\ step \in 0 .. Len(plan) /\ step < Len(plan) /\ Len(plan) \in Nat
      /\ PEs' = PEs /\ Ids' = Ids /\ plan' = plan /\ Storing' = Storing
      /\ alive \subseteq PEs /\ d \in alive /\ d \in PEs
      /\ Rows \intersect Storing = {} /\ Storing \subseteq PEs
  BY <1>2, Frame, Constants, Numbering DEF Die, IInv, Typed, ProgressTyped
<1>4. RoundSteps(step)' = RoundSteps(step)
  <2>1. RoundSteps(step + 1) =
          RoundSteps(step) \union IF plan[step + 1] = "round" THEN {step + 1} ELSE {}
    BY <1>3, Rounds DEF IInv, Typed, ProgressTyped
  <2>2. RoundSteps(step + 1) = RoundSteps(step) \union {}
    BY <1>2, <2>1
  <2>3. RoundSteps(step)' = RoundSteps(step + 1)
    BY <1>2, <1>3 DEF RoundSteps
  <2>4. QED
    BY <2>2, <2>3
<1>5. Timing' /\ MemNow'
  BY <1>2, <1>3 DEF Timing, MemNow
<1>6. /\ Emptied' /\ ShadowData' /\ CheckRings' /\ TableData'
      /\ \A q : Acting(q)' => Acting(q)
      /\ \A p, q \in PEs : Acting(p)' /\ Acting(q)' /\ part'[p] = part'[q] => p = q
      /\ \A p \in alive' : view'[p].dead \intersect alive' \intersect Storing' = {}
      /\ \A p \in PEs : Acting(p)' => \A s \in Storing, i \in Ids :
           /\ Works(part[p], i, s)' \subseteq Gone(p, i, s)'
           /\ s \in Storages(p)' => Gone(p, i, s)' \subseteq Works(part[p], i, s)'
      /\ \A s \in Storing : \A r, i : Works(r, i, s)' = Works(r, i, s)
      /\ \A q : Storages(q)' = Storages(q)
  <2>1. \A i \in Ids :
          (IF st.op = "checkpoint" => i < st.id THEN RoundSteps(step)' ELSE RoundSteps(step - 1)')
          = IF stage.op = "checkpoint" => i <= stage.id THEN RoundSteps(step) ELSE RoundSteps(step - 1)
    BY <1>2, <1>4
  <2>2. alive \ {d} = alive' /\ alive' \subseteq alive /\ st.op # "reserve"
    BY <1>1, <1>2
  <2>3. QED
    BY <1>2, <1>4, <2>1, <2>2, EnterCopies
<1>7. IF d \in view[d].active THEN part[d] \in Rows ELSE part[d] = d
  BY <1>3 DEF IInv, Parts
<1>8. part[d] \in Rows => d \in view[d].active
  <2>1. d \in Rows => d \in view[d].active
    BY <1>3 DEF IInv, Parts
  <2>2. QED
    BY <1>7, <2>1
<1>9. Roles'
  <2>1. ASSUME NEW p \in PEs, Acting(p)', part[p] = part[d]
        PROVE  FALSE
    <3>1. Acting(p) /\ p # d
      BY <1>1, <1>6, <2>1 DEF Acting
    <3>2. part[d] \in Rows
      BY <2>1, <3>1 DEF Acting, IInv, Parts
    <3>3. Acting(d)
      BY <1>3, <1>8, <3>2 DEF Acting
    <3>4. QED
      BY <1>3, <2>1, <3>1, <3>3 DEF Copies, Roles
  <2>2. part[d] \notin alive' \intersect Storing
    BY <1>1, <1>3, <1>7
  <2>3. QED
    BY <1>2, <1>3, <1>6, <2>1, <2>2 DEF Roles
<1>10. Senders'
  <2>1. ASSUME part[d] \in Rows, NEW q \in alive', NEW s \in Storages(q), NEW i \in Ids
        PROVE  RoundSteps(step) \subseteq Works(part[d], i, s)
    <3>1. Acting(d) /\ view[q] = view[d] /\ q \in alive
      BY <1>1, <1>2, <1>3, <1>8, <2>1, ViewsAgree DEF Acting
    <3>2. s \in Storages(d) /\ s \in Storing
      <4>1. Storages(q) = Storages(d)
        BY <3>1 DEF Storages
      <4>2. QED
        BY <2>1, <3>1, <4>1, StoragesStore
    <3>3. Gone(d, i, s) = RoundSteps(step)
      <4>1. pc[d] = "done"
        BY <1>2, <1>3 DEF StageOver
      <4>2. stage.op = "checkpoint" => i < stage.id \/ (i = stage.id /\ Passed(d, s))
        <5>1. i \in Int /\ (stage.op = "checkpoint" => stage.id \in Int)
          BY StageMeans, Constants DEF Ids, IInv, Typed, ProgressTyped
        <5>2. QED
          BY <1>2, <4>1, <5>1 DEF Passed
      <4>3. QED
        BY <4>2 DEF Gone
    <3>4. QED
      BY <1>3, <3>1, <3>2, <3>3 DEF Copies, Senders
  <2>2. ASSUME NEW q \in alive', NEW s \in Storages(q)', NEW i \in Ids, part[d] \in Rows
        PROVE  RoundSteps(step)' \subseteq Works(stage.dead, i, s)'
    <3>1. s \in Storages(q) /\ s \in Storing
      BY <1>1, <1>6, <2>2, StoragesStore
    <3>2. Works(stage.dead, i, s)' = Works(part[d], i, s)
      <4>1. SUFFICES ASSUME NEW r, r = part[d]
                     PROVE  Works(r, i, s)' = Works(r, i, s)
        BY <1>2 DEF Works, Of
      <4>2. QED
        BY <1>6, <3>1
    <3>3. QED
      BY <1>4, <2>1, <2>2, <3>1, <3>2
  <2>3. QED
    BY <1>2, <1>3, <1>6, <2>2 DEF Senders
<1>11. QED
  BY <1>5, <1>6, <1>9, <1>10 DEF Copies

-----------------------------------------------------------------------------
(* Nothing has been copied in the first state.                             *)
LEMMA InitCopies == Init => Copies
<1> SUFFICES ASSUME Init
             PROVE  Copies
  OBVIOUS
<1>1. /\ program \in Programs /\ stage.op = "reserve" /\ step = 0 /\ alive = PEs
      /\ \A p \in PEs : /\ pc[p] = "call" /\ part[p] = p /\ shadow[p] = << >>
                        /\ view[p] = [active |-> Rows, dead |-> {}, num |-> Spares]
      /\ \A s \in Storing : /\ ~Pending("resrv", s) /\ \A r \in Rows : table[s][r] = << >>
  BY DEF Init, Pending, Queues
<1>2. /\ Rows \subseteq PEs /\ Storing \subseteq PEs /\ Rows \intersect Storing = {}
      /\ Rows \union Storing = PEs /\ \A i \in Ids : i \in Nat
  BY <1>1, Constants, Numbering DEF Ids
<1>3. \A s \in Storing : Claimed("check", s) = {} /\ SlotsClaimed("check", s)
  BY NothingClaimed DEF Queues
<1> HIDE DEF Init
<1>4. RoundSteps(step) = {}
  BY <1>1 DEF RoundSteps
<1>5. \A p \in PEs : Acting(p) => p \in Rows
  BY <1>1, <1>2 DEF Acting
<1>6. \A s \in Storing : \A r, i : Works(r, i, s) = {} /\ FiledWorks(r, i, s) = {}
  BY <1>3 DEF Works, FiledWorks
<1>7. Timing /\ Emptied /\ Roles /\ MemNow
  BY <1>1, <1>2, <1>5 DEF Timing, Emptied, Roles, MemNow, Acting
<1>8. ShadowData
  <2>1. \A p \in PEs : Len(shadow[p]) = 0
    BY <1>1
  <2>2. QED
    BY <1>2, <1>5, <2>1 DEF ShadowData
<1>9. CheckRings
  BY <1>3 DEF CheckRings, CheckRing
<1>10. Senders
  BY <1>1, <1>4, <1>6 DEF Senders, Gone
<1>11. TableData
  <2>1. \A s \in Storing, r \in Rows : Len(table[s][r]) = 0
    BY <1>1
  <2>2. QED
    BY <1>2, <1>6, <2>1 DEF TableData
<1>12. QED
  BY <1>7, <1>8, <1>9, <1>10, <1>11 DEF Copies

(* Every step keeps the copies.                                            *)
LEMMA StepCopies == IInv /\ Copies /\ [Next]_vars => Copies'
<1> SUFFICES ASSUME IInv, Copies, [Next]_vars
             PROVE  Copies'
  OBVIOUS
<1>1. CASE UNCHANGED vars
  <2>1. /\ UNCHANGED <<progress, pes, mem, shadow>> /\ pc' = pc /\ at' = at /\ stage' = stage
        /\ queue' = queue /\ posted' = posted /\ table' = table /\ step' = step
        /\ program' = program /\ view' = view
    BY <1>1 DEF vars, progress, sending, pes, memory
  <2>2. \A q : RolledBack(q)' <=> RolledBack(q)
    BY <2>1 DEF RolledBack
  <2>3. \A k, s : Pending(k, s)' = Pending(k, s)
    BY <2>1 DEF Pending
  <2>4. RoundSteps(step)' = RoundSteps(step) /\ RoundSteps(step - 1)' = RoundSteps(step - 1)
    BY <2>1, Frame DEF RoundSteps
  <2>5. \A q, i : Kept(q, i)' = Kept(q, i)
    BY <2>1, <2>4 DEF Kept
  <2>6. \A q, i, s : Gone(q, i, s)' = Gone(q, i, s)
    <3>1. \A q, s : Passed(q, s)' <=> Passed(q, s)
      BY <2>1 DEF Passed, cpr_storage_pes
    <3>2. QED
      BY <2>1, <2>4, <3>1 DEF Gone
  <2>7. \A s \in Storing : pc'[s] = "restore" =>
          stage.op = "rollback" /\ (pc[s] = "restore" \/ ~Pending("check", s))
    <3>1. Storing \subseteq PEs
      BY Numbering DEF IInv, Typed, ProgressTyped
    <3>2. QED
      BY <2>1, <3>1 DEF IInv, Placed, MayBe
  <2>8. QED
    BY <2>1, <2>2, <2>3, <2>5, <2>6, <2>7, CopiesMove
<1>2. ASSUME NEW p \in PEs, pc[p] # "done", ComputingStep(p)
      PROVE  Copies'
  <2>1. CASE Reserve(p)
    BY <2>1, ReserveCopies
  <2>2. CASE CheckpointData(p)
    BY <2>2, CheckpointDataCopies
  <2>3. CASE Send(p)
    BY <2>3, SendCopies
  <2>4. CASE TestSignal(p)
    BY <2>4, TestSignalCopies
  <2>5. CASE SetSignal(p)
    BY <2>5, SetSignalCopies
  <2>6. CASE IdleInDrain(p)
    BY <2>6, IdleCopies
  <2>7. CASE RollBack(p)
    BY <2>7, RollBackCopies
  <2>8. QED
    BY <1>2, <2>1, <2>2, <2>3, <2>4, <2>5, <2>6, <2>7 DEF ComputingStep
<1>3. ASSUME NEW s \in Storing, pc[s] # "done", StorageStep(s)
      PROVE  Copies'
  <2>1. CASE FileReservation(s)
    BY <2>1, FileReservationCopies
  <2>2. CASE FileData(s)
    BY <2>2, FileDataCopies
  <2>3. CASE TakeOver(s)
    BY <2>3, TakeOverCopies
  <2>4. CASE \/ WaitReserve(s) \/ EndReserve(s) \/ ClearSignal(s) \/ CheckpointStored(s)
             \/ WaitCheck(s) \/ EndCheckpoint(s) \/ EmptyQueue(s)
    BY <1>3, <2>4, StoringSteps
  <2>5. QED
    BY <1>3, <2>1, <2>2, <2>3, <2>4 DEF StorageStep
<1>4. ASSUME NEW m \in posted, Deliver(m)
      PROVE  Copies'
  BY <1>4, DeliverCopies
<1>5. CASE Barrier
  BY <1>5, NextRegionCopies, NextRoundCopies, DieCopies, DrainCopies DEF Barrier
<1>6. QED
  BY <1>1, <1>2, <1>3, <1>4, <1>5 DEF Next, Step

(* In a program of checkpoint.c the storage PEs' copies are as they are    *)
(* said to be.                                                             *)
THEOREM CopiesInvariance == AnySpec /\ IsPlain => [](IInv /\ Copies)
<1>1. AnyInit /\ IsPlain => IInv /\ Copies
  BY InitInv, InitCopies DEF AnyInit, IsPlain
<1>2. IInv /\ Copies /\ [AnyNext]_<<vars, OnlyMatmul>> => (IInv /\ Copies)'
  <2> SUFFICES ASSUME IInv, Copies, [AnyNext]_<<vars, OnlyMatmul>>
               PROVE  IInv' /\ Copies'
    OBVIOUS
  <2>1. [Next]_vars
    BY SomeoneAlive DEF AnyNext
  <2>2. QED
    BY <2>1, NextInv, StepCopies
<1>3. QED
  BY <1>1, <1>2, PTL DEF AnySpec

(* Between its calls a computing PE has sent what it has taken.            *)
LEMMA CallsAreComplete == IInv /\ Copies => CopiesComplete
<1> SUFFICES ASSUME IInv, Copies, NEW p \in alive, NEW s \in alive \intersect Storing,
                    role(p) = "active", pc[p] \in {"call", "done"}, s \in Storages(p),
                    stage.op = "reserve" => pc[p] = "done",
                    ~Pending("resrv", s), ~Pending("check", s)
             PROVE  /\ Len(table[s][part[p]]) = Len(shadow[p])
                    /\ \A i \in 1 .. Len(shadow[p]) : table[s][part[p]][i].data = shadow[p][i]
  BY DEF CopiesComplete
<1>1. /\ p \in PEs /\ Acting(p) /\ s \in Storing /\ part[p] \in Rows /\ Regions \in Nat \ {0}
      /\ Rows \union Storing = PEs
  BY Numbering, Constants DEF role, RoleOf, Acting, IInv, Typed, ProgressTyped, Parts
<1>2. Len(table[s][part[p]]) = Regions
  <2>1. ASSUME stage.op = "reserve"
        PROVE  Sent(part[p], s) = Regions
    <3>1. part[p] = p /\ calls[p] = Regions /\ pc[p] = "done"
      BY <1>1, <2>1 DEF IInv, Calls
    <3>2. QED
      BY <1>1, <2>1, <3>1 DEF Sent
  <2>2. QED
    BY <1>1, <2>1, AllFiled
<1>3. Len(shadow[p]) = Regions
  <2>1. calls[p] = Regions
    BY <1>1 DEF IInv, Calls
  <2>2. ReservedOwn(p) = Regions
    BY <1>1, <2>1 DEF ReservedOwn, Sender
  <2>3. QED
    BY <1>1, <2>2 DEF IInv, Shadows, Copies, ShadowData
<1>4. ASSUME NEW i \in Ids
      PROVE  table[s][part[p]][i + 1].data = shadow[p][i + 1]
  <2>1. i < Regions
    BY <1>1 DEF Ids
  <2>2. Kept(p, i) = Gone(p, i, s)
    BY DEF Kept, Gone, Passed
  <2>3. Works(part[p], i, s) = Gone(p, i, s)
    BY <1>1 DEF Copies, Senders
  <2>4. FiledWorks(part[p], i, s) = Works(part[p], i, s)
    BY <1>1, AllHeadsPassed DEF Copies
  <2>5. Latest(Kept(p, i), part[p], table[s][part[p]][i + 1].data)
    BY <1>1, <1>2, <2>1, <2>2, <2>3, <2>4 DEF Copies, TableData
  <2>6. Latest(Kept(p, i), part[p], shadow[p][i + 1])
    BY <1>1, <1>3, <2>1 DEF Copies, ShadowData
  <2>7. Kept(p, i) \in SUBSET Nat
    BY <2>3, <2>2, Constants DEF Works, IInv, Typed, ProgressTyped
  <2>8. QED
    BY <2>5, <2>6, <2>7, OneLatest
<1>5. ASSUME NEW i \in 1 .. Len(shadow[p])
      PROVE  table[s][part[p]][i].data = shadow[p][i]
  <2>1. i - 1 \in Ids /\ i - 1 + 1 = i
    BY <1>1, <1>3 DEF Ids
  <2>2. QED
    BY <1>4, <2>1
<1>6. QED
  BY <1>2, <1>3, <1>5

(* Nothing that a computing PE has taken into its shadow memory is lost:   *)
(* however puts are applied and whoever has died, a storage PE that has    *)
(* emptied its rings has all of it, and nothing that is older.             *)
THEOREM CopiesStored == AnySpec /\ IsPlain => []StoredCopies
<1>1. IInv /\ Copies => StoredCopies
  BY CallsAreComplete, SomeoneAlive DEF StoredCopies
<1>2. QED
  BY <1>1, CopiesInvariance, PTL

-----------------------------------------------------------------------------
(* When a PE that stores dies, the list of storage PEs is cut at its end   *)
(* (checkpoint.c:765): a later death may then find no PE to take over.     *)
(* That cannot be where only PEs die that compute at the start, nor where  *)
(* only one dies.                                                          *)
SingleDeath == \A prog \in Programs : Cardinality({i \in DOMAIN prog.plan : prog.plan[i] = "death"}) <= 1
Replaceable == MayDie \subseteq Rows \/ SingleDeath

(* As long as deaths are to come, the PEs still in the list store.  The    *)
(* last that was in it takes over, or has done so; all other parts are     *)
(* played.                                                                 *)
Successor == cpr_storage_pes(Spares - Deaths(step))
Players ==
    /\ Deaths(step) < Deaths(Len(plan)) =>
        \A i \in 0 .. Spares - Deaths(step) - 1 :
            LET s == cpr_storage_pes(i) IN s \in alive /\ s \notin view[s].active
    /\ stage.op = "rollback" /\ stage.dead \in Rows =>
        /\ Successor \in alive
        /\ IF RolledBack(Successor) THEN Acting(Successor) /\ part[Successor] = stage.dead
                                    ELSE Successor \notin view[Successor].active
    /\ \A r \in Rows : \/ stage.op = "rollback" /\ r = stage.dead
                       \/ \E p \in PEs : Acting(p) /\ part[p] = r

(* In a rollback no step but those that end it lets a PE learn of it.      *)
LEMMA WithinStage ==
    ASSUME IInv, NEW p \in PEs, pc[p] # "done",
           \/ ComputingStep(p) /\ ~RollBack(p)
           \/ p \in Storing /\ StorageStep(p) /\ ~TakeOver(p)
    PROVE  /\ UNCHANGED <<progress, pes, mem>>
           /\ \A q \in PEs : RolledBack(q)' <=> RolledBack(q)
<1>1. MayBe(p, pc[p]) /\ pc \in [PEs -> Places]
  BY DEF IInv, Placed, Typed
<1>2. CASE stage.op # "rollback"
  <2>1. UNCHANGED <<progress, pes, mem>>
    BY DEF ComputingStep, StorageStep, Reserve, CheckpointData, Send, TestSignal, SetSignal,
       IdleInDrain, WaitReserve, FileReservation, EndReserve, ClearSignal, CheckpointStored,
       WaitCheck, FileData, EndCheckpoint, EmptyQueue, memory
  <2>2. QED
    BY <1>2, <2>1 DEF RolledBack, progress
<1>3. CASE stage.op = "rollback"
  <2>1. pc[p] \notin Sender
    BY <1>1, <1>3 DEF MayBe
  <2>2. ASSUME ComputingStep(p), ~RollBack(p)
        PROVE  FALSE
    BY <1>3, <2>1, <2>2 DEF ComputingStep, Reserve, CheckpointData, Send, TestSignal, SetSignal,
       IdleInDrain, Goto, Sender, SendFrom
  <2>3. UNCHANGED <<progress, pes, mem>>
    BY <2>2 DEF StorageStep, WaitReserve, FileReservation, EndReserve, ClearSignal,
       CheckpointStored, WaitCheck, FileData, EndCheckpoint, EmptyQueue, memory
  <2>4. \E to \in Filer : pc' = [pc EXCEPT ![p] = to]
    BY <1>3, <2>2 DEF StorageStep, WaitReserve, FileReservation, EndReserve, ClearSignal,
       CheckpointStored, WaitCheck, FileData, EndCheckpoint, EmptyQueue, Goto, Filer
  <2>5. PICK to \in Filer : pc' = [pc EXCEPT ![p] = to]
    BY <2>4
  <2>6. pc'[p] # "done" /\ \A q \in PEs \ {p} : pc'[q] = pc[q]
    BY <1>1, <2>5 DEF Filer
  <2>7. QED
    BY <2>3, <2>6 DEF RolledBack, progress
<1>4. QED
  BY <1>2, <1>3

(* Who plays what depends on nothing else.                                 *)
LEMMA PlayersKept ==
    ASSUME IInv, Players, UNCHANGED <<progress, pes>>,
           \A q \in PEs : RolledBack(q)' <=> RolledBack(q)
    PROVE  Players'
<1>1. /\ stage' = stage /\ alive' = alive /\ part' = part /\ view' = view /\ step' = step
      /\ program' = program /\ alive \subseteq PEs
  BY DEF progress, pes, IInv, Typed, ProgressTyped
<1>2. PEs' = PEs /\ Spares' = Spares /\ plan' = plan
  BY <1>1, Frame
<1>3. \A q : Acting(q)' <=> Acting(q)
  BY <1>1 DEF Acting
<1>4. \A n : Deaths(n)' = Deaths(n) /\ cpr_storage_pes(n)' = cpr_storage_pes(n)
  BY <1>2 DEF Deaths, DeathSteps, cpr_storage_pes
<1>5. Deaths(step)' = Deaths(step) /\ Deaths(Len(plan))' = Deaths(Len(plan)) /\ Successor' = Successor
  BY <1>1, <1>2, <1>4 DEF Successor, cpr_storage_pes, Deaths, DeathSteps
<1> DEFINE Idle(i) == cpr_storage_pes(i) \in alive /\ cpr_storage_pes(i) \notin view[cpr_storage_pes(i)].active
<1>6. \A i : Idle(i)' <=> Idle(i)
  BY <1>1 DEF cpr_storage_pes
<1>7. QED
  BY <1>1, <1>2, <1>3, <1>5, <1>6 DEF Players

(* A PE that learns of a death.                                            *)
LEMMA LearnPlayers ==
    ASSUME IInv, Players, NEW p \in alive, pc[p] # "done", stage.op = "rollback",
           UNCHANGED progress, pc' = [pc EXCEPT ![p] = "done"],
           view' = [view EXCEPT ![p] = AfterDeath(p, stage.dead)],
           \A q \in PEs : Acting(q) \/ q # p => part'[q] = part[q],
           stage.dead \in Rows /\ p = Successor => part'[p] = stage.dead
    PROVE  Players'
<1>1. /\ stage' = stage /\ alive' = alive /\ step' = step /\ program' = program
      /\ alive \subseteq PEs /\ p \in PEs /\ view \in [PEs -> View] /\ pc \in [PEs -> Places]
  BY DEF progress, IInv, Typed, ProgressTyped, PesTyped
<1>2. /\ PEs' = PEs /\ Spares' = Spares /\ plan' = plan
      /\ Originals \in Nat /\ Spares \in Nat /\ Deaths(step) \in Nat
  BY <1>1, Frame, Constants, CountDeaths DEF IInv, Typed, ProgressTyped
<1>3. Deaths(step)' = Deaths(step) /\ Deaths(Len(plan))' = Deaths(Len(plan)) /\ Successor' = Successor
  BY <1>1, <1>2 DEF Successor, cpr_storage_pes, Deaths, DeathSteps
<1>4. chosen_pe(p) = Successor
  <2>1. view[p].num = Spares - Deaths(step) + 1
    BY <1>1 DEF IInv, Numbers, RolledBack
  <2>2. QED
    BY <1>2, <2>1 DEF chosen_pe, Successor
<1>5. /\ view'[p].active = IF stage.dead \in view[p].active
                           THEN view[p].active \union {Successor} ELSE view[p].active
      /\ \A q \in PEs \ {p} : view'[q] = view[q] /\ pc'[q] = pc[q]
      /\ pc'[p] = "done"
  BY <1>1, <1>4, Chosen DEF IInv
<1>6. \A q \in PEs : Acting(q) => Acting(q)' /\ part'[q] = part[q]
  BY <1>1, <1>5 DEF Acting
<1>7. ASSUME Deaths(step) < Deaths(Len(plan)), NEW i \in 0 .. Spares - Deaths(step) - 1
      PROVE  cpr_storage_pes(i) \in alive /\ cpr_storage_pes(i) \notin view'[cpr_storage_pes(i)].active
  <2>1. cpr_storage_pes(i) \in alive /\ cpr_storage_pes(i) \notin view[cpr_storage_pes(i)].active
    BY <1>7 DEF Players
  <2>2. cpr_storage_pes(i) # Successor
    BY <1>2 DEF Successor, cpr_storage_pes
  <2>3. QED
    BY <1>1, <1>5, <2>1, <2>2
<1>8. ASSUME stage.dead \in Rows
      PROVE  /\ Successor \in alive
             /\ IF RolledBack(Successor)'
                THEN Successor \in view'[Successor].active /\ part'[Successor] = stage.dead
                ELSE Successor \notin view'[Successor].active
  <2>1. /\ Successor \in alive
        /\ IF RolledBack(Successor) THEN Acting(Successor) /\ part[Successor] = stage.dead
                                    ELSE Successor \notin view[Successor].active
    BY <1>8 DEF Players
  <2>2. CASE Successor = p
    <3>1. stage.dead \in view[p].active
      BY <1>1, <1>8 DEF IInv, Parts
    <3>2. part'[p] = stage.dead /\ p \in view'[p].active
      BY <1>5, <1>8, <2>2, <3>1
    <3>3. RolledBack(p)'
      BY <1>1, <1>5 DEF RolledBack
    <3>4. RolledBack(Successor)'
      <4>1. SUFFICES ASSUME NEW s, s = Successor
                     PROVE  RolledBack(s)'
        BY <1>3, <2>2, <3>3 DEF RolledBack
      <4>2. QED
        BY <2>2, <3>3, <4>1
    <3>5. QED
      BY <2>1, <2>2, <3>2, <3>4
  <2>3. CASE Successor # p
    <3>1. RolledBack(Successor)' <=> RolledBack(Successor)
      BY <1>1, <1>3, <1>5, <2>1, <2>3 DEF RolledBack
    <3>2. part'[Successor] = part[Successor] /\ view'[Successor] = view[Successor]
      BY <1>1, <1>5, <2>1, <2>3
    <3>3. QED
      BY <2>1, <3>1, <3>2 DEF Acting
  <2>4. QED
    BY <2>2, <2>3
<1>9. \A r \in Rows : r = stage.dead \/ \E q \in PEs : Acting(q)' /\ part'[q] = r
  BY <1>6 DEF Players
<1>10. Players'
  BY <1>1, <1>2, <1>3, <1>7, <1>8, <1>9 DEF Players, Acting, cpr_storage_pes
<1>11. QED
  BY <1>10

(* When the PEs meet, every part is played.                                *)
LEMMA PlayersMeet ==
    ASSUME IInv, Players, StageOver, NEW r \in Rows
    PROVE  \E p \in PEs : Acting(p) /\ part[p] = r
<1>1. CASE stage.op = "rollback" /\ r = stage.dead
  <2>1. Successor \in alive /\ RolledBack(Successor)
    BY <1>1 DEF Players, RolledBack, StageOver
  <2>2. Acting(Successor) /\ part[Successor] = r /\ Successor \in PEs
    BY <1>1, <2>1 DEF Players, IInv, Typed, ProgressTyped
  <2>3. QED
    BY <2>2
<1>2. CASE ~(stage.op = "rollback" /\ r = stage.dead)
  BY <1>2 DEF Players
<1>3. QED
  BY <1>1, <1>2

(* The barriers after which nobody has died.                               *)
LEMMA CallPlayers ==
    ASSUME IInv, Players, NEW st, Enter(st, alive), alive' = alive, st.op # "rollback",
           Deaths(step') = Deaths(step)
    PROVE  Players'
<1>1. /\ stage' = st /\ program' = program /\ view' = view /\ part' = part /\ StageOver
  BY DEF Enter, pes
<1>2. PEs' = PEs /\ Spares' = Spares /\ plan' = plan
  BY <1>1, Frame
<1>3. Deaths(step)' = Deaths(step) /\ Deaths(Len(plan))' = Deaths(Len(plan))
  BY <1>2 DEF Deaths, DeathSteps
<1>4. \A q : Acting(q)' <=> Acting(q)
  BY <1>1 DEF Acting
<1>5. \A r \in Rows : \E p \in PEs : Acting(p)' /\ part'[p] = r
  BY <1>1, <1>4, PlayersMeet
<1>6. QED
  BY <1>1, <1>2, <1>3, <1>5 DEF Players, cpr_storage_pes

(* These are the next region, the next round and the last stage.           *)
LEMMA BarrierPlayers ==
    ASSUME IInv, Players, NextRegion \/ NextRound \/ Drain
    PROVE  Players'
<1>1. CASE NextRegion
  <2>1. SUFFICES ASSUME NEW st, st = [stage EXCEPT !.id = @ + 1]
                 PROVE  Players'
    OBVIOUS
  <2>2. stage \in [op : {"checkpoint"}, id : Ids]
    BY <1>1 DEF NextRegion, IInv, Typed, ProgressTyped, Stages
  <2>3. st.op = "checkpoint"
    BY <2>1, <2>2
  <2>4. Enter(st, alive) /\ alive' = alive /\ step' = step
    BY <1>1, <2>1 DEF NextRegion
  <2>5. QED
    BY <2>3, <2>4, CallPlayers
<1>2. CASE NextRound
  <2>1. /\ Enter(FirstRegion, alive) /\ alive' = alive /\ step' = step + 1
        /\ step < Len(plan) /\ plan[step + 1] = "round" /\ FirstRegion.op = "checkpoint"
    BY <1>2 DEF NextRound, FirstRegion
  <2>2. Deaths(step) \in Nat /\ Deaths(step + 1) = Deaths(step) + 0
    BY <2>1, CountDeaths DEF IInv, Typed, ProgressTyped
  <2>3. Deaths(step') = Deaths(step)
    BY <2>1, <2>2
  <2>4. QED
    BY <2>1, <2>3, CallPlayers
<1>3. CASE Drain
  <2>1. SUFFICES ASSUME NEW st, st = [op |-> "drain"]
                 PROVE  Players'
    OBVIOUS
  <2>2. Enter(st, alive) /\ alive' = alive /\ step' = step /\ st.op = "drain"
    BY <1>3, <2>1 DEF Drain
  <2>3. QED
    BY <2>2, CallPlayers
<1>4. QED
  BY <1>1, <1>2, <1>3

(* A death, after which the last of the list takes over.                   *)
LEMMA DiePlayers ==
    ASSUME Replaceable, IInv, Players, Die
    PROVE  Players'
<1>1. PICK d \in MayDie \intersect alive :
        alive' = alive \ {d} /\ Enter([op |-> "rollback", dead |-> part[d]], alive \ {d})
  BY DEF Die
<1>2. /\ stage'.op = "rollback" /\ stage'.dead = part[d] /\ program' = program
      /\ view' = view /\ part' = part /\ StageOver
      /\ step' = step + 1 /\ plan[step + 1] = "death" /\ step < Len(plan)
      /\ pc' = [p \in PEs |-> IF p \in alive' THEN "call" ELSE "done"]
  BY <1>1 DEF Die, Enter, pes
<1>3. /\ PEs' = PEs /\ Spares' = Spares /\ plan' = plan /\ alive \subseteq PEs /\ d \in PEs
      /\ Originals \in Nat /\ Spares \in Nat /\ Len(plan) \in Nat /\ step \in 0 .. Len(plan)
      /\ Rows \intersect Storing = {}
  BY <1>2, Frame, Constants, Numbering DEF IInv, Typed, ProgressTyped
<1>4. /\ Deaths(step) \in Nat /\ Deaths(step + 1) = Deaths(step) + 1
      /\ Deaths(step + 1) <= Deaths(Len(plan)) /\ Deaths(Len(plan)) \in Nat
      /\ Deaths(Len(plan)) <= Spares
  <2>1. Deaths(step) \in Nat /\ Deaths(step + 1) = Deaths(step) + 1
    BY <1>2, <1>3, CountDeaths DEF IInv, Typed, ProgressTyped
  <2>2. Deaths(step + 1) <= Deaths(Len(plan))
    <3>1. DeathSteps(step + 1) \subseteq DeathSteps(Len(plan))
      BY <1>2, <1>3 DEF DeathSteps
    <3>2. IsFiniteSet(DeathSteps(Len(plan)))
      <4>1. IsFiniteSet(1 .. Len(plan))
        BY <1>3, FS_Interval
      <4>2. QED
        BY <4>1, FS_Subset DEF DeathSteps
    <3>3. QED
      BY <3>1, <3>2, FS_Subset DEF Deaths
  <2>3. Len(plan) \in 0 .. Len(plan)
    BY <1>3
  <2>4. Deaths(Len(plan)) \in Nat /\ Deaths(Len(plan)) <= Spares
    BY <2>3, CountDeaths DEF IInv, Typed, ProgressTyped
  <2>5. QED
    BY <2>1, <2>2, <2>4
<1>5. Deaths(step)' = Deaths(step) + 1 /\ Deaths(Len(plan))' = Deaths(Len(plan))
  <2>1. Deaths(step)' = Deaths(step + 1) /\ Deaths(Len(plan))' = Deaths(Len(plan))
    BY <1>2, <1>3 DEF Deaths, DeathSteps
  <2>2. QED
    BY <1>4, <2>1
<1>6. \A i \in 0 .. Spares - Deaths(step) - 1 :
        cpr_storage_pes(i) \in alive /\ cpr_storage_pes(i) \notin view[cpr_storage_pes(i)].active
  BY <1>4 DEF Players
<1>7. ASSUME Deaths(step) + 1 < Deaths(Len(plan)), NEW i \in 0 .. Spares - (Deaths(step) + 1) - 1
      PROVE  cpr_storage_pes(i) \in alive' /\ cpr_storage_pes(i) \notin view'[cpr_storage_pes(i)].active
  <2>1. d \in Rows
    <3>1. SUFFICES ASSUME SingleDeath
                   PROVE  FALSE
      BY DEF Replaceable
    <3>2. Cardinality({j \in DOMAIN plan : plan[j] = "death"}) <= 1 /\ DOMAIN plan = 1 .. Len(plan)
      BY <3>1, Constants DEF SingleDeath, plan, IInv, Typed, ProgressTyped
    <3>3. Deaths(Len(plan)) <= 1
      BY <3>2 DEF Deaths, DeathSteps
    <3>4. QED
      BY <1>4, <1>7, <3>3
  <2>2. i \in 0 .. Spares - Deaths(step) - 1 /\ i \in 0 .. Spares - 1
    BY <1>3, <1>4
  <2>3. cpr_storage_pes(i) \in Storing
    BY <2>2, Numbering DEF IInv, Typed, ProgressTyped
  <2>4. QED
    BY <1>1, <1>2, <1>3, <1>6, <2>1, <2>2, <2>3
<1>8. part[d] \in Rows => d \in view[d].active
  BY <1>1, <1>3 DEF IInv, Parts
<1>9. ASSUME part[d] \in Rows
      PROVE  /\ Successor' \in alive' /\ Successor' \notin view'[Successor'].active
             /\ ~RolledBack(Successor)'
  <2>1. Successor' = cpr_storage_pes(Spares - Deaths(step) - 1)
    BY <1>3, <1>4, <1>5 DEF Successor, cpr_storage_pes
  <2>2. Spares - Deaths(step) - 1 \in 0 .. Spares - Deaths(step) - 1
    BY <1>3, <1>4
  <2>3. Successor' \in alive /\ Successor' \notin view[Successor'].active
    BY <1>6, <2>1, <2>2
  <2>4. Successor' \in alive' /\ Successor' \in PEs
    BY <1>1, <1>3, <1>8, <1>9, <2>3
  <2>5. pc'[Successor'] = "call"
    BY <1>2, <2>4
  <2>6. QED
    BY <1>2, <2>3, <2>4, <2>5 DEF RolledBack
<1>10. \A r \in Rows : r = part[d] \/ \E p \in PEs : p \in alive' /\ p \in view'[p].active /\ part'[p] = r
  BY <1>1, <1>2, PlayersMeet DEF Acting
<1>11. QED
  BY <1>2, <1>3, <1>5, <1>7, <1>9, <1>10 DEF Players, Acting, cpr_storage_pes

(* At the start each PE plays its own part.                                *)
LEMMA InitPlayers == Init => Players
<1> SUFFICES ASSUME Init
             PROVE  Players
  OBVIOUS
<1>1. /\ program \in Programs /\ stage.op = "reserve" /\ step = 0 /\ alive = PEs
      /\ \A p \in PEs : part[p] = p /\ view[p].active = Rows
  BY DEF Init
<1>2. /\ Rows \subseteq PEs /\ Rows \intersect Storing = {} /\ Storing \subseteq PEs
      /\ Spares \in Nat
      /\ \A i \in 0 .. Spares - 1 : cpr_storage_pes(i) \in Storing
  BY <1>1, Constants, Numbering
<1>3. Deaths(step) = 0
  <2>1. DeathSteps(0) = {}
    BY DEF DeathSteps
  <2>2. QED
    BY <1>1, <2>1, FS_EmptySet DEF Deaths
<1> HIDE DEF Init
<1>4. ASSUME NEW i \in 0 .. Spares - Deaths(step) - 1
      PROVE  cpr_storage_pes(i) \in alive /\ cpr_storage_pes(i) \notin view[cpr_storage_pes(i)].active
  <2>1. i \in 0 .. Spares - 1
    BY <1>2, <1>3
  <2>2. QED
    BY <1>1, <1>2, <2>1
<1>5. \A r \in Rows : Acting(r) /\ part[r] = r /\ r \in PEs
  BY <1>1, <1>2 DEF Acting
<1>6. QED
  BY <1>1, <1>4, <1>5 DEF Players

(* Every step keeps the parts played.                                      *)
LEMMA StepPlayers == Replaceable /\ IInv /\ Players /\ [Next]_vars => Players'
<1> SUFFICES ASSUME Replaceable, IInv, Players, [Next]_vars
             PROVE  Players'
  OBVIOUS
<1>1. Storing \subseteq PEs
  BY Numbering DEF IInv, Typed, ProgressTyped
<1>2. CASE UNCHANGED vars
  BY <1>2, PlayersKept DEF vars, RolledBack, progress
<1>3. ASSUME NEW p \in PEs, pc[p] # "done", RollBack(p)
      PROVE  Players'
  <2>1. /\ stage.op = "rollback" /\ pc' = [pc EXCEPT ![p] = "done"] /\ part' = part
        /\ view' = [view EXCEPT ![p] = AfterDeath(p, stage.dead)] /\ UNCHANGED progress
        /\ stage.dead \in view[p].active => p \in view[p].active
    BY <1>3 DEF RollBack, Goto, RoleOf, role
  <2>2. p \in alive
    BY <1>3, InCallAlive DEF IInv
  <2>3. ~(stage.dead \in Rows /\ p = Successor)
    BY <1>3, <2>1, <2>2 DEF Players, RolledBack, IInv, Parts
  <2>4. QED
    BY <1>3, <2>1, <2>2, <2>3, LearnPlayers
<1>4. ASSUME NEW s \in Storing, pc[s] # "done", TakeOver(s)
      PROVE  Players'
  <2>1. /\ pc[s] = "restore" /\ pc' = [pc EXCEPT ![s] = "done"] /\ UNCHANGED progress
        /\ view' = [view EXCEPT ![s] = AfterDeath(s, stage.dead)]
        /\ part' = IF part[s] = chosen_pe(s) THEN [part EXCEPT ![s] = stage.dead] ELSE part
    BY <1>4 DEF TakeOver, Goto
  <2>2. /\ s \in alive /\ s \in PEs /\ s \notin view[s].active /\ stage.op = "rollback"
        /\ part[s] = s /\ part \in [PEs -> PEs]
    <3>1. s \in alive /\ s \in PEs /\ MayBe(s, "restore") /\ part \in [PEs -> PEs]
      BY <1>1, <1>4, <2>1, InCallAlive DEF IInv, Typed, PesTyped
    <3>2. s \notin view[s].active /\ stage.op = "rollback"
      BY <3>1 DEF MayBe, Filer
    <3>3. QED
      BY <3>1, <3>2 DEF IInv, Parts
  <2>3. s = Successor => part'[s] = stage.dead
    <3>1. view[s].num = Spares - Deaths(step) + 1
      BY <1>4, <2>2 DEF IInv, Numbers, RolledBack
    <3>2. Spares \in Nat /\ Deaths(step) \in Nat
      BY Constants, CountDeaths DEF IInv, Typed, ProgressTyped
    <3>3. chosen_pe(s) = Successor
      BY <3>1, <3>2 DEF chosen_pe, Successor
    <3>4. QED
      BY <2>1, <2>2, <3>3
  <2>4. \A q \in PEs : Acting(q) \/ q # s => part'[q] = part[q]
    BY <2>1, <2>2 DEF Acting
  <2>5. QED
    BY <1>4, <2>1, <2>2, <2>3, <2>4, LearnPlayers
<1>5. ASSUME NEW p \in PEs, Step(p)
      PROVE  Players'
  <2>1. CASE RollBack(p)
    BY <1>3, <1>5, <2>1 DEF Step
  <2>2. CASE p \in Storing /\ TakeOver(p)
    BY <1>4, <1>5, <2>2 DEF Step
  <2>3. CASE ~RollBack(p) /\ ~(p \in Storing /\ TakeOver(p))
    <3>1. /\ pc[p] # "done"
          /\ \/ ComputingStep(p) /\ ~RollBack(p)
             \/ p \in Storing /\ StorageStep(p) /\ ~TakeOver(p)
      BY <1>5, <2>3 DEF Step
    <3>2. UNCHANGED <<progress, pes>> /\ \A q \in PEs : RolledBack(q)' <=> RolledBack(q)
      BY <3>1, WithinStage
    <3>3. QED
      BY <3>2, PlayersKept
  <2>4. QED
    BY <2>1, <2>2, <2>3
<1>6. ASSUME NEW m \in posted, Deliver(m)
      PROVE  Players'
  BY <1>6, PlayersKept DEF Deliver, RolledBack, progress
<1>7. CASE Barrier
  BY <1>7, BarrierPlayers, DiePlayers DEF Barrier
<1>8. QED
  BY <1>2, <1>5, <1>6, <1>7 DEF Next

(* Whoever dies, the parts are played whenever the PEs meet, each by one   *)
(* PE that is alive.                                                       *)
THEOREM PartsAlwaysPlayed ==
    ASSUME Replaceable
    PROVE  AnySpec /\ IsPlain => []PartsPlayed
<1>1. AnyInit /\ IsPlain => IInv /\ Copies /\ Players
  BY InitInv, InitCopies, InitPlayers DEF AnyInit, IsPlain
<1>2. (IInv /\ Copies /\ Players) /\ [AnyNext]_<<vars, OnlyMatmul>> => (IInv /\ Copies /\ Players)'
  <2> SUFFICES ASSUME IInv, Copies, Players, [AnyNext]_<<vars, OnlyMatmul>>
               PROVE  IInv' /\ Copies' /\ Players'
    OBVIOUS
  <2>1. [Next]_vars
    BY SomeoneAlive DEF AnyNext
  <2>2. QED
    BY <2>1, NextInv, StepCopies, StepPlayers, Replaceable
<1>3. IInv /\ Copies /\ Players => PartsPlayed
  <2> SUFFICES ASSUME IInv, Copies, Players, StageOver, NEW r \in Rows
               PROVE  \E p \in alive : /\ role(p) = "active" /\ part[p] = r
                                       /\ \A q \in alive \ {p} : role(q) = "active" => part[q] # r
    BY SomeoneAlive DEF PartsPlayed, EveryPartPlayed
  <2>1. PICK p \in PEs : Acting(p) /\ part[p] = r
    BY PlayersMeet
  <2>2. alive \subseteq PEs
    BY DEF IInv, Typed, ProgressTyped
  <2>3. \A q \in alive : role(q) = "active" => q \in PEs /\ Acting(q)
    BY <2>2 DEF role, RoleOf, Acting
  <2>4. \A q \in alive \ {p} : role(q) = "active" => part[q] # r
    BY <2>1, <2>3 DEF Copies, Roles
  <2>5. p \in alive /\ role(p) = "active"
    BY <2>1 DEF Acting, role, RoleOf
  <2>6. QED
    BY <2>1, <2>4, <2>5
<1>4. QED
  BY <1>1, <1>2, <1>3, PTL DEF AnySpec

-----------------------------------------------------------------------------
(* A PE that computes in another's place does not restore its memory       *)
(* (checkpoint.c:703 leaves its cpr_shadow_mem_tail at 0); where only one  *)
(* dies there is none before the rollback.                                 *)
MemBack ==
    /\ \A p \in alive : view[p].num = Spares => view[p].active = Rows
    /\ stage.op = "rollback" /\ stage.dead \in Rows =>
        \A p \in PEs : RolledBack(p) /\ Acting(p) =>
            \A i \in Ids : Latest(RoundSteps(step), part[p], mem[p][i])

(* Nor does that depend on anything else.                                  *)
LEMMA MemKept ==
    ASSUME IInv, MemBack, UNCHANGED <<progress, pes, mem>>,
           \A q \in PEs : RolledBack(q)' <=> RolledBack(q)
    PROVE  MemBack'
<1>1. /\ stage' = stage /\ alive' = alive /\ part' = part /\ view' = view /\ step' = step
      /\ program' = program /\ mem' = mem
  BY DEF progress, pes
<1>2. PEs' = PEs /\ Spares' = Spares /\ plan' = plan /\ Ids' = Ids
  BY <1>1, Frame
<1>3. \A q : Acting(q)' <=> Acting(q)
  BY <1>1 DEF Acting
<1>4. RoundSteps(step)' = RoundSteps(step)
  BY <1>1, <1>2 DEF RoundSteps
<1>5. ASSUME stage.op = "rollback", stage.dead \in Rows, NEW p \in PEs, RolledBack(p), Acting(p), NEW i \in Ids
      PROVE  Latest(RoundSteps(step), part[p], mem[p][i])'
  <2>1. Latest(RoundSteps(step), part[p], mem[p][i])
    BY <1>5 DEF MemBack
  <2>2. QED
    BY <1>1, <1>4, <2>1 DEF Latest
<1>6. QED
  BY <1>1, <1>2, <1>3, <1>5 DEF MemBack

(* A PE that learns of the death has restored what it computes with.       *)
LEMMA LearnMem ==
    ASSUME IInv, MemBack, NEW p \in alive, pc[p] # "done", stage.op = "rollback",
           UNCHANGED progress, pc' = [pc EXCEPT ![p] = "done"],
           view' = [view EXCEPT ![p] = AfterDeath(p, stage.dead)],
           \A q \in PEs \ {p} : part'[q] = part[q] /\ mem'[q] = mem[q],
           stage.dead \in Rows /\ Acting(p)' =>
               \A i \in Ids : Latest(RoundSteps(step), part'[p], mem'[p][i])
    PROVE  MemBack'
<1>1. /\ stage' = stage /\ alive' = alive /\ step' = step /\ program' = program
      /\ alive \subseteq PEs /\ p \in PEs /\ view \in [PEs -> View] /\ pc \in [PEs -> Places]
  BY DEF progress, IInv, Typed, ProgressTyped, PesTyped
<1>2. PEs' = PEs /\ Spares' = Spares /\ plan' = plan /\ Ids' = Ids /\ Spares \in Nat
  BY <1>1, Frame, Constants DEF IInv, Typed, ProgressTyped
<1>3. RoundSteps(step)' = RoundSteps(step)
  BY <1>1, <1>2 DEF RoundSteps
<1>4. /\ \A q \in PEs \ {p} : view'[q] = view[q] /\ pc'[q] = pc[q]
      /\ view'[p].num = view[p].num - 1 /\ view[p].num \in 1 .. Spares
  BY <1>1, Chosen DEF IInv
<1>5. \A q \in alive : view'[q].num = Spares => view'[q].active = Rows
  BY <1>1, <1>2, <1>4 DEF MemBack
<1>6. ASSUME stage.dead \in Rows, NEW q \in PEs, RolledBack(q)', Acting(q)', NEW i \in Ids
      PROVE  Latest(RoundSteps(step), part'[q], mem'[q][i])
  <2>1. CASE q = p
    BY <1>6, <2>1
  <2>2. CASE q # p
    BY <1>1, <1>4, <1>6, <2>2 DEF MemBack, RolledBack, Acting
  <2>3. QED
    BY <2>1, <2>2
<1>7. ASSUME stage.dead \in Rows, NEW q \in PEs, RolledBack(q)', Acting(q)', NEW i \in Ids
      PROVE  Latest(RoundSteps(step), part[q], mem[q][i])'
  BY <1>3, <1>6, <1>7 DEF Latest
<1>8. QED
  BY <1>1, <1>2, <1>5, <1>7 DEF MemBack

(* The PEs that compute restore their own shadow memories.                 *)
LEMMA RollBackMem ==
    ASSUME SingleDeath, IInv, Copies, MemBack, NEW p \in PEs, RollBack(p)
    PROVE  MemBack'
<1>1. /\ stage.op = "rollback" /\ pc[p] = "call" /\ pc' = [pc EXCEPT ![p] = "done"] /\ part' = part
      /\ view' = [view EXCEPT ![p] = AfterDeath(p, stage.dead)] /\ UNCHANGED progress
      /\ stage.dead \in view[p].active => p \in view[p].active
      /\ mem' = IF stage.dead \in view[p].active
                THEN [mem EXCEPT ![p] = Restored(p, shadow[p], shadow_mem_tail[p])] ELSE mem
  BY DEF RollBack, Goto, RoleOf, role
<1>2. /\ p \in alive /\ Rows \subseteq view[p].active /\ Rows \subseteq PEs
      /\ mem \in [PEs -> [Ids -> Data]] /\ stage' = stage /\ alive' = alive
      /\ Spares \in Nat /\ Regions \in Nat /\ step \in 0 .. Len(plan) /\ Len(plan) \in Nat
      /\ program \in Programs
  BY <1>1, InCallAlive, Numbering, Constants
  DEF progress, IInv, Parts, Typed, ProgressTyped, MemoryTyped
<1>3. ASSUME stage.dead \in Rows, NEW i \in Ids
      PROVE  Latest(RoundSteps(step), part'[p], mem'[p][i])
  <2>1. Deaths(step) = 1
    <3>1. step # 0 /\ plan[step] = "death"
      BY <1>1 DEF Copies, Timing
    <3>2. Deaths(step) \in Nat /\ Deaths(step - 1) \in Nat
          /\ Deaths(step - 1 + 1) = Deaths(step - 1) + IF plan[step - 1 + 1] = "death" THEN 1 ELSE 0
      <4>1. step - 1 \in 0 .. Len(plan) /\ step - 1 < Len(plan)
        BY <1>2, <3>1
      <4>2. QED
        BY <1>2, <4>1, CountDeaths
    <3>3. Deaths(step) = Deaths(step - 1) + 1
      <4>1. step - 1 + 1 = step
        BY <1>2
      <4>2. QED
        BY <3>1, <3>2, <4>1
    <3>4. Deaths(step) <= 1
      <4>1. DOMAIN plan = 1 .. Len(plan) /\ IsFiniteSet(1 .. Len(plan))
        <5>1. plan \in Seq({"round", "death"})
          BY <1>2, Constants
        <5>2. QED
          BY <1>2, <5>1, FS_Interval
      <4>2. DeathSteps(step) \subseteq {j \in DOMAIN plan : plan[j] = "death"}
        BY <1>2, <4>1 DEF DeathSteps
      <4>3. IsFiniteSet({j \in DOMAIN plan : plan[j] = "death"})
        BY <4>1, FS_Subset
      <4>4. /\ Cardinality(DeathSteps(step)) <= Cardinality({j \in DOMAIN plan : plan[j] = "death"})
            /\ Cardinality({j \in DOMAIN plan : plan[j] = "death"}) \in Nat
        BY <4>2, <4>3, FS_Subset, FS_CardinalityType
      <4>5. Cardinality({j \in DOMAIN plan : plan[j] = "death"}) <= 1
        BY <1>2 DEF SingleDeath, plan
      <4>6. QED
        BY <3>2, <4>4, <4>5 DEF Deaths
    <3>5. QED
      BY <3>2, <3>3, <3>4
  <2>2. view[p].num = Spares
    BY <1>1, <1>2, <2>1 DEF IInv, Numbers, RolledBack
  <2>3. p \in Rows /\ Acting(p)
    BY <1>1, <1>2, <1>3, <2>2 DEF MemBack, Acting
  <2>4. Len(shadow[p]) = Regions /\ shadow_mem_tail[p] = Regions
    <3>1. ReservedOwn(p) = Regions
      BY <1>1, <1>2 DEF ReservedOwn, Sender, IInv, Calls
    <3>2. QED
      BY <2>3, <3>1 DEF IInv, Shadows
  <2>5. i < Regions /\ i \in Nat
    BY <1>2 DEF Ids
  <2>6. mem'[p][i] = shadow[p][i + 1]
    BY <1>1, <1>2, <1>3, <2>4, <2>5 DEF Restored
  <2>7. Latest(Kept(p, i), part[p], shadow[p][i + 1])
    BY <2>3, <2>4, <2>5 DEF Copies, ShadowData
  <2>8. Kept(p, i) = RoundSteps(step)
    BY <1>1 DEF Kept
  <2>9. QED
    BY <1>1, <2>6, <2>7, <2>8
<1>4. \A q \in PEs \ {p} : part'[q] = part[q] /\ mem'[q] = mem[q]
  BY <1>1, <1>2
<1>5. QED
  BY <1>1, <1>2, <1>3, <1>4, LearnMem

(* The PE that takes over restores the row of the dead one.                *)
LEMMA TakeOverMem ==
    ASSUME IInv, Copies, MemBack, NEW s \in Storing, TakeOver(s)
    PROVE  MemBack'
<1> SUFFICES ASSUME NEW row, row = table[s][stage.dead],
                    NEW data, data = [i \in 1 .. Len(row) |-> row[i].data]
             PROVE  MemBack'
  OBVIOUS
<1>1. /\ pc[s] = "restore" /\ pc' = [pc EXCEPT ![s] = "done"] /\ UNCHANGED progress
      /\ view' = [view EXCEPT ![s] = AfterDeath(s, stage.dead)]
      /\ part' = IF part[s] = chosen_pe(s) THEN [part EXCEPT ![s] = stage.dead] ELSE part
      /\ mem' = IF part[s] = chosen_pe(s)
                THEN [mem EXCEPT ![s] = Restored(s, data, Len(row))] ELSE mem
  BY DEF TakeOver, Goto
<1>2. /\ s \in alive /\ s \in PEs /\ s \notin view[s].active /\ stage.op = "rollback"
      /\ stage.dead \in Rows /\ stage.dead \in view[s].active
      /\ part[s] = s /\ part \in [PEs -> PEs] /\ mem \in [PEs -> [Ids -> Data]]
      /\ view \in [PEs -> View] /\ Regions \in Nat
  <2>1. s \in PEs /\ Regions \in Nat
    BY Numbering, Constants DEF IInv, Typed, ProgressTyped
  <2>2. s \in alive /\ MayBe(s, "restore")
    BY <1>1, <2>1, InCallAlive DEF IInv
  <2>3. s \notin view[s].active /\ stage.op = "rollback" /\ stage.dead \in Rows
    BY <2>2 DEF MayBe, Filer
  <2>4. QED
    BY <2>1, <2>2, <2>3 DEF IInv, Parts, Typed, PesTyped, MemoryTyped
<1>3. \A q \in PEs \ {s} : part'[q] = part[q] /\ mem'[q] = mem[q]
  BY <1>1, <1>2
<1>4. ASSUME Acting(s)', NEW i \in Ids
      PROVE  Latest(RoundSteps(step), part'[s], mem'[s][i])
  <2>1. view'[s].active = view[s].active \union {chosen_pe(s)}
    BY <1>1, <1>2, Chosen DEF IInv
  <2>2. part[s] = chosen_pe(s)
    BY <1>2, <1>4, <2>1 DEF Acting
  <2>3. Len(row) = Regions /\ Latest(RoundSteps(step), stage.dead, row[i + 1].data)
    BY <2>2, TakenRow
  <2>4. i < Regions /\ i + 1 \in 1 .. Len(row)
    BY <1>2, <2>3 DEF Ids
  <2>5. mem'[s][i] = row[i + 1].data
    <3>1. mem'[s] = Restored(s, data, Len(row))
      BY <1>1, <1>2, <2>2
    <3>2. Restored(s, data, Len(row))[i] = data[i + 1]
      BY <2>3, <2>4 DEF Restored
    <3>3. QED
      BY <2>4, <3>1, <3>2
  <2>6. part'[s] = stage.dead
    BY <1>1, <1>2, <2>2
  <2>7. QED
    BY <2>3, <2>5, <2>6
<1>5. QED
  BY <1>1, <1>2, <1>3, <1>4, LearnMem

(* No PE has rolled back when a barrier has just been passed.              *)
LEMMA BarrierMem ==
    ASSUME IInv, MemBack, Barrier
    PROVE  MemBack'
<1>1. PICK st, by : Enter(st, by) /\ by = alive' /\ alive' \subseteq alive
  BY DEF Barrier, NextRegion, NextRound, Die, Drain
<1>2. /\ program' = program /\ view' = view
      /\ pc' = [p \in PEs |-> IF p \in alive' THEN "call" ELSE "done"]
  BY <1>1 DEF Enter, pes
<1>3. PEs' = PEs /\ Spares' = Spares
  BY <1>2, Frame
<1>4. \A p \in PEs : ~(RolledBack(p)' /\ Acting(p)')
  BY <1>2 DEF RolledBack, Acting
<1>5. QED
  BY <1>1, <1>2, <1>3, <1>4 DEF MemBack

(* Every step keeps the memory that was restored.                          *)
LEMMA StepMem == SingleDeath /\ IInv /\ Copies /\ MemBack /\ [Next]_vars => MemBack'
<1> SUFFICES ASSUME SingleDeath, IInv, Copies, MemBack, [Next]_vars
             PROVE  MemBack'
  OBVIOUS
<1>1. CASE UNCHANGED vars
  BY <1>1, MemKept DEF vars, RolledBack, progress, memory
<1>2. ASSUME NEW p \in PEs, Step(p)
      PROVE  MemBack'
  <2>1. CASE RollBack(p)
    BY <2>1, RollBackMem
  <2>2. CASE p \in Storing /\ TakeOver(p)
    BY <2>2, TakeOverMem
  <2>3. CASE ~RollBack(p) /\ ~(p \in Storing /\ TakeOver(p))
    <3>1. /\ pc[p] # "done"
          /\ \/ ComputingStep(p) /\ ~RollBack(p)
             \/ p \in Storing /\ StorageStep(p) /\ ~TakeOver(p)
      BY <1>2, <2>3 DEF Step
    <3>2. UNCHANGED <<progress, pes, mem>> /\ \A q \in PEs : RolledBack(q)' <=> RolledBack(q)
      BY <3>1, WithinStage
    <3>3. QED
      BY <3>2, MemKept
  <2>4. QED
    BY <2>1, <2>2, <2>3
<1>3. ASSUME NEW m \in posted, Deliver(m)
      PROVE  MemBack'
  BY <1>3, MemKept DEF Deliver, RolledBack, progress, memory
<1>4. CASE Barrier
  BY <1>4, BarrierMem
<1>5. QED
  BY <1>1, <1>2, <1>3, <1>4 DEF Next

(* The latest round is the last before the stage that is going on.         *)
LEMMA LatestRound ==
    ASSUME IInv, Timing, stage.op = "rollback", NEW r, NEW d, Latest(RoundSteps(step), r, d)
    PROVE  d = [row |-> r, work |-> LastRound]
<1>1. /\ step \in Nat \ {0} /\ plan[step] = "death" /\ step \in 0 .. Len(plan) /\ Len(plan) \in Nat
      /\ plan \in Seq({"round", "death"}) /\ plan[1] = "round"
  <2>1. step # 0 /\ plan[step] = "death"
    BY DEF Timing
  <2>2. step \in 0 .. Len(plan) /\ Len(plan) \in Nat /\ plan \in Seq({"round", "death"})
    BY Constants DEF IInv, Typed, ProgressTyped
  <2>3. Head(plan) = "round"
    BY CheckpointAssumption DEF plan, IInv, Typed, ProgressTyped
  <2>4. plan # << >>
    BY <2>1, <2>2
  <2>5. Head(plan) = plan[1]
    BY <2>2, <2>4
  <2>6. QED
    BY <2>1, <2>2, <2>3, <2>5
<1>2. 1 \in RoundSteps(step)
  BY <1>1 DEF RoundSteps
<1>3. PICK w \in RoundSteps(step) :
        (\A v \in RoundSteps(step) : v <= w) /\ d = [row |-> r, work |-> w]
  BY <1>2 DEF Latest
<1>4. w \in 1 .. step - 1 /\ plan[w] = "round"
  BY <1>1, <1>3 DEF RoundSteps
<1>5. \A v \in w + 1 .. step - 1 : plan[v] # "round"
  BY <1>1, <1>3, <1>4 DEF RoundSteps
<1>6. ASSUME NEW u \in 1 .. step - 1, plan[u] = "round", \A v \in u + 1 .. step - 1 : plan[v] # "round"
      PROVE  u = w
  <2>1. u <= w
    BY <1>1, <1>3, <1>6 DEF RoundSteps
  <2>2. ~(u < w)
    BY <1>1, <1>4, <1>6
  <2>3. QED
    BY <1>1, <1>4, <2>1, <2>2
<1>7. LastRound = w
  BY <1>4, <1>5, <1>6 DEF LastRound
<1>8. QED
  BY <1>3, <1>7

(* The PEs that compute after a rollback, and the one that has taken over, *)
(* go on from one and the same checkpoint: the last that was begun.        *)
THEOREM OneCheckpointAfterwards ==
    ASSUME SingleDeath
    PROVE  AnySpec /\ IsPlain => []OneCheckpoint
<1>1. AnyInit /\ IsPlain => IInv /\ Copies /\ MemBack
  <2>1. Init => MemBack
    BY DEF Init, MemBack
  <2>2. QED
    BY <2>1, InitInv, InitCopies DEF AnyInit, IsPlain
<1>2. (IInv /\ Copies /\ MemBack) /\ [AnyNext]_<<vars, OnlyMatmul>> => (IInv /\ Copies /\ MemBack)'
  <2> SUFFICES ASSUME IInv, Copies, MemBack, [AnyNext]_<<vars, OnlyMatmul>>
               PROVE  IInv' /\ Copies' /\ MemBack'
    OBVIOUS
  <2>1. [Next]_vars
    BY SomeoneAlive DEF AnyNext
  <2>2. QED
    BY <2>1, NextInv, StepCopies, StepMem, SingleDeath
<1>3. IInv /\ Copies /\ MemBack => OneCheckpoint
  <2> SUFFICES ASSUME IInv, Copies, MemBack, StageOver, stage.op = "rollback", stage.dead \in Rows,
                      NEW p \in alive, role(p) = "active", NEW i \in Ids
               PROVE  mem[p][i] = [row |-> part[p], work |-> LastRound]
    BY SomeoneAlive DEF OneCheckpoint, RollbackConsistent
  <2>1. p \in PEs /\ Acting(p) /\ RolledBack(p)
    BY DEF IInv, Typed, ProgressTyped, Acting, role, RoleOf, RolledBack, StageOver
  <2>2. QED
    BY <2>1, LatestRound DEF MemBack, Copies
<1>4. QED
  BY <1>1, <1>2, <1>3, PTL DEF AnySpec

=============================================================================
