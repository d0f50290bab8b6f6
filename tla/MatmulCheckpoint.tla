-------------------------- MODULE MatmulCheckpoint --------------------------
(***************************************************************************)
(* The checkpoint libraries of resilience-examples/*_matmul.c, driven by   *)
(* the programs of their main()s (module MatmulMains).                     *)
(*                                                                         *)
(* They differ from the library of checkpoint.c in what makes a carrier    *)
(* visible.  The sender claims a slot, puts the carrier, and after a fence *)
(* sets the slot's flag; then it raises the signal if that is down.  The   *)
(* receiver waits for the flag of the slot it is about to read.  The       *)
(* library of checkpoint_matmul.c, an earlier one, has no flag: it waits   *)
(* until the last field of the slot, a random number, is not the one it    *)
(* has last seen there.  A region is sent in pieces, one carrier each.     *)
(* After every stage the program raises the signal itself and lets the     *)
(* storage PEs read what is left.  In two-copy mode only two PEs store;    *)
(* after a rollback 2cp_rb_matmul.c copies the table to a third.           *)
(*                                                                         *)
(* The programs do not kill the PE they roll back for: it goes on.         *)
(***************************************************************************)
EXTENDS Integers, Sequences, FiniteSets

CONSTANTS
    Originals,             \* how many PEs compute: cpr_num_active_pes
    MatmulPrograms,        \* the main()s
    QueueLen,              \* CPR_STARTING_QUEUE_LEN
    Rands                  \* what rand() returns

DataSize == 2              \* CPR_CARR_DATA_SIZE, in the units of program.count

VARIABLES
    program,           \* the program that runs
    stage, step,       \* what it does between two barriers; how much of its plan is begun
    pc, calls,         \* where a PE is in its call, and which call of the stage it is
    at, piece,         \* the storage PE it sends to, and the piece
    part,              \* cpr_pe[me], by which it is called
    view,              \* its copy of the arrays that describe the PEs
    mem,               \* the memory it checkpoints: regions of pieces
    shadow,            \* cpr_shadow_mem: for each region, its pieces ...
    shadow_mem_tail,   \* ... and cpr_shadow_mem_tail
    queue,             \* the two rings of each PE that does not compute
    table,             \* cpr_checkpoint_table: rows of [id, pieces]
    posted,            \* carriers that are not, or not wholly, there
    info,              \* cpr_sig_table_info, cpr_table_info_tail, ..._num_carr
    copy               \* i, j and k of shmem_cpr_copy_check_table

progress == <<program, stage, step>>
sending == <<calls, at, piece>>
pes == <<part, view>>
memory == <<mem, shadow, shadow_mem_tail>>
copying == <<info, copy>>
vars == <<progress, pc, sending, pes, memory, queue, table, posted, copying>>

PEs == 0 .. Originals + program.spes - 1
Rows == 0 .. Originals - 1
Spares == PEs \ Rows
Ids == 0 .. program.regions - 1
Pieces == 1 + (program.count - 1) \div DataSize
PieceNums == 0 .. Pieces - 1
plan == program.plan

Unset == -1                \* memory that nobody has written
NoData == [row |-> Unset, work |-> 0]
Data == [row : PEs, work : 0 .. Len(plan)] \union {NoData}
PieceSet == [data : Data, offset : PieceNums \union {Unset}]
Blank == [k \in PieceNums |-> [data |-> NoData, offset |-> Unset]]

Kinds == {"resrv", "check"}
Empty == [pe_num |-> 0, id |-> 0, piece |-> 0, data |-> NoData, rand |-> 0]
Carriers == [pe_num : Rows, id : Ids, piece : PieceNums, data : Data, rand : Rands \union {1}]
Ring == [head : Nat, tail : Nat, sig : {0, 1},
         slots : [0 .. QueueLen - 1 -> Carriers \union {Empty}],
         randomness : [0 .. QueueLen - 1 -> Rands \union {0, 1, Unset}]]
Roles == {"active", "storage", "dormant"}

TypeOK ==
    /\ program \in MatmulPrograms /\ step \in 0 .. Len(plan)
    /\ stage \in [op : {"reserve", "rdrain", "check", "cdrain", "end"}]
               \union [op : {"rollback"}, dead : Rows]
    /\ pc \in [PEs -> {"call", "claim", "signal", "set", "rwait", "rloop", "rclear",
                       "cwait", "cloop", "restore", "enter", "sTail", "sNum", "sPiece",
                       "cTail", "cTailAck", "cNum", "cNumAck", "cPiece", "done"}]
    /\ calls \in [PEs -> 0 .. program.regions]
    /\ at \in [PEs -> 1 .. program.spes] /\ piece \in [PEs -> PieceNums]
    /\ part \in [PEs -> PEs]
    /\ view \in [PEs -> [roles : [PEs -> Roles], dead : SUBSET Rows,
                         storages : Seq(PEs), num : 0 .. program.spes]]
    /\ mem \in [PEs -> [Ids -> [PieceNums -> Data]]]
    /\ \A p \in PEs : shadow[p] \in Seq([PieceNums -> PieceSet])
    /\ shadow_mem_tail \in [PEs -> 0 .. program.regions]
    /\ queue \in [Kinds -> [Spares -> Ring]]
    /\ \A s \in Spares, r \in Rows :
        table[s][r] \in Seq([id : Ids, pieces : [PieceNums -> PieceSet]])
    /\ posted \in SUBSET [to : Spares, kind : Kinds, slot : 0 .. QueueLen - 1,
                          carrier : Carriers, put : BOOLEAN]
    /\ info \in [PEs -> [sig : {0, 1}, tail : 0 .. program.regions, num : 0 .. Pieces]]
    /\ copy \in [PEs -> [i : Rows, j : Nat, k : PieceNums, tail : Nat, num : Nat]]

-----------------------------------------------------------------------------
(* shmem_cpr_set_pe_type: in two-copy mode the first and the last of more  *)
(* than two spare PEs store, and those between them are dormant.           *)
storage_pes ==
    IF program.mode = "two" /\ program.spes > 2
    THEN <<Originals, Originals + program.spes - 1>>
    ELSE [i \in 1 .. program.spes |-> Originals + i - 1]

set_pe_type ==
    [roles |-> [p \in PEs |->
        IF p \in Rows THEN "active"
        ELSE IF \E i \in DOMAIN storage_pes : storage_pes[i] = p THEN "storage"
        ELSE "dormant"],
     dead |-> {}, storages |-> storage_pes, num |-> Len(storage_pes)]

(* shmem_cpr_init leaves the flags down; in the earlier library they are   *)
(* what malloc returns, which need not be zero.                            *)
randomness0 == IF program.early /\ ~program.fresh THEN Unset ELSE 0

role(p) == view[p].roles[p]                            \* cpr_pe_role

(* Who has nothing to do in a stage, a dormant PE or in a drain one that   *)
(* computes, goes straight to the next barrier.                            *)
Idle(p, st) ==
    \/ role(p) = "dormant" /\ st.op # "rollback"
    \/ role(p) = "active" /\ st.op \in {"rdrain", "cdrain", "end"}
Called(st) == [p \in PEs |-> IF Idle(p, st) THEN "done" ELSE "call"]

(* Where shmem_cpr_copy_check_table begins a row.                          *)
FirstRow(i) == [i |-> i, j |-> 0, k |-> 0, tail |-> 0, num |-> 0]

Init ==
    /\ program \in MatmulPrograms
    /\ stage = [op |-> "reserve"] /\ step = 0
    /\ calls = [p \in PEs |-> 0]
    /\ at = [p \in PEs |-> 1] /\ piece = [p \in PEs |-> 0]
    /\ part = [p \in PEs |-> p]
    /\ view = [p \in PEs |-> set_pe_type] /\ pc = Called(stage)
    /\ mem = [p \in PEs |-> [i \in Ids |-> [k \in PieceNums |-> [row |-> p, work |-> 0]]]]
    /\ shadow = [p \in PEs |-> << >>] /\ shadow_mem_tail = [p \in PEs |-> 0]
    /\ queue = [d \in Kinds |-> [s \in Spares |->
                 [head |-> 0, tail |-> 0, sig |-> 0,
                  slots |-> [i \in 0 .. QueueLen - 1 |-> Empty],
                  randomness |-> [i \in 0 .. QueueLen - 1 |-> randomness0]]]]
    /\ table = [s \in Spares |-> [r \in Rows |-> << >>]]
    /\ posted = {}
    /\ info = [p \in PEs |-> [sig |-> 0, tail |-> 0, num |-> 0]]
    /\ copy = [p \in PEs |-> FirstRow(0)]

Goto(p, from, to) == pc[p] = from /\ pc' = [pc EXCEPT ![p] = to]
Pending(d, s) == queue[d][s].head < queue[d][s].tail
shmem_cpr_pe_num(p) == part[p]

(* The end of a call.  Where main() has a region for each stripe it calls  *)
(* the library once for each.                                              *)
Return(p, from) ==
    /\ Goto(p, from, IF stage.op \in {"reserve", "check"} /\ calls[p] + 1 < program.regions
                     THEN "call" ELSE "done")
    /\ calls' = [calls EXCEPT ![p] = IF stage.op \in {"reserve", "check"} THEN @ + 1 ELSE @]

-----------------------------------------------------------------------------
(* A computing PE sends carriers to the storage PEs on its list.           *)
Sends(p, op) == stage.op = op /\ role(p) = "active"
Kind == IF stage.op = "reserve" THEN "resrv" ELSE "check"
To(p) == view[p].storages[at[p]]
Carrier(p, r) ==
    IF stage.op = "reserve"
    THEN [pe_num |-> part[p], id |-> calls[p], piece |-> 0, data |-> NoData, rand |-> r]
    ELSE [pe_num |-> part[p], id |-> calls[p], piece |-> piece[p],
          data |-> mem[p][calls[p]][piece[p]], rand |-> r]

(* The loop over the storage PEs, from the i-th on.                        *)
SendFrom(p, from, i) ==
    LET more == {j \in i .. view[p].num : view[p].storages[j] \notin view[p].dead}
    IN  /\ piece' = [piece EXCEPT ![p] = 0]
        /\ IF more # {}
           THEN /\ Goto(p, from, "claim")
                /\ at' = [at EXCEPT ![p] = CHOOSE j \in more : \A k \in more : j <= k]
                /\ UNCHANGED calls
           ELSE Return(p, from) /\ UNCHANGED at

(* The loop over the pieces, within it.                                    *)
LastPiece(p) == stage.op = "reserve" \/ piece[p] = Pieces - 1
NextPiece(p, from) ==
    /\ Goto(p, from, "claim")
    /\ piece' = [piece EXCEPT ![p] = @ + 1]
    /\ UNCHANGED <<calls, at>>

AfterSignal(p, from) ==
    IF program.early \/ LastPiece(p) THEN SendFrom(p, from, at[p] + 1) ELSE NextPiece(p, from)

shmem_cpr_is_new_reservation(p) == calls[p] >= shadow_mem_tail[p]

Reserve(p) ==
    /\ pc[p] = "call" /\ Sends(p, "reserve") /\ shmem_cpr_is_new_reservation(p)
    /\ shadow' = [shadow EXCEPT ![p] = Append(@, Blank)]
    /\ shadow_mem_tail' = [shadow_mem_tail EXCEPT ![p] = @ + 1]
    /\ SendFrom(p, "call", 1)
    /\ UNCHANGED <<progress, pes, mem, queue, table, posted, copying>>

(* Only rollback_matmul.c and its descendants note the offset of a piece   *)
(* in the PE's own copy as well.                                           *)
Checkpoint(p) ==
    LET saved == [k \in PieceNums |->
            [data |-> mem[p][calls[p]][k],
             offset |-> IF program.offsets THEN k ELSE shadow[p][calls[p] + 1][k].offset]]
    IN  /\ pc[p] = "call" /\ Sends(p, "check")
        /\ shadow' = [shadow EXCEPT ![p][calls[p] + 1] = saved]
        /\ SendFrom(p, "call", 1)
        /\ UNCHANGED <<progress, pes, mem, shadow_mem_tail, queue, table, posted, copying>>

(* Fetch and increment of the tail, the put, the fence, and the flag.      *)
Claim(p) ==
    LET q == queue[Kind][To(p)] IN
    /\ pc[p] = "claim"
    /\ IF program.early /\ ~LastPiece(p)
       THEN NextPiece(p, "claim")
       ELSE Goto(p, "claim", "signal") /\ UNCHANGED sending
    /\ queue' = [queue EXCEPT ![Kind][To(p)].tail = @ + 1]
    /\ \E r \in IF program.early THEN Rands ELSE {1} :
        posted' = posted \union
            {[to |-> To(p), kind |-> Kind, slot |-> q.tail % QueueLen,
              carrier |-> Carrier(p, r), put |-> FALSE]}
    /\ UNCHANGED <<progress, pes, memory, table, copying>>

TestSignal(p) ==
    /\ pc[p] = "signal"
    /\ \/ queue[Kind][To(p)].sig = 0 /\ Goto(p, "signal", "set") /\ UNCHANGED sending
       \/ queue[Kind][To(p)].sig # 0 /\ AfterSignal(p, "signal")
    /\ UNCHANGED <<progress, pes, memory, queue, table, posted, copying>>

SetSignal(p) ==
    /\ pc[p] = "set" /\ AfterSignal(p, "set")
    /\ queue' = [queue EXCEPT ![Kind][To(p)].sig = 1]
    /\ UNCHANGED <<progress, pes, memory, table, posted, copying>>

(* Faulty variant: no fence, the flag may be there before the carrier.     *)
Deliver_Unfenced(m) ==
    LET q == queue[m.kind][m.to] IN
    /\ posted' = (posted \ {m}) \union
        (IF m.put \/ program.early THEN {} ELSE {[m EXCEPT !.put = TRUE]})
    /\ queue' = [queue EXCEPT ![m.kind][m.to] =
        IF ~m.put /\ ~program.early
        THEN [q EXCEPT !.randomness[m.slot] = 1]
        ELSE [q EXCEPT !.slots[m.slot] = m.carrier]]
    /\ UNCHANGED <<progress, pc, sending, pes, memory, table, copying>>

(* The fence keeps the flag behind the put.                                *)
Deliver(m) ==
    LET q == queue[m.kind][m.to] IN
    /\ posted' = (posted \ {m}) \union
        (IF m.put \/ program.early THEN {} ELSE {[m EXCEPT !.put = TRUE]})
    /\ queue' = [queue EXCEPT ![m.kind][m.to] =
        IF m.put THEN [q EXCEPT !.randomness[m.slot] = 1]
                 ELSE [q EXCEPT !.slots[m.slot] = m.carrier]]
    /\ UNCHANGED <<progress, pc, sending, pes, memory, table, copying>>

-----------------------------------------------------------------------------
(* The receiver of a carrier.                                              *)
Head_(d, s) == queue[d][s].head % QueueLen
First(d, s) == queue[d][s].slots[Head_(d, s)]
Seen(d, s)  == queue[d][s].randomness[Head_(d, s)]

(* "almost making sure the carrier has arrived"                            *)
Arrived(d, s) == IF program.early THEN First(d, s).rand # Seen(d, s) ELSE Seen(d, s) # 0

(* What a slot held that has been read matters only where rand_num does.   *)
Taken(q) ==
    LET i == q.head % QueueLen IN
    IF program.early
    THEN [q EXCEPT !.head = @ + 1, !.randomness[i] = q.slots[i].rand]
    ELSE [q EXCEPT !.head = @ + 1, !.randomness[i] = 0, !.slots[i] = Empty]

(* Faulty variant: main() does not raise the signal.                       *)
CallReserve_Unsignalled(s) ==
    /\ stage.op \in {"reserve", "rdrain"} /\ role(s) = "storage"
    /\ Goto(s, "call", "rwait")
    /\ UNCHANGED <<progress, sending, pes, memory, queue, table, posted, copying>>

(* shmem_cpr_reserve on a storage PE.  Before the second call main() has   *)
(* raised the signal.                                                      *)
CallReserve(s) ==
    /\ stage.op \in {"reserve", "rdrain"} /\ role(s) = "storage"
    /\ Goto(s, "call", "rwait")
    /\ queue' = IF stage.op = "rdrain" THEN [queue EXCEPT !["resrv"][s].sig = 1] ELSE queue
    /\ UNCHANGED <<progress, sending, pes, memory, table, posted, copying>>

WaitReserve(s) ==
    /\ Goto(s, "rwait", "rloop")
    /\ queue["resrv"][s].sig # 0
    /\ UNCHANGED <<progress, sending, pes, memory, queue, table, posted, copying>>

FileReservation(s) ==
    LET c == First("resrv", s) IN
    /\ Goto(s, "rloop", "rloop")
    /\ Pending("resrv", s) /\ Arrived("resrv", s)
    /\ queue' = [queue EXCEPT !["resrv"][s] = Taken(@)]
    /\ table' = [table EXCEPT ![s][c.pe_num] = Append(@, [id |-> c.id, pieces |-> Blank])]
    /\ UNCHANGED <<progress, sending, pes, memory, posted, copying>>

EndReserve(s) ==
    /\ Goto(s, "rloop", "rclear")
    /\ ~Pending("resrv", s)
    /\ UNCHANGED <<progress, sending, pes, memory, queue, table, posted, copying>>

ClearSignal(s) ==
    /\ pc[s] = "rclear"
    /\ IF stage.op \in {"reserve", "rdrain"}
       THEN Return(s, "rclear") /\ UNCHANGED <<at, piece>>
       ELSE Goto(s, "rclear", "cwait") /\ UNCHANGED sending
    /\ queue' = [queue EXCEPT !["resrv"][s].sig = 0]
    /\ UNCHANGED <<progress, pes, memory, table, posted, copying>>

(* shmem_cpr_checkpoint on a storage PE.                                   *)
CallCheckpoint(s) ==
    /\ stage.op \in {"check", "cdrain", "end"} /\ role(s) = "storage"
    /\ Goto(s, "call", IF Pending("resrv", s) THEN "rwait" ELSE "cwait")
    /\ queue' = IF stage.op = "cdrain" THEN [queue EXCEPT !["check"][s].sig = 1] ELSE queue
    /\ UNCHANGED <<progress, sending, pes, memory, table, posted, copying>>

WaitCheck(s) ==
    /\ Goto(s, "cwait", "cloop")
    /\ queue["check"][s].sig # 0
    /\ UNCHANGED <<progress, sending, pes, memory, queue, table, posted, copying>>

FileData(s) ==
    LET c == First("check", s) IN
    /\ Goto(s, "cloop", "cloop")
    /\ Pending("check", s) /\ Arrived("check", s)
    /\ queue' = [queue EXCEPT !["check"][s] = Taken(@)]
    /\ table' = [table EXCEPT ![s][c.pe_num][c.id + 1].pieces[c.piece] =
                    [data |-> c.data, offset |-> c.piece]]
    /\ UNCHANGED <<progress, sending, pes, memory, posted, copying>>

EndCheckpoint(s) ==
    /\ pc[s] = "cloop" /\ ~Pending("check", s)
    /\ IF stage.op = "rollback"
       THEN Goto(s, "cloop", "restore") /\ UNCHANGED sending
       ELSE Return(s, "cloop") /\ UNCHANGED <<at, piece>>
    /\ UNCHANGED <<progress, pes, memory, queue, table, posted, copying>>

-----------------------------------------------------------------------------
(* shmem_cpr_rollback, called by every PE with shmem_cpr_pe_num(me).       *)
chosen_pe(p) == view[p].storages[view[p].num]
Candidates(p) == {i \in Spares : view[p].roles[i] = "dormant"}
candid_storage(p) == CHOOSE i \in Candidates(p) : \A j \in Candidates(p) : i <= j

(* Who copies the table; only 2cp_rb_matmul.c has more than a stub.        *)
Copies(p) ==
    /\ program.copies /\ program.mode = "two" /\ Candidates(p) # {}
    /\ shmem_cpr_pe_num(p) \in {candid_storage(p), view[p].storages[1]}

(* In two-copy mode the last storage PE is replaced if the variable        *)
(* copy_table_success is not 0: it is SUCCESS, 0, on the PEs that copy and *)
(* never set on the others.                                                *)
AfterDeath(p, d) ==
    LET v == [view[p] EXCEPT !.roles[chosen_pe(p)] = "active", !.dead = @ \union {d}]
    IN  IF program.mode = "many" THEN {[v EXCEPT !.num = @ - 1]}
        ELSE IF Copies(p) \/ Candidates(p) = {} THEN {v}
        ELSE {v, [v EXCEPT !.storages[v.num] = candid_storage(p)]}

(* What the pieces of a region restore: each is written where its offset   *)
(* says, and of the last count % DataSize items: none if they fill it.     *)
Restores(old, pieces, offset) ==
    [k \in PieceNums |->
        LET onto == {j \in PieceNums : offset[j] = k
                        /\ (j < Pieces - 1 \/ program.count % DataSize # 0)}
        IN  IF onto = {} THEN old[k]
            ELSE pieces[CHOOSE j \in onto : \A i \in onto : i <= j].data]

(* Nobody knows where an offset points that was never set.                 *)
Offsets(pieces) ==
    {o \in [PieceNums -> PieceNums \union {Unset}] :
        \A k \in PieceNums : pieces[k].offset # Unset => o[k] = pieces[k].offset}

RollBack(p) ==
    LET d == stage.dead IN
    /\ stage.op = "rollback" /\ shmem_cpr_pe_num(p) # d /\ role(p) = "active"
    /\ Goto(p, "call", "done")
    /\ \E offset \in [1 .. shadow_mem_tail[p] -> UNION {Offsets(shadow[p][i]) : i \in 1 .. shadow_mem_tail[p]}] :
        /\ \A i \in DOMAIN offset : offset[i] \in Offsets(shadow[p][i])
        /\ mem' = [mem EXCEPT ![p] = [i \in Ids |->
                     IF i < shadow_mem_tail[p]
                     THEN Restores(mem[p][i], shadow[p][i + 1], offset[i + 1])
                     ELSE mem[p][i]]]
    /\ \E v \in AfterDeath(p, d) : view' = [view EXCEPT ![p] = v]
    /\ UNCHANGED <<progress, sending, part, shadow, shadow_mem_tail, queue, table, posted, copying>>

(* The PE it is about does nothing, and goes on.                           *)
RollBackDead(p) ==
    /\ stage.op = "rollback" /\ shmem_cpr_pe_num(p) = stage.dead
    /\ Goto(p, "call", "done")
    /\ UNCHANGED <<progress, sending, pes, memory, queue, table, posted, copying>>

CallRollback(s) ==
    /\ stage.op = "rollback" /\ role(s) = "storage"
    /\ Goto(s, "call", IF ~Pending("check", s) THEN "restore"
                       ELSE IF Pending("resrv", s) THEN "rwait" ELSE "cwait")
    /\ UNCHANGED <<progress, sending, pes, memory, queue, table, posted, copying>>

(* The chosen PE takes the dead one's row as its shadow memory, whose tail *)
(* stays as it is, and restores it.                                        *)
TakeOver(s) ==
    LET d == stage.dead
        row == table[s][d]
        offset(i) == [k \in PieceNums |-> row[i].pieces[k].offset]
    IN  /\ Goto(s, "restore", IF Copies(s) THEN "enter" ELSE "done")
        /\ IF shmem_cpr_pe_num(s) = chosen_pe(s)
           THEN /\ shadow' = [shadow EXCEPT ![s] = [i \in DOMAIN row |-> row[i].pieces]]
                /\ mem' = [mem EXCEPT ![s] = [i \in Ids |->
                        IF i < Len(row) THEN Restores(mem[s][i], row[i + 1].pieces, offset(i + 1))
                                        ELSE mem[s][i]]]
                /\ part' = [part EXCEPT ![s] = d]
           ELSE UNCHANGED <<shadow, mem, part>>
        /\ \E v \in AfterDeath(s, d) : view' = [view EXCEPT ![s] = v]
        /\ UNCHANGED <<progress, sending, shadow_mem_tail, queue, table, posted, copying>>

RollBackDormant(p) ==
    /\ stage.op = "rollback" /\ role(p) = "dormant"
    /\ Goto(p, "call", IF Copies(p) THEN "enter" ELSE "done")
    /\ \E v \in AfterDeath(p, stage.dead) : view' = [view EXCEPT ![p] = v]
    /\ UNCHANGED <<progress, sending, part, memory, queue, table, posted, copying>>

-----------------------------------------------------------------------------
(* shmem_cpr_copy_check_table: the first storage PE sends its table to the *)
(* candidate, row by row, with a signal in each direction.  The storage PE *)
(* does not take its signal down, so after the first it no longer waits.   *)
Candidate(p) == candid_storage(p) = p
Other(p) == IF Candidate(p) THEN view[p].storages[1] ELSE candid_storage(p)

EnterCopy(p) ==
    /\ Goto(p, "enter", IF Candidate(p) THEN "cTail" ELSE "sTail")
    /\ info' = IF Candidate(p)
               THEN [info EXCEPT ![p] = [sig |-> 0, tail |-> 0, num |-> 0], ![Other(p)].sig = 1]
               ELSE [info EXCEPT ![p] = [sig |-> 0, tail |-> 0, num |-> 0]]
    /\ queue' = IF Candidate(p)
                THEN [d \in Kinds |-> [queue[d] EXCEPT ![p].randomness =
                        [i \in 0 .. QueueLen - 1 |-> 0]]]
                ELSE queue
    /\ UNCHANGED <<progress, sending, pes, memory, table, posted, copy>>

(* The loops over the regions of a row, and over the rows.                 *)
GoOn(p, from, c, row, region) ==
    \/ c.j < c.tail /\ Goto(p, from, region) /\ copy' = [copy EXCEPT ![p] = c]
    \/ /\ c.j >= c.tail /\ c.i < Originals - 1
       /\ Goto(p, from, row) /\ copy' = [copy EXCEPT ![p] = FirstRow(c.i + 1)]
    \/ /\ c.j >= c.tail /\ c.i = Originals - 1
       /\ Goto(p, from, "done") /\ UNCHANGED copy

SendTail(s) ==
    LET tail == Len(table[s][copy[s].i]) IN
    /\ pc[s] = "sTail" /\ info[s].sig = 1
    /\ info' = [info EXCEPT ![Other(s)] = [@ EXCEPT !.tail = tail, !.sig = 1]]
    /\ GoOn(s, "sTail", [copy[s] EXCEPT !.tail = tail], "sTail", "sNum")
    /\ UNCHANGED <<progress, sending, pes, memory, queue, table, posted>>

SendNum(s) ==
    /\ pc[s] = "sNum" /\ info[s].sig = 1
    /\ info' = [info EXCEPT ![Other(s)] = [@ EXCEPT !.num = Pieces, !.sig = 1]]
    /\ Goto(s, "sNum", "sPiece")
    /\ UNCHANGED <<progress, sending, pes, memory, queue, table, posted, copy>>

(* The piece after the one at hand, or the region after it.                *)
PieceDone(p, num, from, row, region) ==
    LET c == copy[p] IN
    IF c.k + 1 < num
    THEN Goto(p, from, from) /\ copy' = [copy EXCEPT ![p].k = @ + 1]
    ELSE GoOn(p, from, [c EXCEPT !.j = @ + 1, !.k = 0], row, region)

SendPiece(s) ==
    LET c == copy[s]
        to == Other(s)
        entry == table[s][c.i][c.j + 1]
    IN  /\ pc[s] = "sPiece"
        /\ queue' = [queue EXCEPT !["check"][to].tail = @ + 1]
        /\ posted' = posted \union
            {[to |-> to, kind |-> "check", slot |-> queue["check"][to].tail % QueueLen,
              put |-> FALSE, carrier |-> [pe_num |-> c.i, id |-> entry.id, piece |-> c.k,
                                          data |-> entry.pieces[c.k].data, rand |-> 1]]}
        /\ PieceDone(s, Pieces, "sPiece", "sTail", "sNum")
        /\ UNCHANGED <<progress, sending, pes, memory, table, info>>

ReadTail(p) ==
    /\ info[p].sig = 1
    /\ Goto(p, "cTail", "cTailAck")
    /\ copy' = [copy EXCEPT ![p].tail = info[p].tail]
    /\ UNCHANGED <<progress, sending, pes, memory, queue, table, posted, info>>

ReadNum(p) ==
    /\ info[p].sig = 1
    /\ Goto(p, "cNum", "cNumAck")
    /\ copy' = [copy EXCEPT ![p].num = info[p].num]
    /\ UNCHANGED <<progress, sending, pes, memory, queue, table, posted, info>>

(* The signal is taken down only after what it announced has been read.    *)
Acknowledge(p) ==
    /\ pc[p] \in {"cTailAck", "cNumAck"}
    /\ info' = [info EXCEPT ![p].sig = 0, ![Other(p)].sig = 1]
    /\ \/ GoOn(p, "cTailAck", copy[p], "cTail", "cNum") /\ UNCHANGED table
       \/ /\ Goto(p, "cNumAck", "cPiece")
          /\ table' = [table EXCEPT ![p][copy[p].i] =
                        Append(@, [id |-> copy[p].j, pieces |-> Blank])]
          /\ UNCHANGED copy
    /\ UNCHANGED <<progress, sending, pes, memory, queue, posted>>

(* Faulty variant: the head of the ring is not moved on.                   *)
CopyPiece_SameSlot(p) ==
    LET c == First("check", p) IN
    /\ pc[p] = "cPiece" /\ Arrived("check", p)
    /\ queue' = [queue EXCEPT !["check"][p].head = @]
    /\ table' = [table EXCEPT ![p][c.pe_num][c.id + 1].pieces[c.piece] =
                    [data |-> c.data, offset |-> c.piece]]
    /\ PieceDone(p, copy[p].num, "cPiece", "cTail", "cNum")
    /\ UNCHANGED <<progress, sending, pes, memory, posted, info>>

CopyPiece(p) ==
    LET c == First("check", p) IN
    /\ pc[p] = "cPiece" /\ Arrived("check", p)
    /\ queue' = [queue EXCEPT !["check"][p] = Taken(@)]
    /\ table' = [table EXCEPT ![p][c.pe_num][c.id + 1].pieces[c.piece] =
                    [data |-> c.data, offset |-> c.piece]]
    /\ PieceDone(p, copy[p].num, "cPiece", "cTail", "cNum")
    /\ UNCHANGED <<progress, sending, pes, memory, posted, info>>

-----------------------------------------------------------------------------
(* main().  The barrier at the end of a stage: all are there, all puts are *)
(* applied.                                                                *)
InCall == {p \in PEs : pc[p] # "done"}
StageOver == posted = {} /\ InCall = {}

Enter(st) ==
    /\ StageOver /\ stage' = st
    /\ pc' = Called(st)
    /\ calls' = [p \in PEs |-> 0]
    /\ UNCHANGED <<program, at, piece, pes, shadow, shadow_mem_tail, queue, table, posted, copying>>

(* The work between two steps of the plan: one more product on every       *)
(* computing PE.  checkpoint_matmul.c checkpoints before it works, and its *)
(* storage PEs work as well.                                               *)
Computed ==
    [p \in PEs |-> [i \in Ids |-> [k \in PieceNums |->
        IF (role(p) = "active" \/ program.early) /\ ~(program.early /\ step = 0)
        THEN [mem[p][i][k] EXCEPT !.work = @ + 1] ELSE mem[p][i][k]]]]

DrainReservations ==
    /\ ~program.early /\ stage.op = "reserve"
    /\ Enter([op |-> "rdrain"])
    /\ UNCHANGED <<step, mem>>

DrainCheckpoints ==
    /\ ~program.early /\ stage.op = "check"
    /\ Enter([op |-> "cdrain"])
    /\ UNCHANGED <<step, mem>>

BetweenSteps ==
    \/ stage.op = "rollback"
    \/ stage.op \in (IF program.early THEN {"reserve", "check"} ELSE {"rdrain", "cdrain"})

NextStep ==
    /\ BetweenSteps /\ step < Len(plan)
    /\ step' = step + 1
    /\ Enter(plan[step + 1])
    /\ mem' = Computed

(* Only checkpoint_matmul.c lets the storage PEs read the rest at the end. *)
LastCheckpoint ==
    /\ program.early /\ BetweenSteps /\ step = Len(plan)
    /\ Enter([op |-> "end"])
    /\ UNCHANGED <<step, mem>>

ComputingStep(p) ==
    \/ Reserve(p) \/ Checkpoint(p) \/ Claim(p) \/ TestSignal(p) \/ SetSignal(p)
    \/ RollBack(p) \/ RollBackDead(p)

StorageStep(s) ==
    \/ CallReserve(s) \/ WaitReserve(s) \/ FileReservation(s) \/ EndReserve(s)
    \/ ClearSignal(s) \/ CallCheckpoint(s) \/ WaitCheck(s) \/ FileData(s)
    \/ EndCheckpoint(s) \/ CallRollback(s) \/ TakeOver(s) \/ RollBackDormant(s)

CopyStep(p) ==
    \/ EnterCopy(p) \/ Acknowledge(p)
    \/ SendTail(p) \/ SendNum(p) \/ SendPiece(p)
    \/ ReadTail(p) \/ ReadNum(p) \/ CopyPiece(p)

Next ==
    \/ \E p \in InCall : ComputingStep(p)
    \/ \E p \in InCall \ Rows : StorageStep(p) \/ CopyStep(p)
    \/ \E m \in posted : Deliver(m)
    \/ DrainReservations \/ DrainCheckpoints \/ NextStep \/ LastCheckpoint

Spec == Init /\ [][Next]_vars

-----------------------------------------------------------------------------
(* The earlier library, when malloc has not returned zeros, reads carriers *)
(* that nobody sent: nothing is claimed of it then.                        *)
Trusted == program.early => program.fresh

(* Rows are filled in the order of the ids, which the code takes for       *)
(* indices ("I'm assuming id = index here").                               *)
RowsInOrder ==
    Trusted => \A s \in Spares, r \in Rows :
        \A i \in DOMAIN table[s][r] : table[s][r][i].id = i - 1

(* A carrier that a storage PE is about to file has its place reserved.    *)
ReservedFirst ==
    Trusted => \A s \in Spares : LET c == First("check", s) IN
        pc[s] = "cloop" /\ Pending("check", s) /\ Arrived("check", s)
            => c.id < Len(table[s][c.pe_num])

Gone == UNION {view[p].dead : p \in PEs}

(* After a drain every storage PE has, of every computing PE that lists it *)
(* and plays its part alone, the same data as its own shadow memory; in    *)
(* the earlier library when the storage PE happens to have read it all.    *)
CopiesComplete ==
    StageOver /\ Trusted => \A p, s \in PEs :
        (/\ role(p) = "active" /\ \A q \in PEs \ {p} : part[q] # part[p]
         /\ role(s) = "storage" /\ \E j \in 1 .. view[p].num : view[p].storages[j] = s
         /\ \/ stage.op \in {"rdrain", "cdrain"}
            \/ ~Pending("resrv", s) /\ ~Pending("check", s))
        => /\ Len(table[s][part[p]]) = Len(shadow[p])
           /\ \A i \in DOMAIN shadow[p] : \A k \in PieceNums :
                table[s][part[p]][i].pieces[k].data = shadow[p][i][k].data

(* Whenever the PEs meet, every part is played by one PE of those that     *)
(* have not been replaced.                                                 *)
EveryPartPlayed ==
    StageOver => \A r \in Rows :
        \E p \in PEs \ Gone : /\ role(p) = "active" /\ part[p] = r
                              /\ \A q \in PEs \ (Gone \union {p}) : part[q] # r

(* After a rollback the computing PEs have the memory of the last          *)
(* checkpoint: where offsets are noted, except for a full last piece,      *)
(* which is not restored, and a PE that had taken over before, whose       *)
(* shadow_mem_tail is 0.                                                   *)
Checks == Cardinality({i \in 1 .. step : plan[i].op = "check"})
RollbackConsistent ==
    StageOver /\ stage.op = "rollback" /\ program.offsets =>
        \A p \in PEs \ Gone : \A i \in Ids, k \in PieceNums :
            (/\ role(p) = "active" /\ (p \in Rows \/ part[p] = stage.dead)
             /\ (k < Pieces - 1 \/ program.count % DataSize # 0))
            => mem[p][i][k] = [row |-> part[p], work |-> Checks]

(* When the candidate has copied the table it has the same rows as the PE  *)
(* it was copied from, although neither waits for the other as it should.  *)
CandidateCopies ==
    \A p \in Spares :
        pc[p] = "done" /\ stage.op = "rollback" /\ Copies(p) /\ Candidate(p)
            => table[p] = table[Other(p)]

(* A storage PE in one of the waits of the library.                        *)
Waits(s) ==
    \/ pc[s] = "rwait" /\ queue["resrv"][s].sig = 0
    \/ pc[s] = "cwait" /\ queue["check"][s].sig = 0
    \/ pc[s] = "rloop" /\ Pending("resrv", s) /\ ~Arrived("resrv", s)
    \/ pc[s] = "cloop" /\ Pending("check", s) /\ ~Arrived("check", s)

(* The library does not stop in the middle of a stage, whatever the order  *)
(* of claims, flags and signals: some PE can go on, or some put is still   *)
(* on its way.  This needs the drains; it does not hold of more than one   *)
(* region (a storage PE may read all carriers in its first call and wait   *)
(* in the second), of the earlier library, or of the copy of the table.    *)
NeverStuck ==
    (program.regions = 1 /\ ~program.early /\ (program.copies => stage.op # "rollback"))
        => \/ posted # {} \/ StageOver
           \/ \E p \in InCall : p \in Spares => ~Waits(p)

=============================================================================
