------------------------ MODULE CheckpointLibraries ------------------------
(***************************************************************************)
(* The checkpoint libraries of resilience-examples: that of checkpoint.c   *)
(* and those of the *_matmul.c programs, which grew out of it.  A program  *)
(* is built with one of them; what is asked of them all is asked here.     *)
(***************************************************************************)
EXTENDS Checkpoint

CONSTANTS Rands, MatmulPrograms      \* of the *_matmul.c

ASSUME MatmulAssumption ==
    /\ Rands \subseteq Nat
    /\ \A prog \in MatmulPrograms :
        /\ prog.mode \in {"many", "two"} /\ prog.spes \in Nat \ {0}
        /\ prog.regions \in Nat \ {0} /\ prog.count \in Nat \ {0}
        /\ prog.early \in BOOLEAN /\ prog.offsets \in BOOLEAN /\ prog.copies \in BOOLEAN
        /\ prog.fresh \in BOOLEAN
        /\ \A i \in DOMAIN prog.plan :
            \/ prog.plan[i].op = "check"
            \/ prog.plan[i].op = "rollback" /\ prog.plan[i].dead \in 0 .. Originals - 1

(* A ring has a slot for every reservation: main() reserves two regions,   *)
(* so the 100 slots of checkpoint.c do for 50 computing PEs.               *)
ASSUME ReservationsFit ==
    \A prog \in Programs : Originals * prog.regions <= QueueLen

(* It has a slot for every carrier of the program's rounds.  The library   *)
(* never empties a slot: once the ring has come round it takes what an     *)
(* earlier round left there for a carrier that has arrived.  The 100 slots *)
(* do for twelve computing PEs in the four rounds of main().               *)
ASSUME CheckpointsFit ==
    \A prog \in Programs :
        Originals * prog.regions * Cardinality({i \in DOMAIN prog.plan : prog.plan[i] = "round"})
            <= QueueLen

VARIABLES piece, info, copy          \* used by their library alone

Matmul == INSTANCE MatmulCheckpoint

OnlyMatmul == <<piece, info, copy>>
Unused == << >>

(* Only the programs of checkpoint.c have PEs that die: alive is unused,   *)
(* and empty, in the others.                                               *)
IsPlain == alive # {}

AnyInit ==
    \/ Init /\ piece = Unused /\ info = Unused /\ copy = Unused
    \/ Matmul!Init /\ alive = {}

AnyNext ==
    \/ IsPlain /\ Next /\ UNCHANGED OnlyMatmul
    \/ ~IsPlain /\ Matmul!Next /\ UNCHANGED alive

AnySpec == AnyInit /\ [][AnyNext]_<<vars, OnlyMatmul>>

-----------------------------------------------------------------------------
(* Type invariant of whichever library is built in.                        *)
AnyTypeOK == IF IsPlain THEN TypeOK ELSE Matmul!TypeOK

(* Rows of the tables are filled in the order of the ids, which the code   *)
(* takes for indices ("I'm assuming id = index here").                     *)
IdsAreIndices == IF IsPlain THEN RowsInOrder ELSE Matmul!RowsInOrder

(* The carrier of a checkpoint is filed in a place that is reserved.       *)
PlaceReserved == IF IsPlain THEN ReservedFirst ELSE Matmul!ReservedFirst

(* What the storage PEs have when they have emptied their rings is what    *)
(* the computing PEs have in their shadow memories.                        *)
StoredCopies == IF IsPlain THEN CopiesComplete ELSE Matmul!CopiesComplete

(* Whenever the PEs meet, every part is played by one PE.                  *)
PartsPlayed == IF IsPlain THEN EveryPartPlayed ELSE Matmul!EveryPartPlayed

(* After a rollback the computing PEs have the memory of one checkpoint.   *)
OneCheckpoint == IF IsPlain THEN RollbackConsistent ELSE Matmul!RollbackConsistent

(* The candidate of two-copy mode gets the table it was to get.            *)
CandidateCopies == ~IsPlain => Matmul!CandidateCopies

(* With flags and drains no stage of a program stops half-way.             *)
NeverStuck == ~IsPlain => Matmul!NeverStuck

=============================================================================
