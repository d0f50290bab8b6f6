---------------------------- MODULE MatmulMains ----------------------------
(***************************************************************************)
(* The main()s of resilience-examples/*_matmul.c that use a checkpoint     *)
(* library: its mode, the spare PEs, what they reserve, and the plan: the  *)
(* checkpoints and rollbacks of their loop.  The work is that of module    *)
(* MatmulCheckpoint.  Numbers are scaled down: one iteration stands for    *)
(* the `frequency' iterations between two checkpoints, a region of `count' *)
(* items for a stripe.                                                     *)
(***************************************************************************)
EXTENDS Integers, Sequences

Check == [op |-> "check"]
Rollback(d) == [op |-> "rollback", dead |-> d]

(* What most of them have in common; they never roll back.                 *)
only_checkpoint_matmul ==
    [name |-> "only", mode |-> "many", spes |-> 1, regions |-> 1, count |-> 3,
     early |-> FALSE, fresh |-> TRUE, offsets |-> FALSE, copies |-> FALSE,
     plan |-> <<Check>>]

(* A region for each row of the stripe.                                    *)
stripe_checkpoint_matmul ==
    [only_checkpoint_matmul EXCEPT !.name = "stripe", !.regions = 2, !.count = 1]

twocp_only_matmul ==
    [only_checkpoint_matmul EXCEPT !.name = "2cp_only", !.mode = "two", !.spes = 1, !.count = 1]

(* One rollback, for PE 3 (here 0), after three checkpoints.               *)
rollback_matmul ==
    [only_checkpoint_matmul EXCEPT !.name = "rollback", !.offsets = TRUE, !.plan = <<Check, Rollback(0)>>]

(* A second one, for PE 5 (here 1).                                        *)
tworollback_matmul ==
    [rollback_matmul EXCEPT !.name = "2rollback", !.spes = 2, !.count = 1,
        !.plan = <<Check, Rollback(0), Check, Rollback(1)>>]

(* Its rollback is commented out: see twocp_rb_rollback.                   *)
twocp_rb_matmul ==
    [twocp_only_matmul EXCEPT !.name = "2cp_rb", !.spes = 3, !.offsets = TRUE]

twocp_rb_rollback ==
    [twocp_rb_matmul EXCEPT !.copies = TRUE, !.plan = <<Check, Rollback(0)>>]

(* The earlier library.                                                    *)
checkpoint_matmul ==
    [only_checkpoint_matmul EXCEPT !.name = "checkpoint", !.early = TRUE, !.count = 1,
        !.plan = <<Check, Rollback(0)>>]

(* The same where malloc does not return zeros, up to the reservations.    *)
checkpoint_matmul_stale ==
    [checkpoint_matmul EXCEPT !.fresh = FALSE, !.plan = << >>]

=============================================================================
