----------------------- MODULE MCCheckpointLibraries -----------------------
(* The programs that TLC runs over the checkpoint libraries.               *)
EXTENDS CheckpointLibraries, MatmulMains

TwoPrograms ==
    {[spes |-> 1, regions |-> 2, plan |-> <<"round", "death">>],
     [spes |-> 2, regions |-> 1, plan |-> <<"round", "death", "round">>]}

Mains == {only_checkpoint_matmul, stripe_checkpoint_matmul, twocp_only_matmul,
          rollback_matmul, tworollback_matmul, twocp_rb_rollback,
          checkpoint_matmul, checkpoint_matmul_stale}

=============================================================================
