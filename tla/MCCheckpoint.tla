---------------------------- MODULE MCCheckpoint ----------------------------
(* The programs that TLC runs over Checkpoint.                             *)
EXTENDS Checkpoint

OneRound    == {[spes |-> 1, regions |-> 2, plan |-> <<"round">>]}
TwoRounds   == {[spes |-> 1, regions |-> 1, plan |-> <<"round", "round">>]}

=============================================================================
