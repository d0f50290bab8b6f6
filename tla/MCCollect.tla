------------------------------ MODULE MCCollect ------------------------------
(* Instances of Collect for TLC. *)
EXTENDS Collect

(* One element more from each further member. *)
Growing   == [p \in Members |-> Index(p) + 1]

=============================================================================
