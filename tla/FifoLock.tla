------------------------------ MODULE FifoLock ------------------------------
(***************************************************************************)
(* What a symmetric lock promises to the PEs of a job, with no word about  *)
(* how: callers are lined up in the order in which their claims took       *)
(* effect, only the first of the line is ever let in, and it stays first   *)
(* until it releases.  ShmemLock implements this specification.            *)
(***************************************************************************)
EXTENDS Sequences, Naturals

CONSTANT PE                \* the PEs that use the lock

VARIABLES
    line,                  \* the PEs that claimed the lock, first comer first
    inside                 \* the PEs that have been told the lock is theirs

vars == <<line, inside>>

Waiting == {line[i] : i \in DOMAIN line}

TypeOK ==
    /\ line \in Seq(PE)
    /\ inside \in SUBSET PE

Init ==
    /\ line = <<>>
    /\ inside = {}

(* A claim takes effect. *)
Claim(p) ==
    /\ p \notin Waiting
    /\ line' = Append(line, p)
    /\ UNCHANGED inside

(* A claim that finds nobody in line lets its caller in at once. *)
ClaimFree(p) ==
    /\ line = <<>>
    /\ line' = <<p>>
    /\ inside' = {p}

(* The first of the line learns that it is its turn. *)
Enter(p) ==
    /\ line # <<>>
    /\ p = Head(line)
    /\ inside = {}
    /\ inside' = {p}
    /\ UNCHANGED line

(* The holder gives the lock up; whoever is next becomes first in line. *)
Release(p) ==
    /\ p \in inside
    /\ line' = Tail(line)
    /\ inside' = {}

Next == \E p \in PE : Claim(p) \/ ClaimFree(p) \/ Enter(p) \/ Release(p)

Spec == Init /\ [][Next]_vars

=============================================================================
