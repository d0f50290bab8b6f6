---------------------------- MODULE MCShmemLock ----------------------------
(* Instances of ShmemLock for TLC. *)
EXTENDS ShmemLock

(* Each PE maps the lock elsewhere, a multiple of 8 * NRanks apart. *)
CongruentAddr == [p \in PE |-> 64 + 8 * NRanks * p]

(* Symmetric heaps that the kernel put one page apart. *)
PageAddr == [p \in PE |-> 4096 + 4096 * p]
=============================================================================
