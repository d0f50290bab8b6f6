--------------------------- MODULE MCSymmetricHeap ---------------------------
(* Instances of SymmetricHeap for TLC. *)
EXTENDS SymmetricHeap

(* Segments an odd number of 64-byte pages apart: the alignment of the run *)
(* is that of the page.                                                    *)
PagesApart == [p \in PE |-> 4 * p]

(* The same with pages of 4096 bytes, to try alignments above the page     *)
(* with: SymmetricBlocks does not hold then, as README.md says.            *)
KernelPagesApart == [p \in PE |-> 256 * p]

=============================================================================
