----------------------------- MODULE MCSwitchAsm -----------------------------
(* Instances of SwitchAsm for TLC.                                         *)
EXTENDS SwitchRefinement, TLC

\* Cothreads may be exchanged for each other; the wrapper may not.
Symmetry == Permutations(Cothreads)
=============================================================================
