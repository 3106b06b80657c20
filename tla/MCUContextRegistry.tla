------------------------- MODULE MCUContextRegistry -------------------------
(* Instance of UContextRegistry for TLC; the cfg files choose the sizes.   *)
EXTENDS UContextRegistry, TLC

\* No action names a particular kernel thread or cothread.
Symmetry == Permutations(Threads) \cup Permutations(Cothreads)
=============================================================================
