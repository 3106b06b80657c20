-------------------------- MODULE MCSetJmpPrepare ---------------------------
(* Instance of SetJmpPrepare for TLC; the cfg files choose the sizes.      *)
EXTENDS SetJmpPrepare, TLC

\* No action names a particular kernel thread or cothread.
Symmetry == Permutations(Threads) \cup Permutations(Cothreads)
=============================================================================
