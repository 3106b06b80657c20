---------------------------- MODULE MCCothread ------------------------------
(* Instance of Cothread for TLC; the cfg files choose the sizes.           *)
EXTENDS Cothread, TLC

\* No action names a particular kernel thread or cothread.
Symmetry == Permutations(Threads) \cup Permutations(Cothreads)
=============================================================================
