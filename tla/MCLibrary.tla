----------------------------- MODULE MCLibrary -----------------------------
(* Instance of Library for TLC; the cfg file chooses the sizes.            *)
EXTENDS Library, TLC

\* No action names a particular block, buffer, cothread or kernel thread.
Symmetry ==
  Permutations(Cothreads) \cup Permutations(Threads)
    \cup Permutations(Spans) \cup Permutations(Blocks)
=============================================================================
