--------------------------- MODULE MCImplLifetime ---------------------------
(* Instance of ImplLifetime for TLC; the cfg file chooses the sizes.       *)
EXTENDS ImplLifetime, TLC

\* No action names a particular block, buffer, object or kernel thread.
Symmetry ==
  Permutations(Cothreads) \cup Permutations(Threads)
    \cup Permutations(Spans) \cup Permutations(Blocks)
=============================================================================
