---------------------------- MODULE MCStackLayout ----------------------------
(* Instances of StackLayout for TLC.                                       *)
EXTENDS StackLayout

\* Every size around the first frames and alignments, some large ones, and the
\* last ones that a size_t has.
Sizes == (0..1300) \cup {4096, 65536, 131072, 524288, 600000}
           \cup (SizeT - 1100 .. SizeT - 1)

\* A multiple of every machine word, but of no alignment but the 16 bytes of x86,
\* and less than amd64's first frame takes.
SmallRequest == {96}
=============================================================================
