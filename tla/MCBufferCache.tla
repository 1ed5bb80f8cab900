---------------------------- MODULE MCBufferCache -----------------------------
(* The constants of BufferCache for TLC. *)
EXTENDS BufferCache

\* Buffers and blocks are alike.
Symmetry == Permutations(Buf) \cup Permutations(Block)

CONSTANTS p1, p2, p3, x1, x2, x3, b1, b2, b3
===============================================================================
