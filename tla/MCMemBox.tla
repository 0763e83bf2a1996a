------------------------------- MODULE MCMemBox -------------------------------
(* Three threads on two or three blocks, in words of sixteen values. *)
EXTENDS MemBox, TLC

Symmetry == Permutations(Threads)
=============================================================================
