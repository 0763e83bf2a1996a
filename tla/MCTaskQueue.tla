----------------------------- MODULE MCTaskQueue -----------------------------
(* Small rings: two or three slots, and index words of eight or sixteen      *)
(* values that start shortly before they wrap.                               *)
EXTENDS TaskQueue, TLC

Symmetry == Permutations(Producers) \cup Permutations(Consumers)

NearWrap == {0, Word - 2}
Fresh == {0}
Last == {Word - 1}
=============================================================================
