-------------------------------- MODULE MCSlab --------------------------------
(* Pools of one to three blocks, with and without a limit of three; and the  *)
(* sizes of slab_pool_test.cpp, pure_slab_pool slab(60, 10), cut down to two *)
(* levels and to pools of four blocks.                                       *)
EXTENDS Slab

TwoLimits == {-1, 3}
=============================================================================
