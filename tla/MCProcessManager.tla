--------------------------- MODULE MCProcessManager ---------------------------
(* Instances of ProcessManager for TLC. *)
EXTENDS ProcessManager, TLC

Symmetry == Permutations(Pids) \cup Permutations(Streams)
PidSymmetry == Permutations(Pids)

RaceBudget == [start |-> 2, stop |-> 2, exit |-> 3, crash |-> 0]
CrashBudget == [start |-> 2, stop |-> 1, exit |-> 2, crash |-> 1]
FaultBudget == [start |-> 2, stop |-> 1, exit |-> 2, crash |-> 0]
LiveBudget == [start |-> 2, stop |-> 1, exit |-> 1, crash |-> 1]
=============================================================================
