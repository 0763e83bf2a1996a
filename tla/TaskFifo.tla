------------------------------ MODULE TaskFifo ------------------------------
(***************************************************************************)
(* What a task queue promises: tasks leave in the order in which they      *)
(* entered, each once, and no more than cap of them wait at a time.        *)
(***************************************************************************)
EXTENDS Naturals, Sequences

CONSTANT Tasks

VARIABLES fifo, taken, cap

Init == fifo = <<>> /\ taken = <<>> /\ cap \in Nat

Put(x) ==
    /\ Len(fifo) < cap
    /\ fifo' = Append(fifo, x)
    /\ UNCHANGED <<taken, cap>>

Take ==
    /\ fifo # <<>>
    /\ taken' = Append(taken, Head(fifo))
    /\ fifo' = Tail(fifo)
    /\ UNCHANGED cap

Grow ==
    /\ cap' > cap
    /\ UNCHANGED <<fifo, taken>>

Next == (\E x \in Tasks : Put(x)) \/ Take \/ Grow

Spec == Init /\ [][Next]_<<fifo, taken, cap>>
=============================================================================
