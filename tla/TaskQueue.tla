------------------------------ MODULE TaskQueue ------------------------------
(***************************************************************************)
(* CTask_queue (src/src/datas/task_queue.h): a lock-free ring of tasks     *)
(* between threads.  Mode "SINGLE" has one producer, "MULTI" several; both *)
(* have several consumers.  Every load, store and compare-and-swap of a    *)
(* shared word is a step of its own.  The indexes are u32 words: they      *)
(* count modulo Word and are reduced modulo m_size at every use.           *)
(***************************************************************************)
EXTENDS Naturals, Sequences, FiniteSets

CONSTANTS
    Producers, Consumers,
    Mode,      \* "SINGLE" or "MULTI", the template's parameter
    Word,      \* 2^32
    Size,      \* queue_init's argument
    Extra,     \* queue_resize's argument
    Starts,    \* index values after earlier traffic
    MaxTasks,  \* bound: calls of enqueue
    MaxResize  \* bound: calls of queue_resize

ASSUME QueueAssumption ==
    /\ Mode \in {"SINGLE", "MULTI"}
    /\ Word \in Nat /\ Size \in Nat \ {0} /\ Extra \in Nat \ {0}
    /\ Size + MaxResize * Extra <= Word
    /\ MaxTasks \in Nat /\ MaxResize \in Nat
    /\ Starts \subseteq 0 .. Word - 1
    /\ Producers \cap Consumers = {} /\ IsFiniteSet(Producers)
    /\ Mode = "SINGLE" => \A p, q \in Producers : p = q

VARIABLES
    m_rdindex, m_wrindex, m_max_rdindex, m_size, mp_elems,
    pc,       \* where each thread is
    loc,      \* its locals: cur_rdindex, cur_wrindex and ele
    next,     \* the next task to be enqueued
    taken,    \* history: what dequeue has returned
    resizes   \* calls of queue_resize so far

vars == <<m_rdindex, m_wrindex, m_max_rdindex, m_size, mp_elems, pc, loc, next, taken, resizes>>

Threads == Producers \cup Consumers
Tasks == 1 .. MaxTasks
Blank == 0   \* memset's zeros, or what earlier traffic left in a slot

Inc(i) == (i + 1) % Word
Dist(i, j) == (j + Word - i) % Word

is_empty(max_rdindex, rdindex) == rdindex % m_size = max_rdindex % m_size

(* Mutant: the last free slot is used too. *)
is_full_never(wrindex, rdindex) == FALSE

is_full(wrindex, rdindex) == Inc(wrindex) % m_size = rdindex % m_size

Goto(t, label) == pc' = [pc EXCEPT ![t] = label]

-----------------------------------------------------------------------------
(* enqueue *)

enqueue(p) ==
    /\ pc[p] = "idle"
    /\ next <= MaxTasks
    /\ next' = next + 1
    /\ loc' = [loc EXCEPT ![p].ele = next]
    /\ Goto(p, "load_wr")
    /\ UNCHANGED <<m_rdindex, m_wrindex, m_max_rdindex, m_size, mp_elems, taken, resizes>>

enqueue_load(p) ==
    /\ pc[p] = "load_wr"
    /\ loc' = [loc EXCEPT ![p].wr = m_wrindex]
    /\ Goto(p, "check_full")
    /\ UNCHANGED <<m_rdindex, m_wrindex, m_max_rdindex, m_size, mp_elems, next, taken, resizes>>

(* A full queue makes enqueue return false. *)
enqueue_check(p) ==
    /\ pc[p] = "check_full"
    /\ Goto(p, IF is_full(loc[p].wr, m_rdindex) THEN "idle"
               ELSE IF Mode = "MULTI" THEN "claim" ELSE "store")
    /\ UNCHANGED <<m_rdindex, m_wrindex, m_max_rdindex, m_size, mp_elems, loc, next, taken, resizes>>

(* Mutant: the slot is claimed with a plain store. *)
enqueue_claim_plain(p) ==
    /\ pc[p] = "claim"
    /\ m_wrindex' = Inc(loc[p].wr)
    /\ Goto(p, "store")
    /\ UNCHANGED <<m_rdindex, m_max_rdindex, m_size, mp_elems, loc, next, taken, resizes>>

(* MULTI: CAS(&m_wrindex, cur_wrindex, cur_wrindex + 1), or start over. *)
enqueue_claim(p) ==
    /\ pc[p] = "claim"
    /\ \/ /\ m_wrindex = loc[p].wr
          /\ m_wrindex' = Inc(m_wrindex)
          /\ Goto(p, "store")
       \/ /\ m_wrindex # loc[p].wr
          /\ Goto(p, "load_wr")
          /\ UNCHANGED m_wrindex
    /\ UNCHANGED <<m_rdindex, m_max_rdindex, m_size, mp_elems, loc, next, taken, resizes>>

enqueue_store(p) ==
    /\ pc[p] = "store"
    /\ mp_elems' = [mp_elems EXCEPT ![loc[p].wr % m_size] = loc[p].ele]
    /\ Goto(p, "publish")
    /\ UNCHANGED <<m_rdindex, m_wrindex, m_max_rdindex, m_size, loc, next, taken, resizes>>

(* Mutant: the loop of compare-and-swaps waits for the next index. *)
enqueue_publish_late(p) ==
    /\ pc[p] = "publish"
    /\ Goto(p, "idle")
    /\ \/ /\ Mode = "SINGLE"
          /\ m_wrindex' = Inc(m_wrindex)
          /\ UNCHANGED m_max_rdindex
       \/ /\ Mode = "MULTI"
          /\ m_max_rdindex = Inc(loc[p].wr)
          /\ m_max_rdindex' = Inc(m_max_rdindex)
          /\ UNCHANGED m_wrindex
    /\ UNCHANGED <<m_rdindex, m_size, mp_elems, loc, next, taken, resizes>>

(* SINGLE: ATOMIC_ADD(&m_wrindex, 1).  MULTI: spin until every earlier     *)
(* claim is published.                                                     *)
enqueue_publish(p) ==
    /\ pc[p] = "publish"
    /\ Goto(p, "idle")
    /\ \/ /\ Mode = "SINGLE"
          /\ m_wrindex' = Inc(m_wrindex)
          /\ UNCHANGED m_max_rdindex
       \/ /\ Mode = "MULTI"
          /\ m_max_rdindex = loc[p].wr
          /\ m_max_rdindex' = Inc(m_max_rdindex)
          /\ UNCHANGED m_wrindex
    /\ UNCHANGED <<m_rdindex, m_size, mp_elems, loc, next, taken, resizes>>

-----------------------------------------------------------------------------
(* dequeue, the same code in both modes *)

dequeue(c) ==
    /\ pc[c] \in {"idle", "load_rd"}
    /\ loc' = [loc EXCEPT ![c].rd = m_rdindex]
    /\ Goto(c, "check_empty")
    /\ UNCHANGED <<m_rdindex, m_wrindex, m_max_rdindex, m_size, mp_elems, next, taken, resizes>>

(* Mutant: empty when one task is left. *)
dequeue_check_off(c) ==
    /\ pc[c] = "check_empty"
    /\ Goto(c, IF is_empty(m_wrindex, Inc(loc[c].rd)) THEN "idle" ELSE "fetch")
    /\ UNCHANGED <<m_rdindex, m_wrindex, m_max_rdindex, m_size, mp_elems, loc, next, taken, resizes>>

(* cur_max_rdindex = m_wrindex; an empty queue makes dequeue return false. *)
dequeue_check(c) ==
    /\ pc[c] = "check_empty"
    /\ Goto(c, IF is_empty(m_wrindex, loc[c].rd) THEN "idle" ELSE "fetch")
    /\ UNCHANGED <<m_rdindex, m_wrindex, m_max_rdindex, m_size, mp_elems, loc, next, taken, resizes>>

dequeue_fetch(c) ==
    /\ pc[c] = "fetch"
    /\ loc' = [loc EXCEPT ![c].ele = mp_elems[loc[c].rd % m_size]]
    /\ Goto(c, "take")
    /\ UNCHANGED <<m_rdindex, m_wrindex, m_max_rdindex, m_size, mp_elems, next, taken, resizes>>

(* Mutant: the index is advanced without comparing. *)
dequeue_take_plain(c) ==
    /\ pc[c] = "take"
    /\ m_rdindex' = Inc(m_rdindex)
    /\ taken' = Append(taken, loc[c].ele)
    /\ Goto(c, "idle")
    /\ UNCHANGED <<m_wrindex, m_max_rdindex, m_size, mp_elems, loc, next, resizes>>

(* CAS(&m_rdindex, cur_rdindex, cur_rdindex + 1), or start over. *)
dequeue_take(c) ==
    /\ pc[c] = "take"
    /\ \/ /\ m_rdindex = loc[c].rd
          /\ m_rdindex' = Inc(m_rdindex)
          /\ taken' = Append(taken, loc[c].ele)
          /\ Goto(c, "idle")
       \/ /\ m_rdindex # loc[c].rd
          /\ Goto(c, "load_rd")
          /\ UNCHANGED <<m_rdindex, taken>>
    /\ UNCHANGED <<m_wrindex, m_max_rdindex, m_size, mp_elems, loc, next, resizes>>

-----------------------------------------------------------------------------
(* queue_resize copies the slots to the same places of a larger array.  It *)
(* takes no lock and frees the old array, so no other call may be running. *)
queue_resize ==
    /\ \A t \in Threads : pc[t] = "idle"
    /\ resizes < MaxResize
    /\ resizes' = resizes + 1
    /\ m_size' = m_size + Extra
    /\ mp_elems' = [i \in 0 .. m_size' - 1 |-> IF i < m_size THEN mp_elems[i] ELSE Blank]
    /\ UNCHANGED <<m_rdindex, m_wrindex, m_max_rdindex, pc, loc, next, taken>>

(* queue_init, after as many tasks as Starts allows have come and gone. *)
Init ==
    /\ m_rdindex \in Starts
    /\ m_wrindex = m_rdindex
    /\ m_max_rdindex = m_rdindex
    /\ m_size = Size
    /\ mp_elems = [i \in 0 .. Size - 1 |-> Blank]
    /\ pc = [t \in Threads |-> "idle"]
    /\ loc = [t \in Threads |-> [rd |-> 0, wr |-> 0, ele |-> Blank]]
    /\ next = 1
    /\ taken = <<>>
    /\ resizes = 0

enqueue_step(p) ==
    \/ enqueue_load(p) \/ enqueue_check(p) \/ enqueue_claim(p)
    \/ enqueue_store(p) \/ enqueue_publish(p)
dequeue_step(c) == dequeue(c) \/ dequeue_check(c) \/ dequeue_fetch(c) \/ dequeue_take(c)

Next ==
    \/ \E p \in Producers : enqueue(p) \/ enqueue_step(p)
    \/ \E c \in Consumers : dequeue_step(c)
    \/ queue_resize

Spec == Init /\ [][Next]_vars

(* A call that has begun goes on; nobody has to begin one. *)
FairSpec == Spec /\ \A p \in Producers : WF_vars(enqueue_step(p))

-----------------------------------------------------------------------------
(* The tasks between the two indexes, as the next dequeues would find them. *)
Unread ==
    [i \in 1 .. Dist(m_rdindex, m_wrindex) |->
        mp_elems[((m_rdindex + i - 1) % Word) % m_size]]

Fifo == INSTANCE TaskFifo WITH fifo <- Unread, cap <- m_size - 1

(* The ring is a bounded FIFO: whatever the threads do to each other       *)
(* between load, store and compare-and-swap, dequeue returns every task    *)
(* once and in order, and enqueue overwrites none.                         *)
IsFifo == Fifo!Spec

(* enqueue and dequeue refuse for a reason: the ring is full (empty), or   *)
(* another thread has moved the index this call started from.              *)
RefusalsJustified ==
    [][/\ \A p \in Producers : pc[p] = "check_full" /\ pc'[p] = "idle" =>
            Dist(m_rdindex, m_wrindex) = m_size - 1 \/ m_wrindex # loc[p].wr
       /\ \A c \in Consumers : pc[c] = "check_empty" /\ pc'[c] = "idle" =>
            m_rdindex = m_wrindex \/ m_rdindex # loc[c].rd]_vars

Claimed(p) == pc[p] \in {"store", "publish"}

(* MULTI: the indexes between m_max_rdindex and m_wrindex are those that   *)
(* producers have claimed and not published, each by one producer.         *)
ClaimsAccounted ==
    {loc[p].wr : p \in {p \in Producers : Claimed(p)}} =
        {(m_max_rdindex + i) % Word : i \in 0 .. Dist(m_max_rdindex, m_wrindex) - 1}

(* The two indexes never lap each other, although is_full compares what    *)
(* may be old values of both.                                              *)
NeverOverfull == Dist(m_rdindex, m_wrindex) < m_size

(* MULTI: no producer waits for ever for its turn to publish. *)
EnqueueReturns == \A p \in Producers : pc[p] = "publish" ~> pc[p] = "idle"

(* m_rdindex "always points at the position that is readable now"          *)
(* (task_queue.h:40): while the indexes differ, dequeue sees that the ring *)
(* is not empty and finds a task there.                                    *)
ReadIndexReadable ==
    m_rdindex # m_wrindex =>
        /\ ~is_empty(m_wrindex, m_rdindex)
        /\ mp_elems[m_rdindex % m_size] \in Tasks

(* What dequeue returns was enqueued, and is returned once: m_max_rdindex  *)
(* is there "to keep several threads safe" (task_queue.h:260).             *)
TakenOnce ==
    /\ \A i \in DOMAIN taken : taken[i] \in Tasks
    /\ \A i, j \in DOMAIN taken : taken[i] = taken[j] => i = j
=============================================================================
