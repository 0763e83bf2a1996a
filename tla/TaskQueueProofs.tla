-------------------------- MODULE TaskQueueProofs --------------------------
(***************************************************************************)
(* Proofs about TaskQueue, for any number of threads, tasks and slots.     *)
(*                                                                         *)
(* They rest on two hypotheses.  Aligned: the indexes are reduced modulo   *)
(* m_size and wrap at Word, so a slot keeps its index over a wrap only if  *)
(* each size divides Word, as a power of two does.  MaxTasks < Word: a     *)
(* compare-and-swap cannot tell an index from the one Word tasks later.    *)
(*                                                                         *)
(* A check compares an index that a thread loaded with one that others     *)
(* move on.  The invariant bounds how far behind a loaded index can be by  *)
(* the indexes that have been claimed (CountInv), and says what a check    *)
(* is still worth while the index it started from has not moved (RoomInv). *)
(***************************************************************************)
EXTENDS TaskQueue, FiniteSetTheorems, TLAPS

Aligned == \A k \in 0 .. MaxResize : Word % (Size + k * Extra) = 0

Indexes == 0 .. Word - 1

TypeInv ==
    /\ m_rdindex \in Indexes /\ m_wrindex \in Indexes /\ m_max_rdindex \in Indexes
    /\ resizes \in 0 .. MaxResize /\ m_size = Size + resizes * Extra
    /\ mp_elems \in [0 .. m_size - 1 -> Tasks \cup {Blank}]
    /\ pc \in [Threads -> {"idle", "load_wr", "check_full", "claim", "store", "publish",
                           "load_rd", "check_empty", "fetch", "take"}]
    /\ loc \in [Threads -> [rd : Indexes, wr : Indexes, ele : Tasks \cup {Blank}]]
    /\ next \in 1 .. MaxTasks + 1
    /\ taken \in Seq(Tasks \cup {Blank})

(* The calls that have not moved m_wrindex yet, and may. *)
Pending ==
    {p \in Producers : \/ pc[p] \in {"load_wr", "check_full", "claim"}
                       \/ Mode = "SINGLE" /\ pc[p] \in {"store", "publish"}}

(* How often m_wrindex can still be moved. *)
Left == MaxTasks + 1 - next + Cardinality(Pending)

CountInv ==
    /\ Dist(m_rdindex, m_wrindex) + Left <= MaxTasks
    /\ \A p \in Producers : pc[p] \in {"check_full", "claim"} =>
            Dist(loc[p].wr, m_wrindex) + Left <= MaxTasks
    /\ \A c \in Consumers : pc[c] \in {"check_empty", "fetch", "take"} =>
            Dist(loc[c].rd, m_rdindex) + Dist(m_rdindex, m_wrindex) + Left <= MaxTasks

(* A check still holds if the index it started from has not moved. *)
RoomInv ==
    /\ NeverOverfull
    /\ \A p \in Producers : pc[p] = "claim" =>
            Mode = "MULTI" /\ (m_wrindex = loc[p].wr => Dist(m_rdindex, m_wrindex) < m_size - 1)
    /\ Mode = "SINGLE" => \A p \in Producers :
            /\ pc[p] \in {"check_full", "store", "publish"} => m_wrindex = loc[p].wr
            /\ pc[p] \in {"store", "publish"} => Dist(m_rdindex, m_wrindex) < m_size - 1
    /\ \A c \in Consumers : pc[c] \in {"fetch", "take"} =>
            (m_rdindex = loc[c].rd => m_rdindex # m_wrindex)

IInv == TypeInv /\ CountInv /\ RoomInv

(* MULTI: the indexes that are claimed and not published, one by one. *)
ClaimInv ==
    /\ Dist(m_max_rdindex, m_wrindex) + Left <= MaxTasks
    /\ \A p \in Producers : Claimed(p) =>
            Dist(m_max_rdindex, loc[p].wr) < Dist(m_max_rdindex, m_wrindex)
    /\ \A p, q \in Producers : Claimed(p) /\ Claimed(q) /\ loc[p].wr = loc[q].wr => p = q
    /\ \A i \in Indexes : Dist(m_max_rdindex, i) < Dist(m_max_rdindex, m_wrindex) =>
            \E p \in Producers : Claimed(p) /\ loc[p].wr = i

(* SINGLE: what the threads hold of the tasks. *)
DataInv ==
    /\ \A p \in Producers : pc[p] # "idle" => loc[p].ele \in Tasks
    /\ \A p \in Producers : pc[p] = "publish" => mp_elems[loc[p].wr % m_size] = loc[p].ele
    /\ \A c \in Consumers : pc[c] = "take" /\ m_rdindex = loc[c].rd =>
            loc[c].ele = mp_elems[m_rdindex % m_size]

-----------------------------------------------------------------------------
(* The arithmetic of the indexes. *)

LEMMA WordFacts == Word \in Nat \ {0} /\ 0 \in Indexes
<1>1. MaxResize * Extra \in Nat
    BY QueueAssumption
<1> QED BY <1>1, QueueAssumption DEF Indexes

LEMMA ModFacts ==
    ASSUME NEW a \in Int, NEW n \in Nat \ {0}
    PROVE  /\ a % n \in 0 .. n - 1 /\ a \div n \in Int
           /\ a = n * (a \div n) + (a % n)
OBVIOUS

LEMMA ModUnique ==
    ASSUME NEW n \in Nat \ {0}, NEW q \in Int, NEW r \in 0 .. n - 1
    PROVE  (n * q + r) % n = r
OBVIOUS

(* A multiple of n between 0 and n is 0. *)
LEMMA SmallMultiple ==
    ASSUME NEW n \in Nat \ {0}, NEW k \in Int, n * k > 0
    PROVE  n * k >= n
<1>1. CASE k <= 0
    <2>1. n * (-k) >= 0
        BY <1>1
    <2> QED BY <2>1
<1>2. CASE k >= 1
    <2>1. n * (k - 1) >= 0
        BY <1>2
    <2> QED BY <2>1
<1> QED BY <1>1, <1>2

(* Inc and Dist without the modulus. *)
LEMMA IncDist ==
    ASSUME NEW i \in Indexes, NEW j \in Indexes
    PROVE  /\ Inc(i) = IF i = Word - 1 THEN 0 ELSE i + 1
           /\ Inc(i) \in Indexes
           /\ Dist(i, j) = IF j >= i THEN j - i ELSE j + Word - i
           /\ Dist(i, j) \in Indexes
<1>1. i + 1 = IF i = Word - 1 THEN Word * 1 + 0 ELSE Word * 0 + (i + 1)
    BY WordFacts DEF Indexes
<1>2. Inc(i) = IF i = Word - 1 THEN 0 ELSE i + 1
    BY <1>1, WordFacts, ModUnique DEF Inc, Indexes
<1>3. j + Word - i = IF j >= i THEN Word * 1 + (j - i) ELSE Word * 0 + (j + Word - i)
    BY WordFacts DEF Indexes
<1>4. Dist(i, j) = IF j >= i THEN j - i ELSE j + Word - i
    BY <1>3, WordFacts, ModUnique DEF Dist, Indexes
<1> QED BY <1>2, <1>4, WordFacts DEF Indexes

LEMMA DistFacts ==
    ASSUME NEW i \in Indexes, NEW j \in Indexes
    PROVE  /\ Dist(i, j) \in Nat /\ Dist(i, j) < Word /\ Inc(i) \in Indexes
           /\ Dist(i, j) = 0 <=> i = j
           /\ Dist(i, j) < Word - 1 => Dist(i, Inc(j)) = Dist(i, j) + 1
           /\ i # j => Dist(Inc(i), j) = Dist(i, j) - 1
<1>1. Inc(i) \in Indexes /\ Inc(j) \in Indexes
    BY IncDist
<1>2. Dist(i, j) = IF j >= i THEN j - i ELSE j + Word - i
    BY IncDist
<1>3. Dist(i, Inc(j)) = IF Inc(j) >= i THEN Inc(j) - i ELSE Inc(j) + Word - i
    BY <1>1, IncDist
<1>4. Dist(Inc(i), j) = IF j >= Inc(i) THEN j - Inc(i) ELSE j + Word - Inc(i)
    BY <1>1, IncDist
<1>5. /\ Inc(i) = IF i = Word - 1 THEN 0 ELSE i + 1
      /\ Inc(j) = IF j = Word - 1 THEN 0 ELSE j + 1
    BY IncDist
<1>6. Dist(i, j) < Word - 1 => Dist(i, Inc(j)) = Dist(i, j) + 1
    BY <1>2, <1>3, <1>5, WordFacts DEF Indexes
<1>7. i # j => Dist(Inc(i), j) = Dist(i, j) - 1
    BY <1>2, <1>4, <1>5, WordFacts DEF Indexes
<1> QED BY <1>1, <1>2, <1>6, <1>7, WordFacts DEF Indexes

(* Every index is a multiple of n and a slot. *)
LEMMA SlotOf ==
    ASSUME NEW n \in Nat \ {0}, NEW a \in Int
    PROVE  \E q \in Int : a = n * q + (a % n) /\ a % n \in 0 .. n - 1
BY Zenon, ModFacts

LEMMA WordMultiple ==
    ASSUME NEW n \in Nat \ {0}, Word % n = 0
    PROVE  \E w \in Int : Word = n * w
<1> DEFINE r == Word % n
<1>1. Word \in Int
    BY WordFacts
<1>2. PICK w \in Int : Word = n * w + r
    BY Zenon, <1>1, SlotOf
<1>3. r = 0
    OBVIOUS
<1> HIDE DEF r
<1> QED BY <1>2, <1>3

LEMMA Apart ==
    ASSUME NEW n \in Nat \ {0}, NEW q \in Int, NEW p \in Int, NEW w \in Int, NEW r \in Int,
           NEW d \in Int, d > 0,
           \/ d = (n * q + r) - (n * p + r)
           \/ d = (n * q + r) + n * w - (n * p + r)
    PROVE  d >= n
<1>1. d = n * (q - p) \/ d = n * (q + w - p)
    OBVIOUS
<1> QED BY <1>1, SmallMultiple

(* Two indexes less than n apart are of different slots. *)
LEMMA SlotsDiffer ==
    ASSUME NEW n \in Nat \ {0}, Word % n = 0, NEW i \in Indexes, NEW j \in Indexes,
           Dist(i, j) \in 1 .. n - 1
    PROVE  i % n # j % n
<1>1. i \in Int /\ j \in Int /\ Word \in Int
    BY WordFacts DEF Indexes
<1>2. PICK p \in Int : i = n * p + (i % n) /\ i % n \in 0 .. n - 1
    BY Zenon, <1>1, SlotOf
<1>3. PICK q \in Int : j = n * q + (j % n)
    BY Zenon, <1>1, SlotOf
<1>4. PICK w \in Int : Word = n * w
    BY Zenon, WordMultiple
<1>5. Dist(i, j) = j - i \/ Dist(i, j) = j + Word - i
    BY IncDist
<1> DEFINE r == i % n
<1>6. ASSUME i % n = j % n PROVE Dist(i, j) >= n
    <2>1. r \in Int /\ i = n * p + r /\ j = n * q + r
        BY <1>2, <1>3, <1>6
    <2> HIDE DEF r
    <2>2. Dist(i, j) = (n * q + r) - (n * p + r) \/ Dist(i, j) = (n * q + r) + n * w - (n * p + r)
        BY <1>4, <1>5, <2>1
    <2>3. Dist(i, j) \in Int /\ Dist(i, j) > 0
        OBVIOUS
    <2> QED BY Zenon, <2>1, <2>2, <2>3, Apart
<1> QED BY <1>6

(* Two indexes n apart are of the same slot. *)
LEMMA SlotsMeet ==
    ASSUME NEW n \in Nat \ {0}, Word % n = 0, NEW i \in Indexes, NEW j \in Indexes,
           Dist(i, j) = n
    PROVE  i % n = j % n
<1>1. i \in Int /\ j \in Int /\ Word \in Int
    BY WordFacts DEF Indexes
<1>2. PICK p \in Int : i = n * p + (i % n) /\ i % n \in 0 .. n - 1
    BY Zenon, <1>1, SlotOf
<1>4. PICK w \in Int : Word = n * w
    BY Zenon, WordMultiple
<1>5. n = j - i \/ n = j + Word - i
    BY IncDist
<1> DEFINE r == i % n
<1>6. j = n * (p + 1) + r \/ j = n * (p + 1 - w) + r
    <2> HIDE DEF r
    <2>1. n = j - (n * p + r) \/ n = j + n * w - (n * p + r)
        BY <1>2, <1>4, <1>5 DEF r
    <2>2. n * (p + 1) = n * p + n /\ n * (p + 1 - w) = n * p + n - n * w
        OBVIOUS
    <2>3. n * p \in Int /\ n * w \in Int /\ r \in Int
        BY <1>2 DEF r
    <2> QED BY <1>1, <2>1, <2>2, <2>3
<1>7. p + 1 \in Int /\ p + 1 - w \in Int /\ r \in 0 .. n - 1
    BY <1>2
<1> HIDE DEF r
<1>8. j % n = r
    <2>1. CASE j = n * (p + 1) + r
        BY <1>7, <2>1, ModUnique
    <2>2. CASE j = n * (p + 1 - w) + r
        BY <1>7, <2>2, ModUnique
    <2> QED BY <1>6, <2>1, <2>2
<1> QED BY <1>8 DEF r

-----------------------------------------------------------------------------
(* Types. *)

LEMMA SizeFacts ==
    ASSUME Aligned, TypeInv
    PROVE  m_size \in Nat \ {0} /\ Word % m_size = 0
<1>1. resizes \in 0 .. MaxResize /\ m_size = Size + resizes * Extra
    BY DEF TypeInv
<1>2. resizes * Extra \in Nat
    BY <1>1, QueueAssumption
<1> QED BY <1>1, <1>2, QueueAssumption DEF Aligned

LEMMA ThreadFacts ==
    ASSUME TypeInv, NEW t \in Threads
    PROVE  /\ loc[t] \in [rd : Indexes, wr : Indexes, ele : Tasks \cup {Blank}]
           /\ loc[t].rd \in Indexes /\ loc[t].wr \in Indexes /\ loc[t].ele \in Tasks \cup {Blank}
BY DEF TypeInv

LEMMA TypeStep ==
    ASSUME Aligned, TypeInv, [Next]_vars
    PROVE  TypeInv'
<1>0. /\ m_rdindex \in Indexes /\ m_wrindex \in Indexes /\ m_max_rdindex \in Indexes
      /\ Inc(m_rdindex) \in Indexes /\ Inc(m_wrindex) \in Indexes /\ Inc(m_max_rdindex) \in Indexes
    BY Zenon, IncDist DEF TypeInv
<1> USE <1>0
<1>1. ASSUME NEW p \in Producers, enqueue(p) PROVE TypeInv'
    <2>1. next \in Tasks /\ next' \in 1 .. MaxTasks + 1
        BY <1>1, QueueAssumption DEF TypeInv, Tasks, enqueue
    <2>2. p \in Threads
        BY DEF Threads
    <2>3. loc' \in [Threads -> [rd : Indexes, wr : Indexes, ele : Tasks \cup {Blank}]]
        BY <1>1, <2>1, <2>2, ThreadFacts DEF TypeInv, enqueue
    <2> QED BY <1>1, <2>1, <2>2, <2>3 DEF TypeInv, enqueue, Goto
<1>2. ASSUME NEW p \in Producers, enqueue_load(p) PROVE TypeInv'
    <2>1. p \in Threads
        BY DEF Threads
    <2>2. loc' \in [Threads -> [rd : Indexes, wr : Indexes, ele : Tasks \cup {Blank}]]
        BY <1>2, <2>1, ThreadFacts DEF TypeInv, enqueue_load
    <2> QED BY <1>2, <2>1, <2>2 DEF TypeInv, enqueue_load, Goto
<1>3. ASSUME NEW p \in Producers, enqueue_check(p) PROVE TypeInv'
    BY <1>3 DEF TypeInv, enqueue_check, Goto, Threads
<1>4. ASSUME NEW p \in Producers, enqueue_claim(p) PROVE TypeInv'
    BY <1>4 DEF TypeInv, enqueue_claim, Goto, Threads
<1>5. ASSUME NEW p \in Producers, enqueue_store(p) PROVE TypeInv'
    <2>1. p \in Threads
        BY DEF Threads
    <2>2. loc[p].ele \in Tasks \cup {Blank}
        BY <2>1, ThreadFacts
    <2>3. mp_elems' \in [0 .. m_size - 1 -> Tasks \cup {Blank}]
        BY Zenon, <1>5, <2>2 DEF TypeInv, enqueue_store
    <2> QED BY <1>5, <2>1, <2>3 DEF TypeInv, enqueue_store, Goto
<1>6. ASSUME NEW p \in Producers, enqueue_publish(p) PROVE TypeInv'
    BY <1>6 DEF TypeInv, enqueue_publish, Goto, Threads
<1>7. ASSUME NEW c \in Consumers, dequeue(c) PROVE TypeInv'
    <2>1. c \in Threads
        BY DEF Threads
    <2>2. loc' \in [Threads -> [rd : Indexes, wr : Indexes, ele : Tasks \cup {Blank}]]
        BY <1>7, <2>1, ThreadFacts DEF TypeInv, dequeue
    <2> QED BY <1>7, <2>1, <2>2 DEF TypeInv, dequeue, Goto
<1>8. ASSUME NEW c \in Consumers, dequeue_check(c) PROVE TypeInv'
    BY <1>8 DEF TypeInv, dequeue_check, Goto, Threads
<1>9. ASSUME NEW c \in Consumers, dequeue_fetch(c) PROVE TypeInv'
    <2>1. c \in Threads
        BY DEF Threads
    <2>2. loc[c].rd \in Int /\ m_size \in Nat \ {0}
        BY <2>1, ThreadFacts, SizeFacts DEF Indexes
    <2>3. loc[c].rd % m_size \in 0 .. m_size - 1
        BY Zenon, <2>2, ModFacts
    <2>4. mp_elems[loc[c].rd % m_size] \in Tasks \cup {Blank}
        BY <2>3 DEF TypeInv
    <2>5. loc' \in [Threads -> [rd : Indexes, wr : Indexes, ele : Tasks \cup {Blank}]]
        BY <1>9, <2>1, <2>4, ThreadFacts DEF TypeInv, dequeue_fetch
    <2> QED BY <1>9, <2>1, <2>5 DEF TypeInv, dequeue_fetch, Goto
<1>10. ASSUME NEW c \in Consumers, dequeue_take(c) PROVE TypeInv'
    <2> DEFINE S == Tasks \cup {Blank}
    <2>1. loc[c].ele \in S /\ taken \in Seq(S)
        BY ThreadFacts DEF Threads, TypeInv
    <2>2. taken' \in Seq(S)
        <3> HIDE DEF S
        <3>1. taken' = taken \/ taken' = Append(taken, loc[c].ele)
            BY <1>10 DEF dequeue_take
        <3> QED BY <2>1, <3>1
    <2> QED BY Zenon, <1>10, <2>2 DEF TypeInv, dequeue_take, Goto, Threads
<1>11. ASSUME queue_resize PROVE TypeInv'
    <2>1. resizes' \in 0 .. MaxResize
        BY <1>11, QueueAssumption DEF TypeInv, queue_resize
    <2>2. (resizes + 1) * Extra = resizes * Extra + Extra
        BY QueueAssumption DEF TypeInv
    <2>3. m_size' = Size + resizes' * Extra
        <3>1. resizes * Extra \in Nat
            BY QueueAssumption DEF TypeInv
        <3> QED BY <1>11, <2>2, <3>1, QueueAssumption DEF TypeInv, queue_resize
    <2>4. mp_elems' \in [0 .. m_size' - 1 -> Tasks \cup {Blank}]
        BY <1>11, SizeFacts DEF TypeInv, queue_resize
    <2> QED BY <1>11, <2>1, <2>3, <2>4 DEF TypeInv, queue_resize
<1>12. CASE UNCHANGED vars
    BY <1>12 DEF TypeInv, vars
<1> QED BY <1>1, <1>2, <1>3, <1>4, <1>5, <1>6, <1>7, <1>8, <1>9, <1>10, <1>11, <1>12
        DEF Next, enqueue_step, dequeue_step

-----------------------------------------------------------------------------
(* How often m_wrindex can still be moved. *)

LEMMA LeftFacts ==
    ASSUME TypeInv
    PROVE  /\ IsFiniteSet(Pending) /\ Cardinality(Pending) \in Nat /\ Left \in Nat
           /\ \A p \in Pending : Left >= 1
<1>1. IsFiniteSet(Pending)
    BY QueueAssumption, FS_Subset DEF Pending
<1>2. Cardinality(Pending) \in Nat
    BY <1>1, FS_CardinalityType
<1>3. MaxTasks + 1 - next \in Nat
    BY QueueAssumption DEF TypeInv
<1>4. \A p \in Pending : Cardinality(Pending) # 0
    BY <1>1, FS_EmptySet
<1> QED BY <1>1, <1>2, <1>3, <1>4 DEF Left

LEMMA LeftSame ==
    ASSUME Pending' = Pending, next' = next
    PROVE  Left' = Left
BY DEF Left

LEMMA LeftLess ==
    ASSUME TypeInv, NEW p \in Pending, Pending' = Pending \ {p}, next' = next
    PROVE  Left' = Left - 1
<1>1. IsFiniteSet(Pending) /\ Cardinality(Pending) \in Nat
    BY LeftFacts
<1>2. Cardinality(Pending \ {p}) = Cardinality(Pending) - 1
    BY Zenon, <1>1, FS_RemoveElement
<1>3. next \in Nat /\ MaxTasks \in Nat
    BY QueueAssumption DEF TypeInv
<1> QED BY <1>1, <1>2, <1>3 DEF Left

LEMMA LeftMore ==
    ASSUME TypeInv, NEW p, p \notin Pending, Pending' = Pending \cup {p}, next' = next + 1
    PROVE  Left' = Left
<1>1. IsFiniteSet(Pending) /\ Cardinality(Pending) \in Nat
    BY LeftFacts
<1>2. Cardinality(Pending \cup {p}) = Cardinality(Pending) + 1
    BY <1>1, FS_AddElement
<1>3. next \in Nat /\ MaxTasks \in Nat
    BY QueueAssumption DEF TypeInv
<1> QED BY <1>1, <1>2, <1>3 DEF Left

(* A thread that goes on to another step changes no other one's. *)
LEMMA GotoFacts ==
    ASSUME TypeInv, NEW t \in Threads, NEW label, Goto(t, label)
    PROVE  pc'[t] = label /\ \A u \in Threads \ {t} : pc'[u] = pc[u]
BY DEF TypeInv, Goto

LEMMA TwoSides ==
    /\ Producers \subseteq Threads /\ Consumers \subseteq Threads
    /\ \A p \in Producers, c \in Consumers : p # c
BY QueueAssumption DEF Threads

LEMMA EnqueueLeft ==
    ASSUME TypeInv, RoomInv, NEW p \in Producers
    PROVE  /\ enqueue(p) => Left' = Left
           /\ enqueue_load(p) => Left' = Left
           /\ enqueue_check(p) => p \in Pending /\ (Left' = Left \/ Left' = Left - 1)
           /\ enqueue_claim(p) => p \in Pending /\ (IF m_wrindex = loc[p].wr THEN Left' = Left - 1 ELSE Left' = Left)
           /\ enqueue_store(p) => Left' = Left
           /\ enqueue_publish(p) => IF Mode = "SINGLE" THEN p \in Pending /\ Left' = Left - 1 ELSE Left' = Left
<1>0. p \in Threads /\ \A q \in Producers : q \in Threads
    BY DEF Threads
<1> USE <1>0
<1>1. ASSUME enqueue(p) PROVE Left' = Left
    <2>1. p \notin Pending
        BY <1>1 DEF enqueue, Pending
    <2>2. Pending' = Pending \cup {p}
        BY <1>1, GotoFacts DEF enqueue, Pending
    <2> QED BY <1>1, <2>1, <2>2, LeftMore DEF enqueue
<1>2. ASSUME enqueue_load(p) PROVE Left' = Left
    <2>1. Pending' = Pending
        BY <1>2, GotoFacts DEF enqueue_load, Pending
    <2> QED BY <1>2, <2>1, LeftSame DEF enqueue_load
<1>3. ASSUME enqueue_check(p) PROVE p \in Pending /\ (Left' = Left \/ Left' = Left - 1)
    <2>1. p \in Pending
        BY <1>3 DEF enqueue_check, Pending
    <2>2. pc'[p] \in {"idle", "claim", "store"} /\ (pc'[p] = "store" => Mode = "SINGLE")
        BY <1>3, GotoFacts, QueueAssumption DEF enqueue_check
    <2>3. Pending' = Pending \/ Pending' = Pending \ {p}
        BY <1>3, <2>1, <2>2, GotoFacts DEF enqueue_check, Pending
    <2> QED BY <1>3, <2>1, <2>3, LeftSame, LeftLess DEF enqueue_check
<1>4. ASSUME enqueue_claim(p)
      PROVE  p \in Pending /\ (IF m_wrindex = loc[p].wr THEN Left' = Left - 1 ELSE Left' = Left)
    <2>1. p \in Pending /\ Mode = "MULTI"
        BY <1>4 DEF enqueue_claim, Pending, RoomInv
    <2>2. Pending' = IF m_wrindex = loc[p].wr THEN Pending \ {p} ELSE Pending
        BY <1>4, <2>1, GotoFacts DEF enqueue_claim, Pending
    <2> QED BY <1>4, <2>1, <2>2, LeftSame, LeftLess DEF enqueue_claim
<1>5. ASSUME enqueue_store(p) PROVE Left' = Left
    <2>1. Pending' = Pending
        BY <1>5, GotoFacts DEF enqueue_store, Pending
    <2> QED BY <1>5, <2>1, LeftSame DEF enqueue_store
<1>6. ASSUME enqueue_publish(p)
      PROVE  IF Mode = "SINGLE" THEN p \in Pending /\ Left' = Left - 1 ELSE Left' = Left
    <2>1. Mode = "SINGLE" => p \in Pending
        BY <1>6 DEF enqueue_publish, Pending
    <2>2. Pending' = IF Mode = "SINGLE" THEN Pending \ {p} ELSE Pending
        BY <1>6, <2>1, GotoFacts, QueueAssumption DEF enqueue_publish, Pending
    <2> QED BY <1>6, <2>1, <2>2, LeftSame, LeftLess DEF enqueue_publish
<1> QED BY <1>1, <1>2, <1>3, <1>4, <1>5, <1>6

LEMMA DequeueLeft ==
    ASSUME TypeInv, NEW c \in Consumers, dequeue_step(c)
    PROVE  Left' = Left
<1>1. /\ next' = next
      /\ \E label \in {"check_empty", "idle", "fetch", "take", "load_rd"} : Goto(c, label)
    BY DEF dequeue_step, dequeue, dequeue_check, dequeue_fetch, dequeue_take
<1>2. \A p \in Producers : pc'[p] = pc[p]
    BY <1>1, TwoSides, GotoFacts
<1> QED BY <1>1, <1>2, LeftSame DEF Pending

-----------------------------------------------------------------------------
(* What a loaded index is worth. *)

LEMMA CountKept ==
    ASSUME TypeInv, CountInv, TypeInv', UNCHANGED <<m_rdindex, m_wrindex>>,
           Left' = Left \/ Left' = Left - 1,
           \A p \in Producers : pc'[p] \in {"check_full", "claim"} =>
                \/ loc'[p].wr = m_wrindex
                \/ pc[p] \in {"check_full", "claim"} /\ loc'[p].wr = loc[p].wr,
           \A c \in Consumers : pc'[c] \in {"check_empty", "fetch", "take"} =>
                \/ loc'[c].rd = m_rdindex
                \/ pc[c] \in {"check_empty", "fetch", "take"} /\ loc'[c].rd = loc[c].rd
    PROVE  CountInv'
<1>1. Left \in Nat /\ MaxTasks \in Nat
    BY LeftFacts, QueueAssumption
<1>2. /\ m_rdindex \in Indexes /\ m_wrindex \in Indexes
      /\ \A t \in Threads : loc[t].wr \in Indexes /\ loc[t].rd \in Indexes
    BY ThreadFacts DEF TypeInv
<1>3. \A i, j \in Indexes : Dist(i, j) \in Nat /\ Dist(i, i) = 0
    BY Zenon, DistFacts
<1>4. Dist(m_rdindex, m_wrindex)' = Dist(m_rdindex, m_wrindex)
    BY DEF Dist
<1>5. \A p \in Producers : pc'[p] \in {"check_full", "claim"} =>
            Dist(loc'[p].wr, m_wrindex) + Left' <= MaxTasks
    BY <1>1, <1>2, <1>3, TwoSides DEF CountInv
<1>6. \A c \in Consumers : pc'[c] \in {"check_empty", "fetch", "take"} =>
            Dist(loc'[c].rd, m_rdindex) + Dist(m_rdindex, m_wrindex) + Left' <= MaxTasks
    BY <1>1, <1>2, <1>3, TwoSides DEF CountInv
<1> QED BY <1>1, <1>2, <1>3, <1>4, <1>5, <1>6 DEF CountInv

(* m_wrindex moves away from every index that was loaded from it. *)
LEMMA WriteMoves ==
    ASSUME MaxTasks < Word, IInv, NEW p \in Producers, p \in Pending, Left' = Left - 1,
           m_wrindex' = Inc(m_wrindex), UNCHANGED <<m_rdindex, m_size, loc>>,
           NEW label \in {"store", "idle"}, Goto(p, label), label = "store" => Mode = "MULTI",
           Dist(m_rdindex, m_wrindex) < m_size - 1
    PROVE  CountInv' /\ RoomInv'
<1>0. TypeInv /\ CountInv /\ RoomInv /\ m_size \in Int
    <2>1. resizes * Extra \in Nat
        BY QueueAssumption DEF IInv, TypeInv
    <2> QED BY <2>1, QueueAssumption DEF IInv, TypeInv
<1> USE <1>0
<1>1. Left \in Nat /\ Left >= 1 /\ MaxTasks \in Nat /\ Word \in Nat
    BY LeftFacts, QueueAssumption
<1>2. /\ m_rdindex \in Indexes /\ m_wrindex \in Indexes
      /\ \A t \in Threads : loc[t].wr \in Indexes /\ loc[t].rd \in Indexes
    BY ThreadFacts DEF TypeInv
<1>3. /\ pc'[p] = label
      /\ \A q \in Producers : q = p \/ pc'[q] = pc[q]
      /\ \A c \in Consumers : pc'[c] = pc[c]
    BY GotoFacts, TwoSides
<1>4. ASSUME NEW i \in Indexes, Dist(i, m_wrindex) + Left <= MaxTasks
      PROVE  /\ Dist(i, Inc(m_wrindex)) = Dist(i, m_wrindex) + 1
             /\ Dist(i, m_wrindex) \in Nat /\ i # Inc(m_wrindex)
    <2>1. Dist(i, m_wrindex) \in Nat /\ Dist(i, m_wrindex) < Word - 1
        BY <1>1, <1>2, <1>4, DistFacts
    <2>2. Dist(i, Inc(m_wrindex)) = Dist(i, m_wrindex) + 1 /\ Inc(m_wrindex) \in Indexes
        BY Zenon, <1>2, <2>1, DistFacts
    <2>3. i = Inc(m_wrindex) => Dist(i, Inc(m_wrindex)) = 0
        BY Zenon, <2>2, DistFacts
    <2> QED BY <2>1, <2>2, <2>3
<1>5. /\ Dist(m_rdindex, m_wrindex)' = Dist(m_rdindex, m_wrindex) + 1
      /\ Dist(m_rdindex, m_wrindex) \in Nat /\ m_rdindex # Inc(m_wrindex)
    BY <1>2, <1>4 DEF CountInv, Dist
<1>6. \A q \in Producers : pc'[q] \in {"check_full", "claim"} =>
            /\ pc[q] = pc'[q] /\ m_wrindex' # loc[q].wr
            /\ Dist(loc[q].wr, m_wrindex)' = Dist(loc[q].wr, m_wrindex) + 1
            /\ Dist(loc[q].wr, m_wrindex) \in Nat
            /\ Dist(loc[q].wr, m_wrindex) + Left <= MaxTasks
    BY <1>2, <1>3, <1>4, TwoSides DEF CountInv, Dist
<1>7. \A c \in Consumers : Dist(loc[c].rd, m_rdindex)' = Dist(loc[c].rd, m_rdindex)
    BY DEF Dist
<1>8. \A c \in Consumers : Dist(loc[c].rd, m_rdindex) \in Nat
    BY Zenon, <1>2, TwoSides, DistFacts
<1>9. CountInv'
    BY <1>1, <1>3, <1>5, <1>6, <1>7, <1>8 DEF CountInv
<1>10. NeverOverfull'
    BY <1>5 DEF NeverOverfull
<1>11. Mode = "SINGLE" => \A q \in Producers : pc'[q] = "idle"
    BY <1>3, QueueAssumption
<1>12. \A q \in Producers : pc'[q] = "claim" => Mode = "MULTI"
    BY <1>6 DEF RoomInv
<1> QED BY <1>3, <1>5, <1>6, <1>9, <1>10, <1>11, <1>12 DEF RoomInv

(* m_rdindex moves to no index that was loaded from it. *)
LEMMA LoadedBehind ==
    ASSUME MaxTasks < Word, TypeInv, CountInv, m_rdindex # m_wrindex,
           NEW c \in Consumers, pc[c] \in {"check_empty", "fetch", "take"}
    PROVE  /\ Inc(m_rdindex) # loc[c].rd
           /\ Dist(loc[c].rd, Inc(m_rdindex)) = Dist(loc[c].rd, m_rdindex) + 1
           /\ Dist(loc[c].rd, m_rdindex) \in Nat
<1>1. Left \in Nat /\ MaxTasks \in Nat /\ Word \in Nat
    BY LeftFacts, QueueAssumption
<1>2. m_rdindex \in Indexes /\ m_wrindex \in Indexes /\ loc[c].rd \in Indexes
    BY ThreadFacts, TwoSides DEF TypeInv
<1>3. Dist(m_rdindex, m_wrindex) \in Nat \ {0} /\ Dist(loc[c].rd, m_rdindex) \in Nat
    BY Zenon, <1>2, DistFacts
<1>4. Dist(loc[c].rd, m_rdindex) + Dist(m_rdindex, m_wrindex) + Left <= MaxTasks
    BY DEF CountInv
<1>5. Dist(loc[c].rd, m_rdindex) < Word - 1
    BY <1>1, <1>3, <1>4
<1>6. Dist(loc[c].rd, Inc(m_rdindex)) = Dist(loc[c].rd, m_rdindex) + 1 /\ Inc(m_rdindex) \in Indexes
    BY Zenon, <1>2, <1>5, DistFacts
<1>7. loc[c].rd = Inc(m_rdindex) => Dist(loc[c].rd, Inc(m_rdindex)) = 0
    BY Zenon, <1>2, <1>6, DistFacts
<1> QED BY <1>3, <1>6, <1>7

(* m_rdindex moves away from every index that was loaded from it. *)
LEMMA ReadMoves ==
    ASSUME MaxTasks < Word, IInv, NEW c \in Consumers, pc[c] = "take", m_rdindex = loc[c].rd,
           m_rdindex' = Inc(m_rdindex), UNCHANGED <<m_wrindex, m_size, loc>>, Goto(c, "idle"),
           Left' = Left
    PROVE  CountInv' /\ RoomInv'
<1>0. TypeInv /\ CountInv /\ RoomInv /\ m_size \in Int
    <2>1. resizes * Extra \in Nat
        BY QueueAssumption DEF IInv, TypeInv
    <2> QED BY <2>1, QueueAssumption DEF IInv, TypeInv
<1> USE <1>0
<1>1. Left \in Nat /\ MaxTasks \in Nat /\ Word \in Nat
    BY LeftFacts, QueueAssumption
<1>2. /\ m_rdindex \in Indexes /\ m_wrindex \in Indexes /\ m_rdindex # m_wrindex
      /\ \A t \in Threads : loc[t].wr \in Indexes /\ loc[t].rd \in Indexes
    BY ThreadFacts DEF TypeInv, RoomInv
<1>3. /\ pc'[c] = "idle"
      /\ \A d \in Consumers : d = c \/ pc'[d] = pc[d]
      /\ \A p \in Producers : pc'[p] = pc[p]
    BY GotoFacts, TwoSides
<1>4. /\ Dist(m_rdindex, m_wrindex)' = Dist(m_rdindex, m_wrindex) - 1
      /\ Dist(m_rdindex, m_wrindex) \in Nat /\ Dist(m_rdindex, m_wrindex) >= 1
    <2>1. Dist(Inc(m_rdindex), m_wrindex) = Dist(m_rdindex, m_wrindex) - 1
        BY <1>2, DistFacts
    <2>2. Dist(m_rdindex, m_wrindex) \in Nat /\ Dist(m_rdindex, m_wrindex) # 0
        BY <1>2, DistFacts
    <2> QED BY <2>1, <2>2 DEF Dist
<1>6. \A d \in Consumers : pc'[d] \in {"check_empty", "fetch", "take"} =>
            /\ pc[d] = pc'[d] /\ m_rdindex' # loc[d].rd
            /\ Dist(loc[d].rd, m_rdindex)' = Dist(loc[d].rd, m_rdindex) + 1
            /\ Dist(loc[d].rd, m_rdindex) \in Nat
            /\ Dist(loc[d].rd, m_rdindex) + Dist(m_rdindex, m_wrindex) + Left <= MaxTasks
    BY <1>2, <1>3, LoadedBehind DEF CountInv, Dist
<1>7. \A p \in Producers : Dist(loc[p].wr, m_wrindex)' = Dist(loc[p].wr, m_wrindex)
    BY DEF Dist
<1>8. CountInv'
    BY <1>1, <1>3, <1>4, <1>6, <1>7 DEF CountInv
<1>9. NeverOverfull'
    BY <1>4 DEF NeverOverfull, RoomInv
<1> QED BY <1>3, <1>4, <1>6, <1>8, <1>9 DEF RoomInv

-----------------------------------------------------------------------------
(* What a check finds, if the index it started from has not moved. *)

LEMMA FullFacts ==
    ASSUME Aligned, MaxTasks < Word, IInv, NEW p \in Producers, pc[p] = "check_full"
    PROVE  is_full(m_wrindex, m_rdindex) <=> Dist(m_rdindex, m_wrindex) = m_size - 1
<1>0. /\ TypeInv /\ m_size \in Nat \ {0} /\ Word % m_size = 0
      /\ m_rdindex \in Indexes /\ m_wrindex \in Indexes
    BY SizeFacts DEF IInv, TypeInv
<1> USE <1>0
<1>1. p \in Pending
    BY DEF Pending
<1>2. Left \in Nat /\ Left >= 1 /\ MaxTasks \in Nat /\ Word \in Nat
    BY <1>1, LeftFacts, QueueAssumption
<1>3. Dist(m_rdindex, m_wrindex) \in Nat /\ Dist(m_rdindex, m_wrindex) < m_size
    BY Zenon, DistFacts DEF IInv, RoomInv, NeverOverfull
<1>4. Dist(m_rdindex, m_wrindex) < Word - 1
    BY <1>2, <1>3 DEF IInv, CountInv
<1>5. Inc(m_wrindex) \in Indexes /\ Dist(m_rdindex, Inc(m_wrindex)) = Dist(m_rdindex, m_wrindex) + 1
    BY Zenon, <1>4, DistFacts
<1>6. ASSUME Dist(m_rdindex, m_wrindex) = m_size - 1 PROVE is_full(m_wrindex, m_rdindex)
    <2>1. Dist(m_rdindex, Inc(m_wrindex)) = m_size
        BY <1>3, <1>5, <1>6
    <2> QED BY <1>5, <2>1, SlotsMeet DEF is_full
<1>7. ASSUME Dist(m_rdindex, m_wrindex) # m_size - 1 PROVE ~is_full(m_wrindex, m_rdindex)
    <2>1. Dist(m_rdindex, Inc(m_wrindex)) \in 1 .. m_size - 1
        BY <1>3, <1>5, <1>7
    <2> QED BY <1>5, <2>1, SlotsDiffer DEF is_full
<1> QED BY <1>6, <1>7

LEMMA EmptyFacts ==
    ASSUME Aligned, IInv
    PROVE  is_empty(m_wrindex, m_rdindex) <=> m_rdindex = m_wrindex
<1>0. /\ m_size \in Nat \ {0} /\ Word % m_size = 0
      /\ m_rdindex \in Indexes /\ m_wrindex \in Indexes
    BY SizeFacts DEF IInv, TypeInv
<1>1. ASSUME m_rdindex # m_wrindex PROVE ~is_empty(m_wrindex, m_rdindex)
    <2>1. Dist(m_rdindex, m_wrindex) \in 1 .. m_size - 1
        BY <1>0, <1>1, DistFacts DEF IInv, RoomInv, NeverOverfull
    <2> QED BY <1>0, <2>1, SlotsDiffer DEF is_empty
<1> QED BY <1>1 DEF is_empty

(* The steps that move neither index. *)
LEMMA EnqueueKept ==
    ASSUME Aligned, MaxTasks < Word, IInv, TypeInv', NEW p \in Producers,
           enqueue(p) \/ enqueue_step(p), UNCHANGED m_wrindex
    PROVE  CountInv' /\ RoomInv'
<1>0. /\ TypeInv /\ CountInv /\ RoomInv /\ p \in Threads /\ loc \in [Threads -> [rd : Indexes, wr : Indexes, ele : Tasks \cup {Blank}]]
      /\ UNCHANGED <<m_rdindex, m_wrindex, m_size>>
    BY TwoSides DEF IInv, TypeInv, enqueue, enqueue_step, enqueue_load, enqueue_check, enqueue_claim,
       enqueue_store, enqueue_publish
<1> USE <1>0
<1>1. /\ \A q \in Producers : q = p \/ (pc'[q] = pc[q] /\ loc'[q] = loc[q])
      /\ \A c \in Consumers : pc'[c] = pc[c] /\ loc'[c] = loc[c]
    <2>1. /\ \E label \in {"load_wr", "idle", "check_full", "claim", "store", "publish"} : Goto(p, label)
          /\ \A t \in Threads \ {p} : loc'[t] = loc[t]
        BY DEF enqueue, enqueue_step, enqueue_load, enqueue_check, enqueue_claim,
           enqueue_store, enqueue_publish
    <2> QED BY <2>1, GotoFacts, TwoSides
<1>2. Left' = Left \/ Left' = Left - 1
    BY EnqueueLeft DEF enqueue_step
<1>3. Dist(m_rdindex, m_wrindex)' = Dist(m_rdindex, m_wrindex)
    BY DEF Dist
<1>4. NeverOverfull'
    BY <1>3 DEF RoomInv, NeverOverfull
<1>5. CASE enqueue(p) \/ enqueue_load(p)
    <2>1. \/ pc'[p] = "load_wr"
          \/ pc'[p] = "check_full" /\ loc'[p].wr = m_wrindex
        BY <1>5, GotoFacts DEF enqueue, enqueue_load
    <2>2. CountInv'
        BY <1>1, <1>2, <2>1, CountKept
    <2> QED BY <1>1, <1>3, <1>4, <2>1, <2>2 DEF RoomInv
<1>6. CASE enqueue_check(p)
    <2>1. /\ pc[p] = "check_full" /\ loc' = loc
          /\ \/ pc'[p] = "idle"
             \/ /\ pc'[p] = (IF Mode = "MULTI" THEN "claim" ELSE "store")
                /\ ~is_full(loc[p].wr, m_rdindex)
        BY <1>6, GotoFacts DEF enqueue_check
    <2>2. pc'[p] # "idle" /\ m_wrindex = loc[p].wr => Dist(m_rdindex, m_wrindex) < m_size - 1
        <3>1. m_size \in Nat \ {0} /\ Dist(m_rdindex, m_wrindex) \in Nat
            BY Zenon, SizeFacts, DistFacts DEF TypeInv
        <3> QED BY <2>1, <3>1, FullFacts DEF RoomInv, NeverOverfull
    <2>3. Mode = "SINGLE" => m_wrindex = loc[p].wr
        BY <2>1 DEF RoomInv
    <2>4. CountInv'
        BY <1>1, <1>2, <2>1, CountKept
    <2> QED BY <1>1, <1>3, <1>4, <2>1, <2>2, <2>3, <2>4, QueueAssumption DEF RoomInv
<1>7. CASE enqueue_claim(p)
    <2>1. loc' = loc /\ pc[p] = "claim" /\ pc'[p] \in {"load_wr", "store"}
        BY <1>7, GotoFacts DEF enqueue_claim
    <2>2. Mode = "MULTI"
        BY <2>1 DEF RoomInv
    <2>3. CountInv'
        BY <1>1, <1>2, <2>1, CountKept
    <2> QED BY <1>1, <1>3, <1>4, <2>1, <2>2, <2>3 DEF RoomInv
<1>8. CASE enqueue_store(p) \/ enqueue_publish(p)
    <2>1. /\ loc' = loc
          /\ \/ pc[p] = "store" /\ pc'[p] = "publish"
             \/ pc'[p] = "idle"
        BY <1>8, GotoFacts DEF enqueue_store, enqueue_publish
    <2>2. CountInv'
        BY <1>1, <1>2, <2>1, CountKept
    <2> QED BY <1>1, <1>3, <1>4, <2>1, <2>2 DEF RoomInv
<1> QED BY <1>5, <1>6, <1>7, <1>8 DEF enqueue_step

LEMMA DequeueKept ==
    ASSUME Aligned, IInv, TypeInv', NEW c \in Consumers, dequeue_step(c), UNCHANGED m_rdindex
    PROVE  CountInv' /\ RoomInv'
<1>0. /\ TypeInv /\ CountInv /\ RoomInv /\ c \in Threads /\ loc \in [Threads -> [rd : Indexes, wr : Indexes, ele : Tasks \cup {Blank}]]
      /\ UNCHANGED <<m_rdindex, m_wrindex, m_size>>
    BY TwoSides DEF IInv, TypeInv, dequeue_step, dequeue, dequeue_check, dequeue_fetch, dequeue_take
<1> USE <1>0
<1>1. /\ \A d \in Consumers : d = c \/ (pc'[d] = pc[d] /\ loc'[d] = loc[d])
      /\ \A p \in Producers : pc'[p] = pc[p] /\ loc'[p] = loc[p]
    <2>1. /\ \E label \in {"check_empty", "idle", "fetch", "take", "load_rd"} : Goto(c, label)
          /\ \A t \in Threads \ {c} : loc'[t] = loc[t]
        BY DEF dequeue_step, dequeue, dequeue_check, dequeue_fetch, dequeue_take
    <2> QED BY <2>1, GotoFacts, TwoSides
<1>2. Left' = Left
    BY DequeueLeft
<1>3. Dist(m_rdindex, m_wrindex)' = Dist(m_rdindex, m_wrindex)
    BY DEF Dist
<1>4. NeverOverfull'
    BY <1>3 DEF RoomInv, NeverOverfull
<1>5. \/ pc'[c] = "check_empty" /\ loc'[c].rd = m_rdindex
      \/ /\ pc[c] = "check_empty" /\ loc'[c] = loc[c]
         /\ pc'[c] = "fetch" => ~is_empty(m_wrindex, loc[c].rd)
         /\ pc'[c] \in {"idle", "fetch"}
      \/ pc[c] = "fetch" /\ loc'[c].rd = loc[c].rd /\ pc'[c] = "take"
      \/ pc'[c] \in {"idle", "load_rd"}
    BY GotoFacts DEF dequeue_step, dequeue, dequeue_check, dequeue_fetch, dequeue_take
<1>6. pc'[c] \in {"fetch", "take"} => (m_rdindex = loc'[c].rd => m_rdindex # m_wrindex)
    BY <1>5, EmptyFacts DEF RoomInv
<1>7. CountInv'
    BY <1>1, <1>2, <1>5, CountKept
<1> QED BY <1>1, <1>3, <1>4, <1>6, <1>7 DEF RoomInv

LEMMA ResizeKept ==
    ASSUME Aligned, IInv, TypeInv', queue_resize
    PROVE  CountInv' /\ RoomInv'
<1>0. /\ TypeInv /\ CountInv /\ RoomInv /\ m_size \in Nat /\ Extra \in Nat \ {0} /\ m_size' = m_size + Extra
      /\ UNCHANGED <<m_rdindex, m_wrindex, pc, loc, next>> /\ \A t \in Threads : pc[t] = "idle"
    BY SizeFacts, QueueAssumption DEF IInv, queue_resize
<1> USE <1>0
<1>1. Left' = Left
    BY LeftSame DEF Pending
<1>2. CountInv'
    BY <1>1, TwoSides, CountKept
<1>3. Dist(m_rdindex, m_wrindex)' = Dist(m_rdindex, m_wrindex) /\ Dist(m_rdindex, m_wrindex) \in Nat
    <2>1. m_rdindex \in Indexes /\ m_wrindex \in Indexes
        BY DEF TypeInv
    <2> QED BY <2>1, DistFacts DEF Dist
<1>4. NeverOverfull'
    BY <1>3 DEF RoomInv, NeverOverfull
<1> QED BY <1>2, <1>4, TwoSides DEF RoomInv

LEMMA Step ==
    ASSUME Aligned, MaxTasks < Word, IInv, [Next]_vars
    PROVE  IInv'
<1>0. TypeInv /\ CountInv /\ RoomInv /\ TypeInv'
    BY TypeStep DEF IInv
<1> USE <1>0
<1>1. ASSUME NEW p \in Producers, enqueue(p) \/ enqueue_step(p) PROVE CountInv' /\ RoomInv'
    <2>1. CASE m_wrindex' = m_wrindex
        BY <1>1, <2>1, EnqueueKept
    <2>2. CASE enqueue_claim(p) /\ m_wrindex = loc[p].wr
        <3>1. p \in Pending /\ Left' = Left - 1
            BY <2>2, EnqueueLeft
        <3>2. Mode = "MULTI" /\ Dist(m_rdindex, m_wrindex) < m_size - 1
            BY <2>2 DEF RoomInv, enqueue_claim
        <3> QED BY <2>2, <3>1, <3>2, WriteMoves DEF enqueue_claim
    <2>3. CASE enqueue_publish(p) /\ Mode = "SINGLE"
        <3>1. p \in Pending /\ Left' = Left - 1
            BY <2>3, EnqueueLeft
        <3>2. Dist(m_rdindex, m_wrindex) < m_size - 1
            BY <2>3 DEF RoomInv, enqueue_publish
        <3> QED BY <2>3, <3>1, <3>2, WriteMoves DEF enqueue_publish
    <2> QED BY <1>1, <2>1, <2>2, <2>3
            DEF enqueue, enqueue_step, enqueue_load, enqueue_check, enqueue_claim, enqueue_store, enqueue_publish
<1>2. ASSUME NEW c \in Consumers, dequeue_step(c) PROVE CountInv' /\ RoomInv'
    <2>1. CASE m_rdindex' = m_rdindex
        BY <1>2, <2>1, DequeueKept
    <2>2. CASE dequeue_take(c) /\ m_rdindex = loc[c].rd
        <3>1. Left' = Left
            BY <1>2, DequeueLeft
        <3> QED BY <2>2, <3>1, ReadMoves DEF dequeue_take
    <2> QED BY <1>2, <2>1, <2>2 DEF dequeue_step, dequeue, dequeue_check, dequeue_fetch, dequeue_take
<1>3. ASSUME queue_resize PROVE CountInv' /\ RoomInv'
    BY <1>3, ResizeKept
<1>4. CASE UNCHANGED vars
    <2>1. UNCHANGED <<m_rdindex, m_wrindex, m_size, pc, loc, next>>
        BY <1>4 DEF vars
    <2>2. Left' = Left
        BY <2>1, LeftSame DEF Pending
    <2>3. Dist(m_rdindex, m_wrindex)' = Dist(m_rdindex, m_wrindex)
        BY <2>1 DEF Dist
    <2>4. CountInv'
        BY <2>1, <2>2, CountKept
    <2> QED BY <2>1, <2>3, <2>4 DEF IInv, RoomInv, NeverOverfull
<1> QED BY <1>1, <1>2, <1>3, <1>4 DEF Next, IInv

LEMMA InitIInv ==
    ASSUME Init
    PROVE  IInv
<1>1. TypeInv
    <2>1. m_size = Size + 0 * Extra /\ Size \in Nat
        BY QueueAssumption DEF Init
    <2>2. m_rdindex \in Indexes /\ m_wrindex \in Indexes /\ m_max_rdindex \in Indexes
        BY QueueAssumption DEF Init, Indexes
    <2>3. mp_elems \in [0 .. m_size - 1 -> Tasks \cup {Blank}]
        BY DEF Init
    <2>4. loc \in [Threads -> [rd : Indexes, wr : Indexes, ele : Tasks \cup {Blank}]]
        BY WordFacts DEF Init
    <2>5. next \in 1 .. MaxTasks + 1 /\ resizes \in 0 .. MaxResize /\ taken \in Seq(Tasks \cup {Blank})
        BY QueueAssumption DEF Init
    <2> QED BY <2>1, <2>2, <2>3, <2>4, <2>5 DEF Init, TypeInv
<1>2. Pending = {} /\ \A t \in Threads : pc[t] = "idle"
    BY TwoSides DEF Init, Pending
<1>3. Left = MaxTasks
    BY <1>2, FS_EmptySet, QueueAssumption DEF Left, Init
<1>4. Dist(m_rdindex, m_wrindex) = 0
    BY Zenon, <1>1, DistFacts DEF Init, TypeInv
<1>5. NeverOverfull
    BY <1>4, QueueAssumption DEF NeverOverfull, Init
<1> QED BY <1>1, <1>2, <1>3, <1>4, <1>5, TwoSides, QueueAssumption DEF IInv, CountInv, RoomInv

LEMMA Always ==
    ASSUME Aligned, MaxTasks < Word
    PROVE  Spec => []IInv
<1>1. Init => IInv
    BY InitIInv
<1>2. IInv /\ [Next]_vars => IInv'
    BY Step
<1> QED BY <1>1, <1>2, PTL DEF Spec

-----------------------------------------------------------------------------
(* The indexes never lap each other, in both modes and over every resize,  *)
(* although is_full compares what may be old values of both.               *)
THEOREM RoomTheorem ==
    ASSUME Aligned, MaxTasks < Word
    PROVE  Spec => []NeverOverfull
<1>1. IInv => NeverOverfull
    BY DEF IInv, RoomInv
<1> QED BY <1>1, Always, PTL

(* enqueue returns false only when the ring is full and dequeue only when  *)
(* it is empty, or when another thread has moved the index since the call  *)
(* loaded it.                                                              *)
THEOREM RefusalTheorem ==
    ASSUME Aligned, MaxTasks < Word
    PROVE  Spec => RefusalsJustified
<1>1. ASSUME IInv, Next, NEW p \in Producers, pc[p] = "check_full", pc'[p] = "idle", m_wrindex = loc[p].wr
      PROVE  Dist(m_rdindex, m_wrindex) = m_size - 1
    <2>1. enqueue_check(p)
        <3>1. TypeInv /\ p \in Threads
            BY <1>1, TwoSides DEF IInv
        <3>2. ASSUME NEW q \in Producers, enqueue(q) \/ enqueue_step(q) PROVE q = p /\ enqueue_check(p)
            <4>1. q = p
                BY <1>1, <3>1, <3>2, GotoFacts, TwoSides DEF enqueue, enqueue_step, enqueue_load, enqueue_check, enqueue_claim, enqueue_store, enqueue_publish
            <4> QED BY <1>1, <3>2, <4>1 DEF enqueue, enqueue_step, enqueue_load, enqueue_check, enqueue_claim, enqueue_store, enqueue_publish
        <3>3. ASSUME NEW c \in Consumers, dequeue_step(c) PROVE FALSE
            <4>1. \E label \in {"check_empty", "idle", "fetch", "take", "load_rd"} : Goto(c, label)
                BY <3>3 DEF dequeue_step, dequeue, dequeue_check, dequeue_fetch, dequeue_take
            <4> QED BY <1>1, <3>1, <4>1, GotoFacts, TwoSides
        <3> QED BY <1>1, <3>1, <3>2, <3>3 DEF Next, queue_resize
    <2>2. is_full(m_wrindex, m_rdindex)
        BY <1>1, <2>1, GotoFacts, TwoSides DEF enqueue_check, IInv
    <2> QED BY <1>1, <2>2, FullFacts
<1>2. ASSUME IInv, Next, NEW c \in Consumers, pc[c] = "check_empty", pc'[c] = "idle", m_rdindex = loc[c].rd
      PROVE  m_rdindex = m_wrindex
    <2>1. dequeue_check(c)
        <3>1. TypeInv /\ c \in Threads
            BY <1>2, TwoSides DEF IInv
        <3>2. ASSUME NEW d \in Consumers, dequeue_step(d) PROVE dequeue_check(c)
            <4>1. d = c
                BY <1>2, <3>1, <3>2, GotoFacts, TwoSides DEF dequeue_step, dequeue, dequeue_check, dequeue_fetch, dequeue_take
            <4> QED BY <1>2, <3>2, <4>1 DEF dequeue_step, dequeue, dequeue_check, dequeue_fetch, dequeue_take
        <3>3. ASSUME NEW p \in Producers, enqueue(p) \/ enqueue_step(p) PROVE FALSE
            <4>1. \E label \in {"load_wr", "idle", "check_full", "claim", "store", "publish"} : Goto(p, label)
                BY <3>3 DEF enqueue, enqueue_step, enqueue_load, enqueue_check, enqueue_claim, enqueue_store, enqueue_publish
            <4> QED BY <1>2, <3>1, <4>1, GotoFacts, TwoSides
        <3> QED BY <1>2, <3>1, <3>2, <3>3 DEF Next, queue_resize
    <2>2. is_empty(m_wrindex, m_rdindex)
        BY <1>2, <2>1, GotoFacts, TwoSides DEF dequeue_check, IInv
    <2> QED BY <1>2, <2>2, EmptyFacts
<1>3. IInv /\ [Next]_vars =>
        [/\ \A p \in Producers : pc[p] = "check_full" /\ pc'[p] = "idle" =>
              Dist(m_rdindex, m_wrindex) = m_size - 1 \/ m_wrindex # loc[p].wr
         /\ \A c \in Consumers : pc[c] = "check_empty" /\ pc'[c] = "idle" =>
              m_rdindex = m_wrindex \/ m_rdindex # loc[c].rd]_vars
    BY <1>1, <1>2
<1> QED BY <1>3, Always, PTL DEF Spec, RefusalsJustified

-----------------------------------------------------------------------------
(* SINGLE without queue_resize: the ring is a FIFO. *)

(* The index d after a. *)
LEMMA IndexAfter ==
    ASSUME NEW a \in Indexes, NEW b \in Indexes, NEW d \in 0 .. Dist(a, b)
    PROVE  /\ (a + d) % Word = IF a + d < Word THEN a + d ELSE a + d - Word
           /\ (a + d) % Word \in Indexes
           /\ Dist((a + d) % Word, b) = Dist(a, b) - d
           /\ Dist(a, (a + d) % Word) = d
           /\ d = Dist(a, b) => (a + d) % Word = b
<1>0. Word \in Nat \ {0} /\ a \in 0 .. Word - 1 /\ b \in 0 .. Word - 1
    BY WordFacts DEF Indexes
<1> USE <1>0
<1>1. Dist(a, b) = IF b >= a THEN b - a ELSE b + Word - a
    BY IncDist
<1>2. d \in Nat /\ d <= Dist(a, b)
    BY <1>1
<1>3. a + d = IF a + d < Word THEN Word * 0 + (a + d) ELSE Word * 1 + (a + d - Word)
    BY <1>2
<1>4. (a + d) % Word = IF a + d < Word THEN a + d ELSE a + d - Word
    BY <1>1, <1>2, <1>3, ModUnique
<1> DEFINE k == (a + d) % Word
<1>5. k \in Indexes /\ k = IF a + d < Word THEN a + d ELSE a + d - Word
    BY <1>1, <1>2, <1>4 DEF Indexes
<1> HIDE DEF k
<1>6. Dist(k, b) = IF b >= k THEN b - k ELSE b + Word - k
    BY <1>5, IncDist
<1>7. Dist(k, b) = Dist(a, b) - d
    BY <1>1, <1>2, <1>5, <1>6
<1>8. d = Dist(a, b) => k = b
    BY <1>1, <1>2, <1>5
<1>9. Dist(a, k) = IF k >= a THEN k - a ELSE k + Word - a
    BY <1>5, IncDist
<1>10. Dist(a, k) = d
    BY <1>1, <1>2, <1>5, <1>9
<1> QED BY <1>4, <1>5, <1>7, <1>8, <1>10 DEF k

(* The index d after the one after a is the index d + 1 after a. *)
LEMMA IndexNext ==
    ASSUME NEW a \in Indexes, NEW b \in Indexes, a # b, NEW d \in 0 .. Dist(a, b) - 1
    PROVE  (Inc(a) + d) % Word = (a + (d + 1)) % Word
<1> DEFINE e == Inc(a)
           f == d + 1
<1>1. e \in Indexes /\ e = IF a = Word - 1 THEN 0 ELSE a + 1
    BY IncDist
<1>2. Dist(a, b) \in Nat /\ Dist(a, b) < Word /\ Dist(e, b) = Dist(a, b) - 1
    BY DistFacts
<1>3. d \in 0 .. Dist(e, b) /\ f \in 0 .. Dist(a, b) /\ d \in Nat /\ f = d + 1 /\ f < Word
    BY <1>2, WordFacts
<1> HIDE DEF e, f
<1>4. (e + d) % Word = IF e + d < Word THEN e + d ELSE e + d - Word
    BY <1>1, <1>3, IndexAfter
<1>5. (a + f) % Word = IF a + f < Word THEN a + f ELSE a + f - Word
    BY <1>3, IndexAfter
<1>6. (e + d) % Word = (a + f) % Word
    BY <1>1, <1>3, <1>4, <1>5, WordFacts DEF Indexes
<1> QED BY <1>6 DEF e, f

LEMMA UnreadFacts ==
    ASSUME TypeInv, Aligned
    PROVE  /\ Dist(m_rdindex, m_wrindex) \in Nat
           /\ DOMAIN Unread = 1 .. Dist(m_rdindex, m_wrindex)
           /\ Unread \in Seq(Tasks \cup {Blank}) /\ Len(Unread) = Dist(m_rdindex, m_wrindex)
           /\ \A i \in 1 .. Dist(m_rdindex, m_wrindex) :
                    Unread[i] = mp_elems[((m_rdindex + (i - 1)) % Word) % m_size]
<1> DEFINE D == Dist(m_rdindex, m_wrindex)
<1>1. m_rdindex \in Indexes /\ m_wrindex \in Indexes /\ m_rdindex \in Nat /\ Word \in Nat
    BY WordFacts DEF TypeInv, Indexes
<1>2. D \in Nat
    BY <1>1, DistFacts
<1>3. ASSUME NEW i \in 1 .. D
      PROVE  /\ Unread[i] = mp_elems[((m_rdindex + (i - 1)) % Word) % m_size]
             /\ Unread[i] \in Tasks \cup {Blank}
    <2>1. i - 1 \in 0 .. D /\ m_rdindex + i - 1 = m_rdindex + (i - 1)
        BY <1>1, <1>2
    <2>2. Unread[i] = mp_elems[((m_rdindex + (i - 1)) % Word) % m_size]
        BY <2>1 DEF Unread
    <2>3. (m_rdindex + (i - 1)) % Word \in Int
        BY <1>1, <2>1, IndexAfter, WordFacts DEF Indexes
    <2>4. ((m_rdindex + (i - 1)) % Word) % m_size \in 0 .. m_size - 1
        BY Zenon, <2>3, SizeFacts, ModFacts
    <2> QED BY <2>2, <2>4 DEF TypeInv
<1>4. DOMAIN Unread = 1 .. D /\ Unread = [i \in 1 .. D |-> Unread[i]]
    BY DEF Unread
<1>5. Unread \in Seq(Tasks \cup {Blank}) /\ Len(Unread) = D
    <2> HIDE DEF D
    <2> QED BY <1>2, <1>3, <1>4
<1> QED BY <1>2, <1>3, <1>4, <1>5

(* The slot that is written is none of the unread. *)
LEMMA UnreadSafe ==
    ASSUME Aligned, IInv, NEW i \in 1 .. Dist(m_rdindex, m_wrindex)
    PROVE  ((m_rdindex + (i - 1)) % Word) % m_size # m_wrindex % m_size
<1>0. /\ m_rdindex \in Indexes /\ m_wrindex \in Indexes
      /\ m_size \in Nat \ {0} /\ Word % m_size = 0
    BY SizeFacts DEF IInv, TypeInv
<1> USE <1>0
<1>1. Dist(m_rdindex, m_wrindex) \in Nat /\ Dist(m_rdindex, m_wrindex) < m_size
    BY DistFacts DEF IInv, RoomInv, NeverOverfull
<1>2. i - 1 \in 0 .. Dist(m_rdindex, m_wrindex) /\ i \in Nat /\ i >= 1 /\ i <= Dist(m_rdindex, m_wrindex)
    BY <1>1
<1> DEFINE k == (m_rdindex + (i - 1)) % Word
<1>3. k \in Indexes /\ Dist(k, m_wrindex) = Dist(m_rdindex, m_wrindex) - (i - 1)
    BY <1>2, IndexAfter
<1>4. Dist(k, m_wrindex) \in 1 .. m_size - 1
    BY <1>1, <1>2, <1>3
<1> HIDE DEF k
<1>5. k % m_size # m_wrindex % m_size
    BY <1>3, <1>4, SlotsDiffer
<1> QED BY <1>5 DEF k

LEMMA DataStep ==
    ASSUME Aligned, MaxTasks < Word, Mode = "SINGLE", MaxResize = 0, IInv, DataInv, [Next]_vars
    PROVE  DataInv'
<1>0. /\ TypeInv /\ RoomInv /\ CountInv /\ m_size \in Nat \ {0} /\ m_rdindex \in Indexes /\ m_wrindex \in Indexes
      /\ loc \in [Threads -> [rd : Indexes, wr : Indexes, ele : Tasks \cup {Blank}]]
      /\ mp_elems \in [0 .. m_size - 1 -> Tasks \cup {Blank}]
    BY SizeFacts DEF IInv, TypeInv
<1> USE <1>0
<1>1. ASSUME NEW p \in Producers, enqueue(p) \/ enqueue_step(p) PROVE DataInv'
    <2>0. p \in Threads /\ \A q \in Producers : q = p
        BY QueueAssumption, TwoSides
    <2>1. /\ UNCHANGED <<m_rdindex, m_size>>
          /\ \A c \in Consumers : pc'[c] = pc[c] /\ loc'[c] = loc[c]
        <3>1. /\ \E label \in {"load_wr", "idle", "check_full", "claim", "store", "publish"} : Goto(p, label)
              /\ \A t \in Threads \ {p} : loc'[t] = loc[t]
              /\ UNCHANGED <<m_rdindex, m_size>>
            BY <1>1, <2>0 DEF enqueue, enqueue_step, enqueue_load, enqueue_check, enqueue_claim,
               enqueue_store, enqueue_publish
        <3> QED BY <2>0, <3>1, GotoFacts, TwoSides
    <2>2. CASE enqueue_store(p)
        <3>1. /\ loc[p].wr = m_wrindex /\ loc[p].ele \in Tasks /\ loc' = loc
              /\ mp_elems' = [mp_elems EXCEPT ![m_wrindex % m_size] = loc[p].ele]
            BY Zenon, <2>2 DEF enqueue_store, RoomInv, DataInv
        <3>2. m_wrindex % m_size \in 0 .. m_size - 1
            BY ModFacts DEF Indexes
        <3>3. mp_elems'[m_wrindex % m_size] = loc[p].ele
            BY <3>1, <3>2
        <3>4. ASSUME NEW c \in Consumers, pc[c] = "take", m_rdindex = loc[c].rd
              PROVE  loc[c].ele = mp_elems'[m_rdindex % m_size]
            <4>1. m_rdindex # m_wrindex
                BY <3>4 DEF RoomInv
            <4>2. m_rdindex % m_size # m_wrindex % m_size
                BY <4>1, EmptyFacts DEF is_empty
            <4>3. mp_elems'[m_rdindex % m_size] = mp_elems[m_rdindex % m_size]
                <5>1. m_rdindex % m_size \in 0 .. m_size - 1
                    BY ModFacts DEF Indexes
                <5> QED BY <3>1, <4>2, <5>1
            <4> QED BY <3>4, <4>3 DEF DataInv
        <3> QED BY <2>0, <2>1, <3>1, <3>3, <3>4 DEF DataInv
    <2>3. CASE ~enqueue_store(p)
        <3>1. mp_elems' = mp_elems
            BY <1>1, <2>3 DEF enqueue, enqueue_step, enqueue_load, enqueue_check, enqueue_claim, enqueue_publish
        <3>2. \/ pc'[p] = "idle"
              \/ pc'[p] # "publish" /\ loc'[p].ele \in Tasks
            <4>1. CASE enqueue(p)
                <5>1. loc'[p].ele = next /\ pc'[p] = "load_wr"
                    BY <2>0, <4>1, GotoFacts DEF enqueue
                <5>2. next \in Tasks
                    BY <4>1, QueueAssumption DEF enqueue, TypeInv, Tasks
                <5> QED BY <5>1, <5>2
            <4>2. CASE enqueue_load(p) \/ enqueue_check(p) \/ enqueue_claim(p)
                <5>1. loc'[p].ele = loc[p].ele /\ pc[p] # "idle"
                    BY <2>0, <4>2 DEF enqueue_load, enqueue_check, enqueue_claim
                <5>2. pc'[p] # "publish"
                    BY <2>0, <4>2, GotoFacts DEF enqueue_load, enqueue_check, enqueue_claim
                <5> QED BY <5>1, <5>2 DEF DataInv
            <4>3. CASE enqueue_publish(p)
                BY <2>0, <4>3, GotoFacts DEF enqueue_publish
            <4> QED BY <1>1, <2>3, <4>1, <4>2, <4>3 DEF enqueue_step
        <3> QED BY <2>0, <2>1, <3>1, <3>2 DEF DataInv
    <2> QED BY <2>2, <2>3
<1>2. ASSUME NEW c \in Consumers, dequeue_step(c) PROVE DataInv'
    <2>0. c \in Threads
        BY TwoSides
    <2>1. /\ UNCHANGED <<m_size, mp_elems>>
          /\ \A d \in Consumers : d = c \/ (pc'[d] = pc[d] /\ loc'[d] = loc[d])
          /\ \A p \in Producers : pc'[p] = pc[p] /\ loc'[p] = loc[p]
        <3>1. /\ \E label \in {"check_empty", "idle", "fetch", "take", "load_rd"} : Goto(c, label)
              /\ \A t \in Threads \ {c} : loc'[t] = loc[t]
              /\ UNCHANGED <<m_size, mp_elems>>
            BY <1>2, <2>0 DEF dequeue_step, dequeue, dequeue_check, dequeue_fetch, dequeue_take
        <3> QED BY <2>0, <3>1, GotoFacts, TwoSides
    <2>2. pc'[c] = "take" => loc'[c].ele = mp_elems[loc'[c].rd % m_size]
        BY <1>2, <2>0, GotoFacts DEF dequeue_step, dequeue, dequeue_check, dequeue_fetch, dequeue_take
    <2>3. ASSUME NEW d \in Consumers, pc[d] = "take", m_rdindex' = loc[d].rd
          PROVE  m_rdindex' = m_rdindex
        <3>1. m_rdindex' = m_rdindex \/ (m_rdindex' = Inc(m_rdindex) /\ m_rdindex # m_wrindex)
            BY <1>2 DEF dequeue_step, dequeue, dequeue_check, dequeue_fetch, dequeue_take, RoomInv
        <3>2. m_rdindex # m_wrindex => Inc(m_rdindex) # loc[d].rd
            BY <2>3, LoadedBehind
        <3> QED BY <2>3, <3>1, <3>2
    <2> QED BY <2>1, <2>2, <2>3 DEF DataInv
<1>3. ~queue_resize
    BY DEF queue_resize, TypeInv
<1>4. CASE UNCHANGED vars
    BY <1>4 DEF vars, DataInv
<1> QED BY <1>1, <1>2, <1>3, <1>4 DEF Next

(* What takes no task and publishes none is a stutter of the FIFO. *)
LEMMA FifoSame ==
    ASSUME Aligned, TypeInv, TypeInv', UNCHANGED <<m_rdindex, m_wrindex, m_size, taken>>,
           \A i \in 1 .. Dist(m_rdindex, m_wrindex) :
                mp_elems'[((m_rdindex + (i - 1)) % Word) % m_size] = mp_elems[((m_rdindex + (i - 1)) % Word) % m_size]
    PROVE  UNCHANGED <<Unread, taken, m_size - 1>>
<1> DEFINE D == Dist(m_rdindex, m_wrindex)
<1>1. Unread = [i \in 1 .. D |-> mp_elems[((m_rdindex + i - 1) % Word) % m_size]]
    BY DEF Unread
<1>2. Unread' = [i \in 1 .. D |-> mp_elems'[((m_rdindex + i - 1) % Word) % m_size]]
    BY DEF Unread, Dist
<1>3. m_rdindex \in Nat /\ D \in Nat
    BY DistFacts DEF TypeInv, Indexes
<1>4. \A i \in 1 .. D : m_rdindex + i - 1 = m_rdindex + (i - 1)
    BY <1>3
<1> HIDE DEF D
<1>5. Unread' = Unread
    BY <1>1, <1>2, <1>4 DEF D
<1> QED BY <1>5

LEMMA FifoPut ==
    ASSUME Aligned, MaxTasks < Word, Mode = "SINGLE", IInv, DataInv, NEW p \in Producers, enqueue_publish(p)
    PROVE  Fifo!Put(loc[p].ele) /\ loc[p].ele \in Tasks
<1> DEFINE D == Dist(m_rdindex, m_wrindex)
<1> DEFINE At(i) == mp_elems[((m_rdindex + (i - 1)) % Word) % m_size]
<1>0. /\ TypeInv /\ m_rdindex \in Indexes /\ m_wrindex \in Indexes /\ D < m_size - 1
      /\ loc[p].wr = m_wrindex /\ loc[p].ele \in Tasks /\ mp_elems[m_wrindex % m_size] = loc[p].ele
      /\ m_rdindex \in Nat
    <2>1. TypeInv /\ RoomInv /\ pc[p] = "publish"
        BY DEF IInv, enqueue_publish
    <2>2. m_rdindex \in Indexes /\ m_wrindex \in Indexes
        BY <2>1 DEF TypeInv
    <2>3. D < m_size - 1 /\ loc[p].wr = m_wrindex
        BY <2>1 DEF RoomInv
    <2>4. loc[p].ele \in Tasks /\ mp_elems[m_wrindex % m_size] = loc[p].ele
        BY <2>1, <2>3 DEF DataInv
    <2> QED BY <2>1, <2>2, <2>3, <2>4 DEF Indexes
<1> USE <1>0
<1>1. D \in Nat /\ Unread \in Seq(Tasks \cup {Blank}) /\ Len(Unread) = D /\ \A i \in 1 .. D : Unread[i] = At(i)
    BY UnreadFacts
<1>2. Left \in Nat /\ Left >= 1 /\ MaxTasks \in Nat /\ Word \in Nat
    <2>1. p \in Pending
        BY DEF Pending, enqueue_publish
    <2> QED BY <2>1, LeftFacts, QueueAssumption
<1>3. Dist(m_rdindex, m_wrindex)' = D + 1
    <2>1. D < Word - 1
        BY <1>1, <1>2 DEF IInv, CountInv
    <2>2. Dist(m_rdindex, Inc(m_wrindex)) = D + 1
        BY <2>1, DistFacts
    <2> QED BY <2>2 DEF enqueue_publish, Dist
<1>4. At(D + 1) = loc[p].ele
    <2>1. D \in 0 .. Dist(m_rdindex, m_wrindex) /\ D + 1 - 1 = D
        BY <1>1
    <2>2. (m_rdindex + D) % Word = m_wrindex
        BY <2>1, IndexAfter
    <2> QED BY <2>1, <2>2
<1>5. Unread' = [i \in 1 .. D + 1 |-> At(i)]
    <2>1. Unread' = [i \in 1 .. Dist(m_rdindex, m_wrindex)' |-> mp_elems[((m_rdindex + i - 1) % Word) % m_size]]
        BY DEF Unread, enqueue_publish
    <2>2. \A i \in 1 .. D + 1 : m_rdindex + i - 1 = m_rdindex + (i - 1)
        BY <1>1
    <2> QED BY <1>3, <2>1, <2>2
<1> HIDE DEF D, At
<1>6. Unread' = Append(Unread, loc[p].ele)
    BY <1>1, <1>4, <1>5
<1>7. UNCHANGED <<taken, m_size - 1>>
    BY DEF enqueue_publish
<1> QED BY <1>1, <1>6, <1>7 DEF Fifo!Put

LEMMA FifoTake ==
    ASSUME Aligned, IInv, DataInv, NEW c \in Consumers, dequeue_take(c), m_rdindex = loc[c].rd
    PROVE  Fifo!Take
<1> DEFINE D == Dist(m_rdindex, m_wrindex)
<1> DEFINE At(i) == mp_elems[((m_rdindex + (i - 1)) % Word) % m_size]
<1>0. /\ TypeInv /\ m_rdindex \in Indexes /\ m_wrindex \in Indexes /\ m_rdindex # m_wrindex
      /\ loc[c].ele = mp_elems[m_rdindex % m_size] /\ m_rdindex \in Nat /\ Inc(m_rdindex) \in Nat
      /\ m_rdindex' = Inc(m_rdindex) /\ UNCHANGED <<m_wrindex, m_size, mp_elems>>
      /\ taken' = Append(taken, loc[c].ele)
    <2>1. TypeInv /\ RoomInv /\ pc[c] = "take"
        BY DEF IInv, dequeue_take
    <2>2. m_rdindex \in Indexes /\ m_wrindex \in Indexes
        BY <2>1 DEF TypeInv
    <2>3. m_rdindex # m_wrindex
        BY <2>1 DEF RoomInv
    <2>4. loc[c].ele = mp_elems[m_rdindex % m_size]
        BY <2>1 DEF DataInv
    <2>5. m_rdindex \in Nat /\ Inc(m_rdindex) \in Nat
        <3>1. Inc(m_rdindex) \in Indexes
            BY <2>2, IncDist
        <3> QED BY <2>2, <3>1, WordFacts DEF Indexes
    <2>6. /\ m_rdindex' = Inc(m_rdindex) /\ UNCHANGED <<m_wrindex, m_size, mp_elems>>
          /\ taken' = Append(taken, loc[c].ele)
        BY DEF dequeue_take
    <2> QED BY <2>1, <2>2, <2>3, <2>4, <2>5, <2>6
<1> USE <1>0
<1>1. D \in Nat /\ Unread \in Seq(Tasks \cup {Blank}) /\ Len(Unread) = D /\ \A i \in 1 .. D : Unread[i] = At(i)
    BY UnreadFacts
<1>2. D >= 1 /\ Dist(m_rdindex, m_wrindex)' = D - 1
    <2>1. Dist(Inc(m_rdindex), m_wrindex) = D - 1 /\ D # 0
        BY DistFacts
    <2> QED BY <1>1, <2>1 DEF Dist
<1>3. At(1) = loc[c].ele
    <2>1. 0 \in 0 .. Dist(m_rdindex, m_wrindex) /\ m_rdindex + 0 = m_rdindex /\ m_rdindex + (1 - 1) = m_rdindex
        BY <1>1
    <2>2. (m_rdindex + 0) % Word = IF m_rdindex + 0 < Word THEN m_rdindex + 0 ELSE m_rdindex + 0 - Word
        BY <2>1, IndexAfter
    <2>3. m_rdindex % Word = m_rdindex
        BY <2>1, <2>2, WordFacts DEF Indexes
    <2> QED BY <2>1, <2>3
<1>4. Unread' = [i \in 1 .. D - 1 |-> At(i + 1)]
    <2>1. Unread' = [i \in 1 .. D - 1 |-> mp_elems[((Inc(m_rdindex) + i - 1) % Word) % m_size]]
        BY <1>2 DEF Unread
    <2>2. ASSUME NEW i \in 1 .. D - 1
          PROVE  (Inc(m_rdindex) + i - 1) % Word = (m_rdindex + (i + 1 - 1)) % Word
        <3>1. /\ i - 1 \in 0 .. D - 1 /\ Inc(m_rdindex) + i - 1 = Inc(m_rdindex) + (i - 1)
              /\ i - 1 + 1 = i + 1 - 1
            BY <1>1
        <3>2. (Inc(m_rdindex) + (i - 1)) % Word = (m_rdindex + (i - 1 + 1)) % Word
            BY <3>1, IndexNext
        <3> QED BY <3>1, <3>2
    <2> QED BY <2>1, <2>2
<1> HIDE DEF D, At
<1>5. Unread # <<>> /\ Head(Unread) = loc[c].ele
    BY <1>1, <1>2, <1>3
<1>6. Unread' = Tail(Unread)
    <2> DEFINE T == Tail(Unread)
    <2>1. T \in Seq(Tasks \cup {Blank}) /\ Len(T) = D - 1 /\ \A i \in 1 .. D - 1 : T[i] = At(i + 1)
        BY <1>1, <1>2, <1>5
    <2>2. T = [i \in 1 .. Len(T) |-> T[i]]
        <3> HIDE DEF T
        <3> QED BY <2>1
    <2> HIDE DEF T
    <2>3. Unread' = T
        BY <1>4, <2>1, <2>2
    <2> QED BY <2>3 DEF T
<1>7. UNCHANGED (m_size - 1)
    OBVIOUS
<1> QED BY <1>5, <1>6, <1>7 DEF Fifo!Take

(* SINGLE, without queue_resize: the ring is a bounded FIFO.  Publishing a *)
(* task is the FIFO's Put, the compare-and-swap that takes one its Take,   *)
(* and every other step of enqueue and dequeue is invisible.               *)
THEOREM FifoTheorem ==
    ASSUME Aligned, MaxTasks < Word, Mode = "SINGLE", MaxResize = 0
    PROVE  Spec => IsFifo
<1>1. Init => DataInv
    BY TwoSides DEF Init, DataInv
<1>2. Init => Fifo!Init
    <2> SUFFICES ASSUME Init PROVE Fifo!Init
        OBVIOUS
    <2>1. IInv
        BY InitIInv
    <2>2. Dist(m_rdindex, m_wrindex) = 0
        BY Zenon, <2>1, DistFacts DEF Init, IInv, TypeInv
    <2>3. Unread = <<>> /\ m_size - 1 \in Nat
        BY <2>1, <2>2, UnreadFacts, SizeFacts DEF IInv
    <2> QED BY <2>3 DEF Init, Fifo!Init
<1>3. IInv /\ DataInv /\ [Next]_vars => DataInv'
    BY DataStep
<1>4. IInv /\ IInv' /\ DataInv /\ [Next]_vars => [Fifo!Next]_<<Unread, taken, m_size - 1>>
    <2> SUFFICES ASSUME IInv, IInv', DataInv, [Next]_vars PROVE [Fifo!Next]_<<Unread, taken, m_size - 1>>
        OBVIOUS
    <2>0. TypeInv /\ TypeInv' /\ RoomInv
        BY DEF IInv
    <2>1. ASSUME NEW p \in Producers, enqueue_publish(p) PROVE Fifo!Next
        BY <2>1, FifoPut DEF Fifo!Next
    <2>2. ASSUME NEW c \in Consumers, dequeue_take(c), m_rdindex = loc[c].rd PROVE Fifo!Next
        BY <2>2, FifoTake DEF Fifo!Next
    <2>3. ASSUME NEW p \in Producers, enqueue_store(p) PROVE UNCHANGED <<Unread, taken, m_size - 1>>
        <3>1. /\ mp_elems' = [mp_elems EXCEPT ![m_wrindex % m_size] = loc[p].ele]
              /\ UNCHANGED <<m_rdindex, m_wrindex, m_size, taken>>
            BY Zenon, <2>0, <2>3 DEF enqueue_store, RoomInv
        <3>2. \A i \in 1 .. Dist(m_rdindex, m_wrindex) :
                mp_elems'[((m_rdindex + (i - 1)) % Word) % m_size] = mp_elems[((m_rdindex + (i - 1)) % Word) % m_size]
            BY <2>0, <3>1, UnreadSafe DEF TypeInv
        <3> QED BY <2>0, <3>1, <3>2, FifoSame
    <2>4. CASE UNCHANGED <<m_rdindex, m_wrindex, m_size, taken, mp_elems>>
        BY <2>0, <2>4, FifoSame
    <2>5. ~queue_resize
        BY <2>0 DEF queue_resize, TypeInv
    <2>6. ASSUME NEW p \in Producers, enqueue(p) \/ enqueue_step(p)
          PROVE  [Fifo!Next]_<<Unread, taken, m_size - 1>>
        <3>1. \/ enqueue_publish(p) \/ enqueue_store(p)
              \/ UNCHANGED <<m_rdindex, m_wrindex, m_size, taken, mp_elems>>
            BY <2>0, <2>6 DEF enqueue, enqueue_step, enqueue_load, enqueue_check, enqueue_claim, RoomInv
        <3> QED BY <2>1, <2>3, <2>4, <3>1
    <2>7. ASSUME NEW c \in Consumers, dequeue_step(c)
          PROVE  [Fifo!Next]_<<Unread, taken, m_size - 1>>
        <3>1. \/ dequeue_take(c) /\ m_rdindex = loc[c].rd
              \/ UNCHANGED <<m_rdindex, m_wrindex, m_size, taken, mp_elems>>
            BY <2>7 DEF dequeue_step, dequeue, dequeue_check, dequeue_fetch, dequeue_take
        <3> QED BY <2>2, <2>4, <3>1
    <2>8. CASE UNCHANGED vars
        BY <2>4, <2>8 DEF vars
    <2> QED BY <2>5, <2>6, <2>7, <2>8 DEF Next
<1> QED BY <1>1, <1>2, <1>3, <1>4, Always, PTL DEF Spec, IsFifo, Fifo!Spec

-----------------------------------------------------------------------------
(* MULTI: every claim is published once. *)

LEMMA DistInjective ==
    ASSUME NEW a \in Indexes, NEW i \in Indexes, NEW j \in Indexes, Dist(a, i) = Dist(a, j)
    PROVE  i = j
<1>1. Dist(a, i) = (IF i >= a THEN i - a ELSE i + Word - a) /\ Dist(a, j) = (IF j >= a THEN j - a ELSE j + Word - a)
    BY IncDist
<1>2. (IF i >= a THEN i - a ELSE i + Word - a) = (IF j >= a THEN j - a ELSE j + Word - a)
    BY Zenon, <1>1
<1>3. /\ Word \in Int /\ a \in Int /\ i \in Int /\ j \in Int
      /\ 0 <= i /\ i < Word /\ 0 <= j /\ j < Word /\ 0 <= a /\ a < Word
    BY WordFacts DEF Indexes
<1> QED BY <1>2, <1>3

LEMMA ClaimKept ==
    ASSUME TypeInv, ClaimInv, UNCHANGED <<m_max_rdindex, m_wrindex>>, Left' = Left \/ Left' = Left - 1,
           \A p \in Producers : /\ Claimed(p)' <=> Claimed(p)
                                /\ Claimed(p) => loc'[p].wr = loc[p].wr
    PROVE  ClaimInv'
<1>1. Dist(m_max_rdindex, m_wrindex)' = Dist(m_max_rdindex, m_wrindex)
    BY DEF Dist
<1>2. Left \in Nat /\ MaxTasks \in Nat /\ Dist(m_max_rdindex, m_wrindex) \in Nat
    BY Zenon, LeftFacts, QueueAssumption, DistFacts DEF TypeInv
<1>3. (Dist(m_max_rdindex, m_wrindex) + Left <= MaxTasks)'
    BY <1>1, <1>2 DEF ClaimInv
<1>4. \A p \in Producers : Claimed(p)' => Dist(m_max_rdindex, loc[p].wr)' = Dist(m_max_rdindex, loc[p].wr)
    BY DEF Dist
<1>5. \A i \in Indexes : Dist(m_max_rdindex', i) = Dist(m_max_rdindex, i)
    OBVIOUS
<1> QED BY <1>1, <1>3, <1>4, <1>5 DEF ClaimInv

LEMMA ClaimMore ==
    ASSUME MaxTasks < Word, IInv, ClaimInv, NEW p \in Producers, enqueue_claim(p), m_wrindex = loc[p].wr
    PROVE  ClaimInv'
<1> DEFINE D == Dist(m_max_rdindex, m_wrindex)
<1>0. /\ TypeInv /\ RoomInv /\ m_max_rdindex \in Indexes /\ m_wrindex \in Indexes /\ Inc(m_wrindex) \in Indexes
      /\ \A q \in Producers : loc[q].wr \in Indexes
    BY ThreadFacts, TwoSides, IncDist DEF IInv, TypeInv
<1> USE <1>0
<1>1. p \in Pending /\ Left' = Left - 1 /\ Left \in Nat /\ Left >= 1 /\ MaxTasks \in Nat /\ Word \in Nat
    BY EnqueueLeft, LeftFacts, QueueAssumption
<1>2. D \in Nat /\ D < Word - 1 /\ Dist(m_max_rdindex, Inc(m_wrindex)) = D + 1
    <2>1. D \in Nat /\ D + Left <= MaxTasks
        BY DistFacts DEF ClaimInv
    <2>2. D < Word - 1
        BY <1>1, <2>1
    <2> QED BY Zenon, <2>1, <2>2, DistFacts
<1>3. /\ m_wrindex' = Inc(m_wrindex) /\ UNCHANGED <<m_max_rdindex, loc>>
      /\ Claimed(p)' /\ ~Claimed(p)
      /\ \A q \in Producers : q = p \/ (Claimed(q)' <=> Claimed(q))
    <2>1. /\ pc'[p] = "store" /\ \A q \in Producers : q = p \/ pc'[q] = pc[q]
        BY GotoFacts, TwoSides DEF enqueue_claim
    <2> QED BY <2>1 DEF enqueue_claim, Claimed
<1>4. Dist(m_max_rdindex, m_wrindex)' = D + 1
    BY <1>2, <1>3 DEF Dist
<1>5. \A i \in Indexes : Dist(m_max_rdindex', i) = Dist(m_max_rdindex, i) /\ Dist(m_max_rdindex, i) \in Nat
    BY Zenon, <1>3, DistFacts
<1>6. (D + Left <= MaxTasks)'
    BY <1>1, <1>2, <1>4 DEF ClaimInv
<1>7. \A q \in Producers : Claimed(q) => Dist(m_max_rdindex, loc[q].wr) < D /\ loc[q].wr # m_wrindex
    BY <1>2 DEF ClaimInv
<1>8. \A q \in Producers : Claimed(q)' => Dist(m_max_rdindex', loc'[q].wr) < D + 1
    BY <1>2, <1>3, <1>5, <1>7
<1>9. \A q, r \in Producers : Claimed(q)' /\ Claimed(r)' /\ loc'[q].wr = loc'[r].wr => q = r
    BY <1>3, <1>7 DEF ClaimInv
<1>10. ASSUME NEW i \in Indexes, Dist(m_max_rdindex', i) < D + 1
       PROVE  \E q \in Producers : Claimed(q)' /\ loc'[q].wr = i
    <2>1. CASE Dist(m_max_rdindex, i) < D
        <3>1. PICK q \in Producers : Claimed(q) /\ loc[q].wr = i
            BY <2>1 DEF ClaimInv
        <3> QED BY <1>3, <3>1
    <2>2. CASE Dist(m_max_rdindex, i) = D
        BY <1>3, <2>2, DistInjective
    <2>3. Dist(m_max_rdindex, i) \in Nat /\ Dist(m_max_rdindex, i) < D + 1
        BY Zenon, <1>5, <1>10
    <2>4. Dist(m_max_rdindex, i) < D \/ Dist(m_max_rdindex, i) = D
        <3> HIDE DEF D
        <3> QED BY <1>2, <2>3
    <2> QED BY Zenon, <2>1, <2>2, <2>4
<1> HIDE DEF D
<1> QED BY SMT, <1>4, <1>6, <1>8, <1>9, <1>10 DEF ClaimInv, D, Claimed

LEMMA ClaimLess ==
    ASSUME MaxTasks < Word, Mode = "MULTI", IInv, ClaimInv, NEW p \in Producers, enqueue_publish(p)
    PROVE  ClaimInv'
<1> DEFINE D == Dist(m_max_rdindex, m_wrindex)
<1>0. /\ TypeInv /\ RoomInv /\ m_max_rdindex \in Indexes /\ m_wrindex \in Indexes /\ Inc(m_max_rdindex) \in Indexes
      /\ \A q \in Producers : loc[q].wr \in Indexes
    BY Zenon, ThreadFacts, TwoSides, IncDist DEF IInv, TypeInv
<1> USE <1>0
<1>1. /\ m_max_rdindex = loc[p].wr /\ m_max_rdindex' = Inc(m_max_rdindex) /\ UNCHANGED <<m_wrindex, loc>>
      /\ Claimed(p) /\ ~Claimed(p)'
      /\ \A q \in Producers : q = p \/ (Claimed(q)' <=> Claimed(q))
    <2>1. /\ pc[p] = "publish" /\ pc'[p] = "idle" /\ \A q \in Producers : q = p \/ pc'[q] = pc[q]
        BY GotoFacts, TwoSides DEF enqueue_publish
    <2> QED BY <2>1 DEF enqueue_publish, Claimed
<1>2. D \in Nat /\ D < Word /\ Word \in Nat /\ MaxTasks \in Nat /\ Left \in Nat /\ Left' = Left
    BY DistFacts, EnqueueLeft, LeftFacts, QueueAssumption
<1>3. m_max_rdindex # m_wrindex
    <2>1. Dist(m_max_rdindex, m_max_rdindex) < D
        BY <1>1 DEF ClaimInv
    <2> QED BY <1>2, <2>1
<1>4. \A i \in Indexes : i # m_max_rdindex =>
            Dist(m_max_rdindex', i) = Dist(m_max_rdindex, i) - 1 /\ Dist(m_max_rdindex, i) \in Nat
    BY <1>1, DistFacts
<1>5. Dist(m_max_rdindex, m_wrindex)' = D - 1
    BY <1>1, <1>3, <1>4 DEF Dist
<1>6. (D + Left <= MaxTasks)'
    BY <1>2, <1>5 DEF ClaimInv
<1>7. \A q \in Producers : Claimed(q)' => Claimed(q) /\ q # p /\ loc[q].wr # m_max_rdindex
    BY <1>1 DEF ClaimInv
<1>8. \A q \in Producers : Claimed(q)' => Dist(m_max_rdindex', loc'[q].wr) < D - 1
    BY <1>1, <1>2, <1>4, <1>7 DEF ClaimInv
<1>9. \A q, r \in Producers : Claimed(q)' /\ Claimed(r)' /\ loc'[q].wr = loc'[r].wr => q = r
    BY <1>1, <1>7 DEF ClaimInv
<1>10. ASSUME NEW i \in Indexes, Dist(m_max_rdindex', i) < D - 1
       PROVE  \E q \in Producers : Claimed(q)' /\ loc'[q].wr = i
    <2>1. i # m_max_rdindex
        <3>1. Dist(Inc(m_max_rdindex), m_max_rdindex) = Word - 1
            <4>1. /\ Inc(m_max_rdindex) = IF m_max_rdindex = Word - 1 THEN 0 ELSE m_max_rdindex + 1
                  /\ Dist(Inc(m_max_rdindex), m_max_rdindex) =
                        IF m_max_rdindex >= Inc(m_max_rdindex) THEN m_max_rdindex - Inc(m_max_rdindex)
                        ELSE m_max_rdindex + Word - Inc(m_max_rdindex)
                BY IncDist
            <4> QED BY <4>1, WordFacts DEF Indexes
        <3> QED BY <1>1, <1>2, <1>10, <3>1
    <2>2. Dist(m_max_rdindex, i) < D
        BY <1>2, <1>4, <1>10, <2>1
    <2>3. PICK q \in Producers : Claimed(q) /\ loc[q].wr = i
        BY <2>2 DEF ClaimInv
    <2> QED BY <1>1, <2>1, <2>3
<1> HIDE DEF D
<1> QED BY SMT, <1>5, <1>6, <1>8, <1>9, <1>10 DEF ClaimInv, D, Claimed

LEMMA ClaimStep ==
    ASSUME Aligned, MaxTasks < Word, Mode = "MULTI", IInv, ClaimInv, [Next]_vars
    PROVE  ClaimInv'
<1>0. TypeInv /\ RoomInv /\ loc \in [Threads -> [rd : Indexes, wr : Indexes, ele : Tasks \cup {Blank}]]
    BY DEF IInv, TypeInv
<1> USE <1>0
<1>1. ASSUME NEW p \in Producers, enqueue(p) \/ enqueue_step(p) PROVE ClaimInv'
    <2>0. p \in Threads
        BY TwoSides
    <2>1. CASE enqueue_claim(p) /\ m_wrindex = loc[p].wr
        BY <2>1, ClaimMore
    <2>2. CASE enqueue_publish(p)
        BY <2>2, ClaimLess
    <2>3. CASE ~enqueue_publish(p) /\ ~(enqueue_claim(p) /\ m_wrindex = loc[p].wr)
        <3>1. UNCHANGED <<m_max_rdindex, m_wrindex>>
            BY <1>1, <2>3 DEF enqueue, enqueue_step, enqueue_load, enqueue_check, enqueue_claim, enqueue_store
        <3>2. Left' = Left \/ Left' = Left - 1
            BY <1>1, <2>3, EnqueueLeft DEF enqueue_step
        <3>3. \A q \in Producers : q = p \/ (pc'[q] = pc[q] /\ loc'[q] = loc[q])
            <4>1. /\ \E label \in {"load_wr", "idle", "check_full", "claim", "store", "publish"} : Goto(p, label)
                  /\ \A t \in Threads \ {p} : loc'[t] = loc[t]
                BY <1>1, <2>0, <2>3 DEF enqueue, enqueue_step, enqueue_load, enqueue_check, enqueue_claim, enqueue_store
            <4> QED BY <2>0, <4>1, GotoFacts, TwoSides
        <3>4. (Claimed(p)' <=> Claimed(p)) /\ (Claimed(p) => loc'[p].wr = loc[p].wr)
            <4>1. CASE enqueue_store(p)
                BY <2>0, <4>1, GotoFacts DEF enqueue_store, Claimed
            <4>2. CASE enqueue(p) \/ enqueue_load(p)
                BY <2>0, <4>2, GotoFacts DEF enqueue, enqueue_load, Claimed
            <4>3. CASE enqueue_check(p)
                <5>1. pc[p] = "check_full" /\ pc'[p] \in {"idle", "claim"}
                    BY <2>0, <4>3, GotoFacts DEF enqueue_check
                <5> QED BY <5>1 DEF Claimed
            <4>4. CASE enqueue_claim(p)
                <5>1. pc[p] = "claim" /\ pc'[p] = "load_wr"
                    BY <2>0, <2>3, <4>4, GotoFacts DEF enqueue_claim
                <5> QED BY <5>1 DEF Claimed
            <4> QED BY <1>1, <2>3, <4>1, <4>2, <4>3, <4>4 DEF enqueue_step
        <3> QED BY <3>1, <3>2, <3>3, <3>4, ClaimKept DEF Claimed
    <2> QED BY <2>1, <2>2, <2>3
<1>2. ASSUME NEW c \in Consumers, dequeue_step(c) PROVE ClaimInv'
    <2>1. /\ \E label \in {"check_empty", "idle", "fetch", "take", "load_rd"} : Goto(c, label)
          /\ \A t \in Threads \ {c} : loc'[t] = loc[t]
          /\ UNCHANGED <<m_max_rdindex, m_wrindex>>
        BY <1>2 DEF dequeue_step, dequeue, dequeue_check, dequeue_fetch, dequeue_take
    <2>2. \A p \in Producers : pc'[p] = pc[p] /\ loc'[p] = loc[p]
        BY <2>1, GotoFacts, TwoSides
    <2>3. Left' = Left
        BY <1>2, DequeueLeft
    <2> QED BY <2>1, <2>2, <2>3, ClaimKept DEF Claimed
<1>3. CASE UNCHANGED <<m_max_rdindex, m_wrindex, pc, loc, next>>
    <2>1. Left' = Left
        BY <1>3, LeftSame DEF Pending
    <2> QED BY <1>3, <2>1, ClaimKept DEF Claimed
<1> QED BY <1>1, <1>2, <1>3 DEF Next, queue_resize, vars

(* MULTI, also over resizes: the indexes between m_max_rdindex and         *)
(* m_wrindex are exactly the claims that are not published yet, so that    *)
(* each spinning producer has its turn and none has it twice.              *)
THEOREM ClaimTheorem ==
    ASSUME Aligned, MaxTasks < Word, Mode = "MULTI"
    PROVE  Spec => []ClaimsAccounted
<1>1. Init => ClaimInv
    <2> SUFFICES ASSUME Init PROVE ClaimInv
        OBVIOUS
    <2>1. TypeInv
        BY InitIInv DEF IInv
    <2>2. Dist(m_max_rdindex, m_wrindex) = 0
        BY Zenon, <2>1, DistFacts DEF Init, TypeInv
    <2>3. \A i \in Indexes : Dist(m_max_rdindex, i) \in Nat
        BY Zenon, <2>1, DistFacts DEF TypeInv
    <2>4. Pending = {} /\ \A p \in Producers : ~Claimed(p)
        BY TwoSides DEF Init, Pending, Claimed
    <2>5. Left = MaxTasks
        BY <2>4, FS_EmptySet, QueueAssumption DEF Left, Init
    <2> QED BY <2>2, <2>3, <2>4, <2>5, QueueAssumption DEF ClaimInv
<1>2. IInv /\ ClaimInv /\ [Next]_vars => ClaimInv'
    BY ClaimStep
<1>3. IInv /\ ClaimInv => ClaimsAccounted
    <2> SUFFICES ASSUME IInv, ClaimInv PROVE ClaimsAccounted
        OBVIOUS
    <2> DEFINE D == Dist(m_max_rdindex, m_wrindex)
    <2>0. /\ m_max_rdindex \in Indexes /\ m_wrindex \in Indexes
          /\ \A p \in Producers : loc[p].wr \in Indexes
        BY ThreadFacts, TwoSides DEF IInv, TypeInv
    <2>1. D \in Nat
        BY <2>0, DistFacts
    <2>2. ASSUME NEW p \in Producers, Claimed(p)
          PROVE  \E i \in 0 .. D - 1 : loc[p].wr = (m_max_rdindex + i) % Word
        <3>1. Dist(m_max_rdindex, loc[p].wr) \in 0 .. D - 1
            <4>1. Dist(m_max_rdindex, loc[p].wr) \in Nat
                BY Zenon, <2>0, DistFacts
            <4>2. Dist(m_max_rdindex, loc[p].wr) < D
                BY <2>2 DEF ClaimInv
            <4> QED BY <2>1, <4>1, <4>2
        <3>2. (m_max_rdindex + Dist(m_max_rdindex, loc[p].wr)) % Word = loc[p].wr
            <4>1. Dist(m_max_rdindex, loc[p].wr) \in 0 .. Dist(m_max_rdindex, loc[p].wr)
                BY <3>1
            <4> QED BY <2>0, <4>1, IndexAfter
        <3> QED BY <3>1, <3>2
    <2>3. ASSUME NEW i \in 0 .. D - 1
          PROVE  \E p \in Producers : Claimed(p) /\ loc[p].wr = (m_max_rdindex + i) % Word
        <3>1. i \in 0 .. D /\ i < D
            BY <2>1
        <3>2. (m_max_rdindex + i) % Word \in Indexes /\ Dist(m_max_rdindex, (m_max_rdindex + i) % Word) = i
            BY <2>0, <3>1, IndexAfter
        <3> QED BY <3>1, <3>2 DEF ClaimInv
    <2> HIDE DEF D
    <2>4. \A x : x \in {loc[p].wr : p \in {p \in Producers : Claimed(p)}} <=>
                 x \in {(m_max_rdindex + i) % Word : i \in 0 .. D - 1}
        BY <2>2, <2>3
    <2> QED BY Zenon, <2>4 DEF ClaimsAccounted, D
<1> QED BY <1>1, <1>2, <1>3, Always, PTL DEF Spec
=============================================================================
