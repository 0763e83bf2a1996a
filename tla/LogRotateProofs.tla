-------------------------- MODULE LogRotateProofs --------------------------
(***************************************************************************)
(* Proofs about when Log goes on to another file, by time and by size, on  *)
(* top of the inductive invariant of LogProofs.                            *)
(*                                                                         *)
(* A line is checked against the current file long before it is written.   *)
(* By time, the invariant follows what files a line that passed the check  *)
(* can still meet (PeriodInv).  By size, it counts the threads that passed *)
(* the check and have not written (Coming), and the bytes that are written *)
(* and not yet added to the size (Debt, as a set of pairs of a thread and  *)
(* a byte of its line, whose cardinality is the sum).                      *)
(***************************************************************************)
EXTENDS LogProofs

(* A file of time f is no earlier one, for another period, than the line's. *)
Good(t, f) ==
  \/ f >= ptime[t]
  \/ m_time_stratege_type = "HOUR" /\ tm_hour(f) = tm_hour(ptime[t])
  \/ m_time_stratege_type # "HOUR" /\ tm_mday(f) = tm_mday(ptime[t])

(* The check is behind t, and no other thread was creating a file. *)
Passed(t) ==
  /\ ~overlap[t]
  /\ pc[t] \in {"choose", "write"} \/ (pc[t] \in Busy /\ back[t] = "choose")

PeriodInv ==
  /\ \A t \in Threads : ptime[t] <= now
  /\ m_stratege_type = "TIME" => \A t \in Threads : Passed(t) =>
       /\ \A u \in Threads : pc[u] \in Replacing => t0[u] >= ptime[t]
       /\ pc[t] \in {"choose", "m_busy"} => Good(t, m_cur_filetime[cur])
       /\ pc[t] = "write" /\ fd[t] # -1 /\ table[fd[t]] \notin {NONE, FOREIGN} =>
            Good(t, table[fd[t]])

(* The bytes that are written and not yet added to the size. *)
Debt == {x \in Threads \X (1 .. Max(Lines)) : pc[x[1]] = "add" /\ x[2] <= len[x[1]]}

(* A thread that may still write to the current file without checking its *)
(* size again.                                                             *)
Comes(t) == Passed(t) /\ moved[t] = 0 /\ pc[t] \in {"choose", "write", "m_busy"}
Coming == {t \in Threads : Comes(t)}

Limit == m_max_file_size - MAX_PARA_STR_LEN - 1

SizeInv ==
  m_stratege_type = "SPACE" =>
    /\ \A s \in 0..1 : since[s] <= MaxBytes
    /\ since[cur] <= m_cur_file_size[cur] + Cardinality(Debt)
    /\ since[cur] + Cardinality(Coming) * Max(Lines)
         <= Limit + Cardinality(Threads) * Max(Lines)
    /\ \A t \in Threads : pc[t] = "m_pos" => since[1 - cur] = 0

-----------------------------------------------------------------------------
LEMMA PeriodStep ==
  ASSUME TypeInv, BusyInv, FileInv, PeriodInv, [Next]_vars
  PROVE  PeriodInv'
<1>0. /\ pc \in [Threads -> PCs] /\ m_fd \in [0..1 -> Fds \union {-1}]
      /\ back \in [Threads -> {"idle", "check", "choose"}] /\ next \in [Threads -> 0..1]
      /\ fd \in [Threads -> Fds \union {-1}] /\ now \in Nat /\ t0 \in [Threads -> Nat]
      /\ overlap \in [Threads -> BOOLEAN] /\ ptime \in [Threads -> Nat]
      /\ table \in [Fds -> Nat \union {NONE, FOREIGN}]
      /\ cur \in 0..1 /\ (m_pos + 1) % 2 = 1 - cur /\ (m_pos' = m_pos => cur' = cur)
  BY Zenon, CurFacts DEF TypeInv, cur
<1> USE <1>0
<1>1. CASE Quiet
  <2>1. cur' = cur /\ \A u \in Threads : ptime'[u] <= now'
    BY <1>1 DEF Quiet, PeriodInv
  <2> SUFFICES ASSUME m_stratege_type = "TIME", NEW t \in Threads, Passed(t)'
               PROVE  /\ \A u \in Threads : pc'[u] \in Replacing => t0'[u] >= ptime'[t]
                      /\ pc'[t] \in {"choose", "m_busy"} => Good(t, m_cur_filetime[cur])'
                      /\ pc'[t] = "write" /\ fd'[t] # -1 /\ table[fd'[t]] \notin {NONE, FOREIGN} =>
                           Good(t, table[fd[t]])'
    BY Zenon, <1>1, <2>1 DEF Quiet, PeriodInv
  <2>2. CASE pc'[t] \in Busy
    BY Zenon, <1>1, <2>1, <2>2 DEF Quiet, PeriodInv, Passed, Good, Busy, Replacing
  <2>3. CASE pc'[t] = "choose"
    <3>1. CASE pc[t] = "choose" /\ ~overlap[t]
      BY Zenon, <1>1, <2>1, <2>3, <3>1 DEF Quiet, PeriodInv, Passed, Good, Busy, Replacing
    <3>2. CASE ~Full(t) /\ m_busy = 0
      <4>1. Good(t, m_cur_filetime[cur])
        BY Zenon, <3>2 DEF Full, Good
      <4>2. \A u \in Threads : pc'[u] \notin Busy
        BY <1>1, <3>2 DEF Quiet, BusyInv
      <4>3. ptime'[t] = ptime[t] /\ m_cur_filetime' = m_cur_filetime
        BY Zenon, <1>1, <2>3 DEF Quiet, Passed
      <4>4. Good(t, m_cur_filetime[cur])'
        BY Zenon, <2>1, <4>1, <4>3 DEF Good
      <4> QED BY Zenon, <2>3, <4>2, <4>4 DEF Busy, Replacing
    <3> QED BY Zenon, <1>1, <2>3, <3>1, <3>2 DEF Quiet, Passed
  <2>4. CASE pc'[t] = "write"
    <3>1. CASE pc[t] = "write"
      BY <1>1, <2>1, <2>4, <3>1 DEF Quiet, PeriodInv, Passed, Good, Busy, Replacing
    <3>2. CASE pc[t] = "choose"
      BY <1>1, <2>1, <2>4, <3>2 DEF Quiet, PeriodInv, Passed, Good, Busy, Replacing, FileInv, FileAt
    <3> QED BY Zenon, <1>1, <2>4, <3>1, <3>2 DEF Quiet
  <2> QED BY Zenon, <2>2, <2>3, <2>4 DEF Passed
<1>2. ASSUME NEW t \in Threads, new_file_lock(t) PROVE PeriodInv'
  BY <1>2 DEF new_file_lock, world, history, PeriodInv, Passed, Good,
      Replacing, Busy, BusyInv
<1>3. ASSUME NEW t \in Threads, new_file_close(t) PROVE PeriodInv'
  BY Zenon, <1>3 DEF new_file_close, Goto, locals, shared, history, PeriodInv,
      Passed, Good, Replacing, Busy
<1>4. ASSUME NEW t \in Threads, new_file_opened(t) PROVE PeriodInv'
  <2>1. next[t] = 1 - cur /\ pc[t] = "open" /\ pc[t] \in Replacing
    BY Zenon, <1>4 DEF new_file_opened, BusyInv, Replacing
  <2>2. Min(Free) \in Fds
    BY Zenon, <1>4, MinFree DEF new_file_opened
  <2>3. m_cur_filetime'[cur] = m_cur_filetime[cur] /\ cur' = cur
    BY <1>4, <2>1 DEF new_file_opened
  <2>4. m_stratege_type = "TIME" => \A d \in Fds : table'[d] = IF d = Min(Free) THEN t0[t] ELSE table[d]
    BY Zenon, <1>4, <2>2 DEF new_file_opened, m_cur_filename
  <2>5. \A u \in Threads : /\ pc'[u] = IF u = t THEN "m_pos" ELSE pc[u]
                           /\ pc[u] \in Replacing => u = t
    BY Zenon, <1>4, <2>1 DEF new_file_opened, Goto, BusyInv, Busy, Replacing
  <2>6. UNCHANGED <<m_stratege_type, ptime, now, overlap, back, t0, fd>>
    BY Zenon, <1>4 DEF new_file_opened, Goto, locals
  <2>7. ASSUME NEW u \in Threads, Passed(u)' PROVE Passed(u)
    BY Zenon, <2>1, <2>5, <2>6, <2>7 DEF Passed, Busy
  <2>9. ASSUME NEW u \in Threads, Passed(u)', m_stratege_type = "TIME", pc'[u] = "write", fd[u] # -1,
               table'[fd[u]] \notin {NONE, FOREIGN}
        PROVE  Good(u, table'[fd[u]])
    <3>1. CASE fd[u] = Min(Free)
      BY Zenon, <2>1, <2>2, <2>4, <2>7, <2>9, <3>1 DEF PeriodInv, Good
    <3>2. CASE fd[u] # Min(Free)
      <4>1. table'[fd[u]] = table[fd[u]] /\ pc[u] = "write" /\ Passed(u)
        BY Zenon, <2>4, <2>5, <2>7, <2>9, <3>2
      <4> QED BY Zenon, <2>9, <4>1 DEF PeriodInv
    <3> QED BY Zenon, <3>1, <3>2
  <2>10. ASSUME NEW u \in Threads, Passed(u)', m_stratege_type = "TIME", pc'[u] \in {"choose", "m_busy"}
         PROVE  Good(u, m_cur_filetime[cur])
    BY Zenon, <2>5, <2>7, <2>10 DEF PeriodInv
  <2>11. ASSUME NEW u \in Threads, Passed(u)', m_stratege_type = "TIME"
         PROVE  \A v \in Threads : pc'[v] \in Replacing => t0[v] >= ptime[u]
    BY Zenon, <2>1, <2>5, <2>7, <2>11 DEF PeriodInv, Replacing
  <2> QED BY Zenon, <2>3, <2>6, <2>9, <2>10, <2>11 DEF PeriodInv, Good
<1>5. ASSUME NEW t \in Threads, new_file_failed(t) PROVE PeriodInv'
  <2>1. \A u \in Threads : u # t =>
          /\ pc'[u] = pc[u] /\ ptime'[u] = ptime[u] /\ overlap'[u] = overlap[u]
          /\ back'[u] = back[u] /\ t0'[u] = t0[u] /\ fd'[u] = fd[u]
    BY Zenon, <1>5 DEF new_file_failed, Return
  <2>2. pc'[t] = "idle" /\ ptime'[t] = 0
    BY Zenon, <1>5 DEF new_file_failed, Return
  <2>3. UNCHANGED <<m_stratege_type, m_cur_filetime, table, now>> /\ cur' = cur
    BY Zenon, <1>5 DEF new_file_failed, world
  <2>4. \A u \in Threads : Passed(u)' => u # t /\ Passed(u)
    BY Zenon, <2>1, <2>2 DEF Passed, Busy
  <2>5. \A u \in Threads : ptime'[u] <= now'
    BY <2>1, <2>2, <2>3 DEF PeriodInv
  <2>6. \A u \in Threads : pc'[u] \in Replacing => u # t
    BY Zenon, <2>2 DEF Replacing
  <2> QED BY Zenon, <2>1, <2>3, <2>4, <2>5, <2>6 DEF PeriodInv, Good
<1>6. ASSUME NEW t \in Threads, new_file_pos(t) PROVE PeriodInv'
  <2>1. cur' = 1 - cur /\ m_cur_filetime[1 - cur] = t0[t]
    BY Zenon, <1>6, CurFacts DEF new_file_pos, cur, TypeInv, FileInv
  <2>2. \A u \in Threads : /\ pc'[u] = IF u = t THEN "m_busy" ELSE pc[u]
                           /\ pc'[u] \notin Replacing
    BY Zenon, <1>6 DEF new_file_pos, BusyInv, Busy, Replacing
  <2>3. UNCHANGED <<m_stratege_type, ptime, now, overlap, back, fd, table, m_cur_filetime>>
    BY Zenon, <1>6 DEF new_file_pos, world
  <2>4. ASSUME NEW u \in Threads, Passed(u)' PROVE Passed(u)
    BY Zenon, <1>6, <2>2, <2>3, <2>4 DEF new_file_pos, Passed, Busy
  <2>5. ASSUME NEW u \in Threads, Passed(u)', m_stratege_type = "TIME" PROVE Good(u, t0[t])
    BY Zenon, <1>6, <2>4, <2>5 DEF new_file_pos, PeriodInv, Good, Replacing
  <2> QED BY Zenon, <1>6, <2>1, <2>2, <2>3, <2>4, <2>5 DEF new_file_pos, PeriodInv, Good
<1>7. ASSUME NEW t \in Threads, new_file_unlock(t) PROVE PeriodInv'
  BY <1>7 DEF new_file_unlock, Return, Goto, locals, world, history,
      PeriodInv, Passed, Good, Replacing, Busy
<1>8. CASE ForeignOpen
  BY Zenon, <1>8, MinFree DEF ForeignOpen, shared, locals, history, PeriodInv,
      Passed, Good, Replacing, Busy
<1>9. ASSUME NEW d \in Fds, ForeignClose(d) PROVE PeriodInv'
  BY Zenon, <1>9 DEF ForeignClose, shared, locals, history, PeriodInv, Passed, Good,
      Replacing, Busy
<1> QED BY Zenon, QuietSteps, <1>1, <1>2, <1>3, <1>4, <1>5, <1>6, <1>7, <1>8, <1>9 DEF Turn

LEMMA FiledStep ==
  ASSUME TypeInv, PeriodInv, FileOfPeriod, [Next]_vars
  PROVE  FileOfPeriod'
<1>1. ASSUME NEW t \in Threads, prt_write(t) PROVE FileOfPeriod'
  <2>1. ASSUME fd[t] # -1, table[fd[t]] \notin {NONE, FOREIGN} PROVE ~Misfiles(t, table[fd[t]])
    <3>1. ptime[t] \in Nat /\ table[fd[t]] \in Nat
      BY Zenon, <2>1 DEF TypeInv
    <3>2. ASSUME m_stratege_type = "TIME", ~overlap[t] PROVE Good(t, table[fd[t]])
      BY Zenon, <1>1, <2>1, <3>2 DEF prt_write, PeriodInv, Passed
    <3>3. Good(t, table[fd[t]]) => table[fd[t]] >= ptime[t] \/ ~Misfiles(t, table[fd[t]])
      BY Zenon DEF Misfiles, Good
    <3>4. table[fd[t]] >= ptime[t] => ~Misfiles(t, table[fd[t]])
      BY <3>1 DEF Misfiles
    <3>5. Misfiles(t, table[fd[t]]) => m_stratege_type = "TIME" /\ ~overlap[t]
      BY Zenon DEF Misfiles
    <3> QED BY Zenon, <3>2, <3>3, <3>4, <3>5
  <2> QED BY <1>1, <2>1 DEF prt_write, FileOfPeriod
<1>2. ASSUME ~ \E t \in Threads : prt_write(t) PROVE misfiled' = misfiled
  BY Zenon, <1>2 DEF Next, Thread, vars, history, init, prt, prt_test, prt_check, prt_choose, prt_add,
         new_file_cas, new_file_lock, new_file_retry, new_file_close, new_file_open,
         new_file_opened, new_file_failed, new_file_pos, new_file_unlock,
         HourPasses, ForeignOpen, ForeignClose
<1> QED BY Zenon, <1>1, <1>2 DEF FileOfPeriod

(* By time, a line that no other thread's new_file overlapped is never in  *)
(* the file of an earlier, different hour of the day (or day).             *)
THEOREM PeriodTheorem == Spec => []FileOfPeriod
<1>1. Init => PeriodInv /\ FileOfPeriod
  BY DEF Init, PeriodInv, Passed, Busy, FileOfPeriod
<1>2. IInv /\ PeriodInv /\ FileOfPeriod /\ [Next]_vars => PeriodInv' /\ FileOfPeriod'
  BY Zenon, PeriodStep, FiledStep DEF IInv
<1> QED BY <1>1, <1>2, AlwaysIInv, PTL DEF Spec

-----------------------------------------------------------------------------
(* Counting the bytes on their way. *)

Adding == {t \in Threads : pc[t] = "add"}

(* The bytes of the line of t. *)
Bytes(t) == {t} \X (1 .. len[t])

LEMMA BytesFacts ==
  ASSUME TypeInv, NEW t \in Threads
  PROVE  IsFiniteSet(Bytes(t)) /\ Cardinality(Bytes(t)) = len[t]
<1>1. len[t] \in Nat
  BY Zenon, MaxLine DEF TypeInv
<1>2. IsFiniteSet(1 .. len[t]) /\ Cardinality(1 .. len[t]) = len[t]
  BY <1>1, FS_Interval
<1>3. IsFiniteSet({t}) /\ Cardinality({t}) = 1
  BY FS_Singleton
<1>4. IsFiniteSet(Bytes(t)) /\ Cardinality(Bytes(t)) = Cardinality({t}) * Cardinality(1 .. len[t])
  BY <1>2, <1>3, FS_Product DEF Bytes
<1> QED BY <1>1, <1>2, <1>3, <1>4

LEMMA DebtFacts ==
  /\ IsFiniteSet(Debt) /\ Cardinality(Debt) \in Nat
  /\ IsFiniteSet(Adding) /\ Cardinality(Adding) \in Nat
  /\ Cardinality(Debt) <= Cardinality(Adding) * Max(Lines)
<1>1. IsFiniteSet(1 .. Max(Lines)) /\ Cardinality(1 .. Max(Lines)) = Max(Lines)
  BY MaxLine, FS_Interval
<1>2. IsFiniteSet(Adding)
  <2>1. IsFiniteSet(Threads) /\ Adding \in SUBSET Threads
    BY Zenon, LogAssumption DEF Adding
  <2> QED BY Zenon, <2>1, FS_Subset
<1>3. /\ IsFiniteSet(Adding \X (1 .. Max(Lines)))
      /\ Cardinality(Adding \X (1 .. Max(Lines))) = Cardinality(Adding) * Max(Lines)
  BY <1>1, <1>2, FS_Product
<1>4. Debt \in SUBSET (Adding \X (1 .. Max(Lines)))
  BY Zenon DEF Debt, Adding
<1>5. IsFiniteSet(Debt) /\ Cardinality(Debt) <= Cardinality(Adding \X (1 .. Max(Lines)))
  BY Zenon, <1>3, <1>4, FS_Subset
<1> QED BY Zenon, <1>2, <1>3, <1>5, FS_CardinalityType

LEMMA ComingFacts ==
  /\ IsFiniteSet(Threads) /\ Cardinality(Threads) \in Nat
  /\ IsFiniteSet(Coming) /\ Cardinality(Coming) \in Nat
  /\ Cardinality(Coming) <= Cardinality(Threads)
<1>1. IsFiniteSet(Threads) /\ Coming \in SUBSET Threads
  BY Zenon, LogAssumption DEF Coming
<1>2. IsFiniteSet(Coming) /\ Cardinality(Coming) <= Cardinality(Threads)
  BY Zenon, <1>1, FS_Subset
<1> QED BY Zenon, <1>1, <1>2, FS_CardinalityType

(* The lines on their way are of different threads. *)
LEMMA RoomForAll ==
  ASSUME NEW t \in Threads, pc[t] # "add"
  PROVE  Cardinality(Coming \union {t}) + Cardinality(Adding) <= Cardinality(Threads)
<1>1. Coming \union {t} \in SUBSET Threads /\ Adding \in SUBSET Threads
      /\ (Coming \union {t}) \intersect Adding = {}
  BY Zenon DEF Coming, Comes, Adding
<1>2. IsFiniteSet(Coming \union {t})
  BY Zenon, <1>1, ComingFacts, FS_Subset
<1> DEFINE C == Coming \union {t}
<1>3. /\ IsFiniteSet(C \union Adding)
      /\ Cardinality(C \union Adding) = Cardinality(C) + Cardinality(Adding) - Cardinality(C \intersect Adding)
  BY <1>2, DebtFacts, FS_Union
<1>4. C \union Adding \in SUBSET Threads
  BY Zenon, <1>1
<1>5. Cardinality(C \union Adding) <= Cardinality(Threads)
  BY Zenon, <1>4, ComingFacts, FS_Subset
<1>6. Cardinality(C \intersect Adding) = 0
  BY Zenon, <1>1, FS_EmptySet
<1>7. Cardinality(C) \in Nat
  BY Zenon, <1>2, FS_CardinalityType
<1> HIDE DEF C
<1>8. Cardinality(C) + Cardinality(Adding) <= Cardinality(Threads)
  BY <1>3, <1>5, <1>6, <1>7, DebtFacts, ComingFacts
<1> QED BY Zenon, <1>8 DEF C

LEMMA Monotone ==
  ASSUME NEW a \in Nat, NEW b \in Nat, NEW m \in Nat, a <= b
  PROVE  a * m <= b * m /\ a * m \in Nat /\ b * m \in Nat
<1>1. b = a + (b - a) /\ b - a \in Nat
  OBVIOUS
<1>2. (a + (b - a)) * m = a * m + (b - a) * m
  OBVIOUS
<1>3. (b - a) * m \in Nat /\ a * m \in Nat /\ b * m \in Nat
  BY <1>1
<1> QED BY <1>1, <1>2, <1>3

LEMMA OneLess ==
  ASSUME NEW a \in Nat \ {0}, NEW m \in Nat
  PROVE  (a - 1) * m = a * m - m
OBVIOUS

(* A step that only lets fewer threads come keeps the bounds. *)
LEMMA CountFrame ==
  ASSUME TypeInv, SizeInv, RoundBounded,
         UNCHANGED <<m_stratege_type, since>>, cur' = cur,
         m_cur_file_size'[cur] = m_cur_file_size[cur],
         Debt' = Debt, Coming' \subseteq Coming,
         \A t \in Threads : pc'[t] = "m_pos" => pc[t] = "m_pos"
  PROVE  (SizeInv /\ RoundBounded)'
<1>0. cur \in 0..1 /\ since \in [0..1 -> Nat] /\ Max(Lines) \in Nat
  BY Zenon, CurFacts, MaxLine DEF TypeInv
<1>1. Cardinality(Coming') \in Nat /\ Cardinality(Coming') <= Cardinality(Coming)
  BY Zenon, ComingFacts, FS_Subset, FS_CardinalityType
<1>2. Cardinality(Coming') * Max(Lines) <= Cardinality(Coming) * Max(Lines)
      /\ Cardinality(Coming') * Max(Lines) \in Nat /\ Cardinality(Coming) * Max(Lines) \in Nat
  BY Zenon, <1>0, <1>1, ComingFacts, Monotone
<1>3. Limit \in Int /\ Cardinality(Threads) * Max(Lines) \in Nat
  BY <1>0, LogAssumption, ComingFacts, Monotone DEF Limit
<1>4. RoundBounded'
  BY Zenon DEF RoundBounded
<1>5. ASSUME m_stratege_type = "SPACE"
      PROVE  since[cur] + Cardinality(Coming') * Max(Lines) <= Limit + Cardinality(Threads) * Max(Lines)
  <2>1. since[cur] \in Nat
    BY Zenon, <1>0
  <2>2. since[cur] + Cardinality(Coming) * Max(Lines) <= Limit + Cardinality(Threads) * Max(Lines)
    BY Zenon, <1>5 DEF SizeInv
  <2> QED BY <1>2, <1>3, <2>1, <2>2
<1> QED BY Zenon, <1>4, <1>5 DEF SizeInv, Limit

(* What a step leaves alone of a thread whose bytes do not change. *)
Still(u) ==
  /\ pc'[u] = "add" <=> pc[u] = "add"
  /\ pc[u] = "add" => len'[u] = len[u]
  /\ pc'[u] = "m_pos" => pc[u] = "m_pos"
  /\ Comes(u)' => Comes(u)

SizeKept ==
  /\ UNCHANGED <<m_stratege_type, since, m_pos>> /\ m_cur_file_size'[cur] = m_cur_file_size[cur]
  /\ \A u \in Threads : Still(u)

LEMMA SizeFrame ==
  ASSUME TypeInv, SizeInv, RoundBounded, SizeKept
  PROVE  (SizeInv /\ RoundBounded)'
<1> USE DEF SizeKept
<1>1. cur' = cur
  BY Zenon DEF cur
<1>2. Debt' = Debt
  BY Zenon DEF Debt, Still
<1>3. Coming' \subseteq Coming
  BY Zenon DEF Coming, Still
<1> QED BY Zenon, <1>1, <1>2, <1>3, CountFrame DEF Still

LEMMA SizeFacts ==
  ASSUME m_max_file_size > MAX_PARA_STR_LEN, TypeInv
  PROVE  /\ Max(Lines) \in Nat /\ Limit \in Nat /\ Cardinality(Threads) * Max(Lines) \in Nat
         /\ \A u \in Threads : len[u] \in Nat /\ len[u] <= Max(Lines)
<1>1. Limit \in Nat
  BY LogAssumption DEF Limit
<1>2. \A u \in Threads : len[u] \in Lines \union {0}
  BY Zenon DEF TypeInv
<1> QED BY Zenon, <1>1, <1>2, MaxLine, ComingFacts, Monotone

LEMMA SameDebt ==
  ASSUME \A u \in Threads : pc'[u] = "add" <=> pc[u] = "add",
         \A u \in Threads : pc[u] = "add" => len'[u] = len[u]
  PROVE  Debt' = Debt
BY Zenon DEF Debt

LEMMA CheckSize ==
  ASSUME m_max_file_size > MAX_PARA_STR_LEN,
         TypeInv, BusyInv, SlotInv, WriteInv, SizeInv, RoundBounded, NEW t \in Threads, prt_check(t)
  PROVE  (SizeInv /\ RoundBounded)'
<1> USE DEF Busy
<1>0. /\ pc \in [Threads -> PCs] /\ back \in [Threads -> {"idle", "check", "choose"}]
      /\ m_pos \in Int /\ m_pos >= -1 /\ overlap \in [Threads -> BOOLEAN]
      /\ moved \in [Threads -> 0..2] /\ len \in [Threads -> Lines \union {0}]
      /\ next \in [Threads -> 0..1] /\ m_busy \in {0, 1}
      /\ since \in [0..1 -> Nat] /\ m_cur_file_size \in [0..1 -> Nat]
      /\ cur \in 0..1 /\ (m_pos + 1) % 2 = 1 - cur /\ (m_pos + 1 + 2) % 2 = 1 - cur
      /\ (m_pos' = m_pos => cur' = cur)
  BY Zenon, CurFacts DEF TypeInv, cur
<1> USE <1>0
<1>1. /\ UNCHANGED <<m_stratege_type, since, m_cur_file_size>> /\ cur' = cur
  BY Zenon DEF prt_check, shared, world
<1>2. Debt' = Debt
  BY Zenon, SameDebt DEF prt_check
<1>3. \A u \in Threads : pc'[u] = "m_pos" => pc[u] = "m_pos"
  BY Zenon DEF prt_check
<1>4. CASE pc'[t] # "choose"
  <2>1. Coming' \subseteq Coming
    BY Zenon, <1>4 DEF prt_check, Coming, Comes, Passed
  <2> QED BY Zenon, <1>1, <1>2, <1>3, <2>1, CountFrame
<1>5. CASE pc'[t] = "choose" /\ m_stratege_type = "SPACE"
  <2>1. m_cur_file_size[cur] <= Limit
    BY <1>5, LogAssumption DEF prt_check, Full, Limit
  <2>2. Coming' \subseteq Coming \union {t}
    BY Zenon DEF prt_check, Coming, Comes, Passed
  <2>3. Cardinality(Coming \union {t}) + Cardinality(Adding) <= Cardinality(Threads)
    BY Zenon, RoomForAll DEF prt_check
  <2>4. IsFiniteSet(Coming \union {t}) /\ Cardinality(Coming \union {t}) \in Nat
    BY Zenon, ComingFacts, FS_AddElement, FS_CardinalityType
  <2>5. Cardinality(Coming') \in Nat /\ Cardinality(Coming') <= Cardinality(Coming \union {t})
    BY Zenon, <2>2, <2>4, FS_Subset, FS_CardinalityType
  <2>6. Cardinality(Coming') + Cardinality(Adding) <= Cardinality(Threads)
    BY <2>3, <2>4, <2>5, DebtFacts, ComingFacts
  <2>7. /\ (Cardinality(Coming') + Cardinality(Adding)) * Max(Lines) <= Cardinality(Threads) * Max(Lines)
    BY SizeFacts, <2>5, <2>6, DebtFacts, ComingFacts, Monotone
  <2>8. (Cardinality(Coming') + Cardinality(Adding)) * Max(Lines)
          = Cardinality(Coming') * Max(Lines) + Cardinality(Adding) * Max(Lines)
    BY SizeFacts, <2>5, DebtFacts
  <2>9. Cardinality(Coming') * Max(Lines) \in Nat /\ Cardinality(Adding) * Max(Lines) \in Nat
    BY SizeFacts, <2>5, DebtFacts, Monotone
  <2>10. since[cur] \in Nat /\ m_cur_file_size[cur] \in Nat
         /\ since[cur] <= m_cur_file_size[cur] + Cardinality(Debt)
    BY Zenon, <1>5 DEF SizeInv
  <2>11. since[cur] + Cardinality(Coming') * Max(Lines) <= Limit + Cardinality(Threads) * Max(Lines)
    BY SizeFacts, <2>1, <2>7, <2>8, <2>9, <2>10, DebtFacts
  <2>12. RoundBounded'
    BY Zenon, <1>1 DEF RoundBounded
  <2> QED BY Zenon, <1>1, <1>2, <1>3, <2>11, <2>12 DEF SizeInv, Limit
<1>6. CASE m_stratege_type # "SPACE"
  BY Zenon, <1>1, <1>6 DEF SizeInv, RoundBounded
<1> QED BY Zenon, <1>4, <1>5, <1>6

LEMMA WriteSize ==
  ASSUME m_max_file_size > MAX_PARA_STR_LEN,
         TypeInv, BusyInv, SlotInv, WriteInv, SizeInv, RoundBounded, NEW t \in Threads, prt_write(t)
  PROVE  (SizeInv /\ RoundBounded)'
<1> USE DEF Busy
<1>0. /\ pc \in [Threads -> PCs] /\ back \in [Threads -> {"idle", "check", "choose"}]
      /\ m_pos \in Int /\ m_pos >= -1 /\ overlap \in [Threads -> BOOLEAN]
      /\ moved \in [Threads -> 0..2] /\ len \in [Threads -> Lines \union {0}]
      /\ next \in [Threads -> 0..1] /\ m_busy \in {0, 1}
      /\ since \in [0..1 -> Nat] /\ m_cur_file_size \in [0..1 -> Nat]
      /\ cur \in 0..1 /\ (m_pos + 1) % 2 = 1 - cur /\ (m_pos + 1 + 2) % 2 = 1 - cur
      /\ (m_pos' = m_pos => cur' = cur)
  BY CurFacts DEF TypeInv, cur
<1> USE <1>0
<1>00. /\ m_stratege_type' = m_stratege_type /\ m_cur_file_size' = m_cur_file_size /\ cur' = cur
      /\ pc[t] = "write"
  BY Zenon DEF prt_write, shared
<1>1. /\ \A u \in Threads : u # t => pc'[u] = pc[u] /\ overlap'[u] = overlap[u]
                              /\ moved'[u] = moved[u] /\ back'[u] = back[u] /\ len'[u] = len[u]
      /\ pc'[t] \in {"idle", "add"} /\ (pc'[t] = "add" => len'[t] = len[t])
  BY DEF prt_write, Return, Goto, locals
<1>2. Coming' = Coming \ {t}
  BY Zenon, <1>1 DEF Coming, Comes, Passed
<1>3. \A u \in Threads : pc'[u] = "m_pos" => pc[u] = "m_pos"
  BY Zenon, <1>1
<1>4. CASE pc'[t] = "idle"
  <2>1. Debt' = Debt
    BY Zenon, SameDebt, <1>00, <1>1, <1>4
  <2>2. since' = since
    BY Zenon, <1>4 DEF prt_write, Goto, NONE, FOREIGN
  <2> QED BY Zenon, <1>00, <1>2, <1>3, <2>1, <2>2, CountFrame
<1>5. CASE pc'[t] = "add"
  <2>1. Debt' = Debt \union Bytes(t) /\ Debt \intersect Bytes(t) = {}
    BY SizeFacts, <1>00, <1>1, <1>5 DEF Debt, Bytes
  <2>2. Cardinality(Debt') = Cardinality(Debt) + len[t]
    <3>1. Cardinality(Debt \union Bytes(t))
            = Cardinality(Debt) + Cardinality(Bytes(t)) - Cardinality(Debt \intersect Bytes(t))
      BY Zenon, DebtFacts, BytesFacts, FS_Union
    <3>2. Cardinality(Debt \intersect Bytes(t)) = 0 /\ Cardinality(Bytes(t)) = len[t]
      BY Zenon, <2>1, BytesFacts, FS_EmptySet
    <3>3. len[t] \in Nat /\ Cardinality(Debt) \in Nat
      BY Zenon, SizeFacts, DebtFacts
    <3> QED BY <2>1, <3>1, <3>2, <3>3
  <2>3. Cardinality(Coming') * Max(Lines) \in Nat /\ Cardinality(Coming) * Max(Lines) \in Nat
        /\ Cardinality(Coming') * Max(Lines) <= Cardinality(Coming) * Max(Lines)
        /\ (t \in Coming => Cardinality(Coming') * Max(Lines) = Cardinality(Coming) * Max(Lines) - Max(Lines))
    <3>1. /\ IsFiniteSet(Coming')
          /\ Cardinality(Coming') = IF t \in Coming THEN Cardinality(Coming) - 1 ELSE Cardinality(Coming)
      BY Zenon, <1>2, ComingFacts, FS_RemoveElement
    <3>2. Cardinality(Coming') \in Nat /\ Cardinality(Coming') <= Cardinality(Coming)
      BY <3>1, ComingFacts, FS_CardinalityType
    <3>3. t \in Coming => Cardinality(Coming) \in Nat \ {0} /\ Cardinality(Coming') = Cardinality(Coming) - 1
      BY <3>1, <3>2, ComingFacts
    <3> QED BY Zenon, SizeFacts, <3>2, <3>3, ComingFacts, Monotone, OneLess
  <2>4. ASSUME m_stratege_type = "SPACE"
        PROVE  \/ since' = since
               \/ /\ t \in Coming /\ since'[1 - cur] = since[1 - cur]
                  /\ since'[cur] = Plus(since[cur], len[t])
    <3>1. CASE ~overlap[t] /\ moved[t] = 0 /\ fd[t] # -1
      <4>1. t \in Coming
        BY Zenon, <1>00, <3>1 DEF Coming, Comes, Passed
      <4>2. fd[t] = m_fd[cur] /\ m_fd[1 - cur] # fd[t]
        BY <1>00, <3>1 DEF WriteInv, SlotInv
      <4> QED BY <4>1, <4>2 DEF prt_write
    <3>2. CASE overlap[t] \/ moved[t] # 0 \/ fd[t] = -1
      BY <3>2 DEF prt_write, NONE, FOREIGN
    <3> QED BY Zenon, <3>1, <3>2
  <2>5. \A s \in 0..1 : s = cur \/ s = 1 - cur
    OBVIOUS
  <2>6. ASSUME m_stratege_type = "SPACE"
        PROVE  /\ since'[1 - cur] = since[1 - cur] /\ since'[cur] <= MaxBytes
               /\ since'[cur] <= since[cur] + len[t] /\ since'[cur] \in Nat
               /\ since'[cur] = since[cur] \/ t \in Coming
    <3>1. since[cur] \in Nat /\ since[cur] <= MaxBytes
      BY Zenon, <2>6 DEF SizeInv
    <3>2. Plus(since[cur], len[t]) \in Nat /\ Plus(since[cur], len[t]) <= MaxBytes
          /\ Plus(since[cur], len[t]) <= since[cur] + len[t]
      BY SizeFacts, <2>6, <3>1, PlusFacts
    <3> QED BY SizeFacts, <2>4, <2>6, <3>1, <3>2
  <2>7. ASSUME m_stratege_type = "SPACE"
        PROVE  /\ since'[cur] <= m_cur_file_size[cur] + Cardinality(Debt')
               /\ since'[cur] + Cardinality(Coming') * Max(Lines) <= Limit + Cardinality(Threads) * Max(Lines)
    <3>1. /\ since[cur] \in Nat /\ m_cur_file_size[cur] \in Nat
          /\ since[cur] <= m_cur_file_size[cur] + Cardinality(Debt)
          /\ since[cur] + Cardinality(Coming) * Max(Lines) <= Limit + Cardinality(Threads) * Max(Lines)
      BY Zenon, <2>7 DEF SizeInv
    <3> QED BY SizeFacts, <2>2, <2>3, <2>6, <2>7, <3>1, DebtFacts
  <2>8. RoundBounded'
    <3> SUFFICES ASSUME m_stratege_type = "SPACE", NEW s \in 0..1
                 PROVE  since'[s] <= Limit + Cardinality(Threads) * Max(Lines)
      BY Zenon, <1>00 DEF RoundBounded, Limit
    <3>1. since'[cur] <= Limit + Cardinality(Threads) * Max(Lines)
      BY SizeFacts, <2>3, <2>6, <2>7
    <3>2. since'[1 - cur] <= Limit + Cardinality(Threads) * Max(Lines)
      BY <2>6 DEF RoundBounded, Limit
    <3> QED BY Zenon, <2>5, <3>1, <3>2
  <2>9. ASSUME m_stratege_type = "SPACE" PROVE \A s \in 0..1 : since'[s] <= MaxBytes
    BY Zenon, <2>5, <2>6, <2>9 DEF SizeInv
  <2>10. ASSUME m_stratege_type = "SPACE", NEW u \in Threads, pc'[u] = "m_pos" PROVE since'[1 - cur] = 0
    BY Zenon, <1>3, <2>6, <2>10 DEF SizeInv
  <2> QED BY Zenon, <1>00, <2>7, <2>8, <2>9, <2>10 DEF SizeInv, Limit
<1> QED BY Zenon, <1>1, <1>4, <1>5

LEMMA AddSize ==
  ASSUME m_max_file_size > MAX_PARA_STR_LEN,
         TypeInv, BusyInv, SlotInv, WriteInv, SizeInv, RoundBounded, NEW t \in Threads, prt_add(t)
  PROVE  (SizeInv /\ RoundBounded)'
<1> USE DEF Busy
<1>0. /\ pc \in [Threads -> PCs] /\ back \in [Threads -> {"idle", "check", "choose"}]
      /\ m_pos \in Int /\ m_pos >= -1 /\ overlap \in [Threads -> BOOLEAN]
      /\ moved \in [Threads -> 0..2] /\ len \in [Threads -> Lines \union {0}]
      /\ next \in [Threads -> 0..1] /\ m_busy \in {0, 1}
      /\ since \in [0..1 -> Nat] /\ m_cur_file_size \in [0..1 -> Nat]
      /\ cur \in 0..1 /\ (m_pos + 1) % 2 = 1 - cur /\ (m_pos + 1 + 2) % 2 = 1 - cur
      /\ (m_pos' = m_pos => cur' = cur)
  BY CurFacts DEF TypeInv, cur
<1> USE <1>0
<1> DEFINE sz == m_cur_file_size[cur]
<1>1. /\ UNCHANGED <<m_stratege_type, since>> /\ cur' = cur
      /\ m_cur_file_size'[cur] = Plus(sz, len[t])
  BY Zenon DEF prt_add, world
<1>2. Debt' = Debt \ Bytes(t) /\ Bytes(t) \subseteq Debt
  BY SizeFacts DEF prt_add, Return, Debt, Bytes
<1>3. Cardinality(Debt') = Cardinality(Debt) - len[t]
  <2>1. Cardinality(Debt \ Bytes(t)) = Cardinality(Debt) - Cardinality(Debt \intersect Bytes(t))
    BY DebtFacts, FS_Difference
  <2>2. Debt \intersect Bytes(t) = Bytes(t)
    BY Zenon, <1>2
  <2> QED BY Zenon, <1>2, <2>1, <2>2, BytesFacts
<1>4. Coming' = Coming
  BY Zenon DEF prt_add, Return, Coming, Comes, Passed
<1>5. \A u \in Threads : pc'[u] = "m_pos" => pc[u] = "m_pos"
  BY Zenon DEF prt_add, Return
<1>6. ASSUME m_stratege_type = "SPACE" PROVE since[cur] <= Plus(sz, len[t]) + Cardinality(Debt')
  <2>1. /\ sz \in Nat /\ since[cur] \in Nat /\ since[cur] <= MaxBytes /\ MaxBytes \in Nat
        /\ since[cur] <= sz + Cardinality(Debt)
    BY Zenon, <1>6, LogAssumption DEF SizeInv
  <2>2. Plus(sz, len[t]) \in Nat /\ (Plus(sz, len[t]) = sz + len[t] \/ Plus(sz, len[t]) = MaxBytes)
    BY SizeFacts, <1>6, <2>1, PlusFacts
  <2>3. Cardinality(Debt') \in Nat
    <3>1. IsFiniteSet(Debt \ Bytes(t))
      BY DebtFacts, FS_Difference
    <3> QED BY Zenon, <1>2, <3>1, FS_CardinalityType
  <2> QED BY SizeFacts, <1>3, <2>1, <2>2, <2>3, DebtFacts
<1>7. RoundBounded'
  BY Zenon, <1>1 DEF RoundBounded
<1> QED BY Zenon, <1>1, <1>4, <1>5, <1>6, <1>7 DEF SizeInv, Limit

LEMMA OpenedSize ==
  ASSUME m_max_file_size > MAX_PARA_STR_LEN,
         TypeInv, BusyInv, SlotInv, WriteInv, SizeInv, RoundBounded, NEW t \in Threads, new_file_opened(t)
  PROVE  (SizeInv /\ RoundBounded)'
<1> USE DEF Busy
<1>0. /\ pc \in [Threads -> PCs] /\ back \in [Threads -> {"idle", "check", "choose"}]
      /\ m_pos \in Int /\ m_pos >= -1 /\ overlap \in [Threads -> BOOLEAN]
      /\ moved \in [Threads -> 0..2] /\ len \in [Threads -> Lines \union {0}]
      /\ next \in [Threads -> 0..1] /\ m_busy \in {0, 1}
      /\ since \in [0..1 -> Nat] /\ m_cur_file_size \in [0..1 -> Nat]
      /\ cur \in 0..1 /\ (m_pos + 1) % 2 = 1 - cur /\ (m_pos + 1 + 2) % 2 = 1 - cur
      /\ (m_pos' = m_pos => cur' = cur)
  BY CurFacts DEF TypeInv, cur
<1> USE <1>0
<1>1. next[t] = 1 - cur
  BY Zenon DEF new_file_opened, BusyInv, Replacing
<1>2. /\ m_stratege_type' = m_stratege_type /\ cur' = cur
      /\ m_cur_file_size'[cur] = m_cur_file_size[cur] /\ since'[cur] = since[cur] /\ since'[1 - cur] = 0
  BY <1>1 DEF new_file_opened
<1>3. Debt' = Debt
  BY Zenon, SameDebt DEF new_file_opened, Goto, locals, history
<1>4. Coming' = Coming
  BY Zenon DEF new_file_opened, Goto, locals, history, Coming, Comes, Passed
<1>5. \A s \in 0..1 : s = cur \/ s = 1 - cur
  OBVIOUS
<1>6. \A s \in 0..1 : since'[s] = since[s] \/ since'[s] = 0
  BY Zenon, <1>2, <1>5
<1>7. RoundBounded'
  BY SizeFacts, <1>2, <1>6 DEF RoundBounded, Limit
<1> QED BY SizeFacts, LogAssumption, <1>2, <1>3, <1>4, <1>6, <1>7 DEF SizeInv, Limit

LEMMA PosSize ==
  ASSUME m_max_file_size > MAX_PARA_STR_LEN,
         TypeInv, BusyInv, SlotInv, WriteInv, SizeInv, RoundBounded, NEW t \in Threads, new_file_pos(t)
  PROVE  (SizeInv /\ RoundBounded)'
<1> USE DEF Busy
<1>0. /\ pc \in [Threads -> PCs] /\ back \in [Threads -> {"idle", "check", "choose"}]
      /\ m_pos \in Int /\ m_pos >= -1 /\ overlap \in [Threads -> BOOLEAN]
      /\ moved \in [Threads -> 0..2] /\ len \in [Threads -> Lines \union {0}]
      /\ next \in [Threads -> 0..1] /\ m_busy \in {0, 1}
      /\ since \in [0..1 -> Nat] /\ m_cur_file_size \in [0..1 -> Nat]
      /\ cur \in 0..1 /\ (m_pos + 1) % 2 = 1 - cur /\ (m_pos + 1 + 2) % 2 = 1 - cur
      /\ (m_pos' = m_pos => cur' = cur)
  BY CurFacts DEF TypeInv, cur
<1> USE <1>0
<1>1. /\ m_stratege_type' = m_stratege_type /\ since' = since /\ cur' = 1 - cur
      /\ m_cur_file_size' = m_cur_file_size
  BY Zenon DEF new_file_pos, world, cur
<1>2. \A u \in Threads : pc'[u] # "m_pos"
  BY Zenon DEF new_file_pos, BusyInv
<1>3. Cardinality(Coming') \in Nat /\ Cardinality(Coming') <= Cardinality(Threads)
  <2>1. Coming' \in SUBSET Threads
    BY Zenon DEF Coming
  <2> QED BY Zenon, <2>1, ComingFacts, FS_Subset, FS_CardinalityType
<1>4. Cardinality(Coming') * Max(Lines) <= Cardinality(Threads) * Max(Lines)
      /\ Cardinality(Coming') * Max(Lines) \in Nat
  BY Zenon, SizeFacts, <1>3, ComingFacts, Monotone
<1>5. Debt' = Debt
  BY Zenon, SameDebt DEF new_file_pos
<1>6. m_stratege_type = "SPACE" => since[1 - cur] = 0
  BY Zenon DEF new_file_pos, SizeInv
<1>7. m_cur_file_size[1 - cur] \in Nat
  OBVIOUS
<1>8. RoundBounded'
  BY Zenon, <1>1 DEF RoundBounded
<1>9. ASSUME (m_stratege_type = "SPACE")'
      PROVE  /\ (\A s \in 0..1 : since[s] <= MaxBytes)'
             /\ (since[cur] <= m_cur_file_size[cur] + Cardinality(Debt))'
             /\ (since[cur] + Cardinality(Coming) * Max(Lines) <= Limit + Cardinality(Threads) * Max(Lines))'
  <2>1. m_stratege_type = "SPACE" /\ since'[cur'] = 0 /\ m_cur_file_size'[cur'] \in Nat
    BY Zenon, <1>1, <1>6, <1>7, <1>9
  <2>2. \A s \in 0..1 : since'[s] <= MaxBytes
    BY Zenon, <1>1, <2>1 DEF SizeInv
  <2>3. Cardinality(Debt') \in Nat
    BY Zenon, <1>5, DebtFacts
  <2>4. (since[cur] <= m_cur_file_size[cur] + Cardinality(Debt))'
    BY <2>1, <2>3
  <2>5. Limit' = Limit /\ Limit \in Nat
    BY Zenon, SizeFacts, <1>1 DEF Limit
  <2>6. Cardinality(Threads) * Max(Lines) \in Nat
    BY Zenon, SizeFacts
  <2> HIDE DEF Limit
  <2>7. (since[cur] + Cardinality(Coming) * Max(Lines) <= Limit + Cardinality(Threads) * Max(Lines))'
    BY <1>4, <2>1, <2>5, <2>6
  <2> QED BY Zenon, <2>2, <2>4, <2>7
<1> QED BY Zenon, <1>2, <1>8, <1>9 DEF SizeInv

(* The steps that leave the sizes alone. *)
LEMMA KeptSteps ==
  ASSUME TypeInv, BusyInv, [Next]_vars
  PROVE  SizeKept \/ \E t \in Threads : \/ prt_check(t) \/ prt_write(t) \/ prt_add(t)
                                        \/ new_file_opened(t) \/ new_file_pos(t)
<1> USE DEF Busy
<1>0. /\ pc \in [Threads -> PCs] /\ back \in [Threads -> {"idle", "check", "choose"}]
      /\ m_pos \in Int /\ m_pos >= -1 /\ overlap \in [Threads -> BOOLEAN]
      /\ moved \in [Threads -> 0..2] /\ len \in [Threads -> Lines \union {0}]
      /\ next \in [Threads -> 0..1] /\ m_busy \in {0, 1}
      /\ since \in [0..1 -> Nat] /\ m_cur_file_size \in [0..1 -> Nat]
      /\ cur \in 0..1 /\ (m_pos + 1) % 2 = 1 - cur /\ (m_pos + 1 + 2) % 2 = 1 - cur
      /\ (m_pos' = m_pos => cur' = cur)
  BY Zenon, CurFacts DEF TypeInv, cur
<1> USE <1>0
<1>1. ASSUME NEW t \in Threads, init(t) PROVE SizeKept
  BY Zenon, <1>1 DEF init, Call, shared, world, history, SizeKept, Still, Comes, Passed, BusyInv
<1>2. ASSUME NEW t \in Threads, NEW lvl \in Levels, NEW n \in Lines, prt(t, lvl, n)
      PROVE  SizeKept
  BY Zenon, <1>2 DEF prt, shared, world, history, SizeKept, Still, Comes, Passed
<1>3. ASSUME NEW t \in Threads, prt_test(t) PROVE SizeKept
  BY Zenon, <1>3 DEF prt_test, Call, Goto, shared, world, locals, history, SizeKept, Still, Comes,
      Passed
<1>4. ASSUME NEW t \in Threads, prt_choose(t) PROVE SizeKept
  BY Zenon, <1>4 DEF prt_choose, shared, world, history, SizeKept, Still, Comes, Passed
<1>5. ASSUME NEW t \in Threads, new_file_retry(t) PROVE SizeKept
  BY Zenon, <1>5 DEF new_file_retry, shared, world, history, SizeKept, Still, Comes, Passed
<1>6. ASSUME NEW t \in Threads, new_file_close(t) PROVE SizeKept
  BY Zenon, <1>6 DEF new_file_close, Goto, locals, shared, history, SizeKept, Still, Comes, Passed
<1>7. ASSUME NEW t \in Threads, new_file_unlock(t) PROVE SizeKept
  BY <1>7 DEF new_file_unlock, Return, Goto, locals, world, history, SizeKept, Still, Comes,
      Passed
<1>8. CASE HourPasses
  BY Zenon, <1>8 DEF HourPasses, shared, locals, history, SizeKept, Still, Comes, Passed
<1>9. CASE ForeignOpen
  BY Zenon, <1>9 DEF ForeignOpen, shared, locals, history, SizeKept, Still, Comes, Passed
<1>10. ASSUME NEW d \in Fds, ForeignClose(d) PROVE SizeKept
  BY Zenon, <1>10 DEF ForeignClose, shared, locals, history, SizeKept, Still, Comes, Passed
<1>11. CASE UNCHANGED vars
  BY Zenon, <1>11 DEF vars, shared, world, locals, history, SizeKept, Still, Comes, Passed
<1>12. ASSUME NEW t \in Threads, new_file_lock(t) PROVE SizeKept
  BY <1>12 DEF new_file_lock, world, history, SizeKept, Still, Comes, Passed
<1>13. ASSUME NEW t \in Threads, new_file_failed(t) PROVE SizeKept
  BY Zenon, <1>13 DEF new_file_failed, Return, world, history, SizeKept, Still, Comes, Passed,
      BusyInv, Replacing
<1> QED BY Zenon, <1>1, <1>2, <1>3, <1>4, <1>5, <1>6, <1>7, <1>8, <1>9, <1>10, <1>11,
           <1>12, <1>13
        DEF Next, Thread, new_file_cas, new_file_open

LEMMA SizeStep ==
  ASSUME m_max_file_size > MAX_PARA_STR_LEN,
         TypeInv, BusyInv, SlotInv, WriteInv, SizeInv, RoundBounded, [Next]_vars
  PROVE  (SizeInv /\ RoundBounded)'
BY Zenon, KeptSteps, SizeFrame, CheckSize, WriteSize, AddSize, OpenedSize, PosSize

LEMMA InitSize ==
  ASSUME m_max_file_size > MAX_PARA_STR_LEN, Init
  PROVE  SizeInv /\ RoundBounded
<1>1. Coming = {} /\ cur = 1 /\ \A t \in Threads : pc[t] = "idle"
  BY DEF Init, Coming, Comes, cur
<1>2. Cardinality(Coming) = 0 /\ Cardinality(Debt) \in Nat
  BY Zenon, <1>1, FS_EmptySet, DebtFacts
<1>3. Limit \in Nat /\ MaxBytes \in Nat
  BY LogAssumption DEF Limit
<1>4. Max(Lines) \in Nat /\ Cardinality(Threads) * Max(Lines) \in Nat
  BY Zenon, MaxLine, ComingFacts, Monotone
<1>5. RoundBounded
  BY <1>3, <1>4 DEF Init, RoundBounded, Limit
<1> QED BY <1>1, <1>2, <1>3, <1>4, <1>5 DEF Init, SizeInv

(* By size, when the maximum leaves room for the reserve: a file gets less *)
(* than the maximum without the reserve, and a line of every thread.       *)
THEOREM RoundTheorem ==
  ASSUME m_max_file_size > MAX_PARA_STR_LEN
  PROVE  Spec => []RoundBounded
<1>1. Init => SizeInv /\ RoundBounded
  BY Zenon, InitSize
<1>2. IInv /\ SizeInv /\ RoundBounded /\ [Next]_vars => SizeInv' /\ RoundBounded'
  BY Zenon, SizeStep DEF IInv
<1> QED BY <1>1, <1>2, AlwaysIInv, PTL DEF Spec
=============================================================================
