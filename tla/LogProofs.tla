----------------------------- MODULE LogProofs ------------------------------
(***************************************************************************)
(* Proofs about the files and the descriptors of Log, for any number of    *)
(* threads and descriptors and any strategy.                               *)
(*                                                                         *)
(* The properties of the log speak of the current slot, while new_file     *)
(* works on the other one and the writers may still hold the descriptor of *)
(* either.  The inductive invariant therefore says who works on which slot *)
(* (BusyInv), which descriptors are open and for which file (SlotInv,      *)
(* FileInv) and what the descriptor of a writer has become (WriteInv).     *)
(***************************************************************************)
EXTENDS Log, FiniteSetTheorems, TLAPS

Busy == {"close", "open", "m_pos", "m_busy"}
Replacing == {"close", "open", "m_pos"}
PCs == {"idle", "new_file", "test", "check", "choose", "write", "add"} \union Busy

TypeInv ==
  /\ m_fd \in [0..1 -> Fds \union {-1}]
  /\ m_pos \in Int /\ m_pos >= -1 /\ m_busy \in {0, 1}
  /\ m_cur_filetime \in [0..1 -> Nat] /\ m_cur_file_size \in [0..1 -> Nat]
  /\ now \in Nat /\ table \in [Fds -> Nat \union {NONE, FOREIGN}]
  /\ since \in [0..1 -> Nat] /\ inited \in BOOLEAN
  /\ pc \in [Threads -> PCs] /\ ptime \in [Threads -> Nat]
  /\ len \in [Threads -> Lines \union {0}] /\ fd \in [Threads -> Fds \union {-1}]
  /\ next \in [Threads -> 0..1] /\ t0 \in [Threads -> Nat]
  /\ back \in [Threads -> {"idle", "check", "choose"}]
  /\ moved \in [Threads -> 0..2] /\ overlap \in [Threads -> BOOLEAN]

(* One thread at a time is inside new_file, m_busy says whether there is   *)
(* one, and it replaces the slot that is not current.  Before init there   *)
(* is nobody in a call.                                                    *)
BusyInv ==
  /\ ~inited => \A t \in Threads : pc[t] = "idle"
  /\ \A t \in Threads : pc[t] \in Busy => m_busy = 1
  /\ \A t, u \in Threads : pc[t] \in Busy /\ pc[u] \in Busy => t = u
  /\ m_busy = 1 => \E t \in Threads : pc[t] \in Busy
  /\ \A t \in Threads : pc[t] \in Replacing => next[t] = 1 - cur

(* A slot whose descriptor has been closed and not been opened again. *)
Replaced(s) == \E t \in Threads : pc[t] = "open" /\ next[t] = s

(* The log has open what its slots hold. *)
SlotInv ==
  /\ m_fd[0] = m_fd[1] => m_fd[0] = -1
  /\ \A d \in Fds : d \in LogOpen <=> \E s \in 0..1 : m_fd[s] = d /\ ~Replaced(s)

(* f is the file for the position p of the log, if made at time h. *)
FileAt(f, p, h) ==
  CASE m_stratege_type = "TIME" -> f = h
    [] m_stratege_type = "SPACE" -> f = (p % m_amount_size) + 1
    [] OTHER -> f = 0

(* The current slot, and the one about to become current, are for the file *)
(* their position calls for.                                               *)
FileInv ==
  /\ m_pos >= 0 => m_fd[cur] # -1
  /\ m_fd[cur] # -1 => FileAt(table[m_fd[cur]], m_pos, m_cur_filetime[cur])
  /\ \A t \in Threads : pc[t] = "m_pos" =>
       /\ m_fd[1 - cur] # -1 /\ m_cur_filetime[1 - cur] = t0[t]
       /\ FileAt(table[m_fd[1 - cur]], m_pos + 1, t0[t])

(* What has become of the descriptor of a writer. *)
WriteInv ==
  \A t \in Threads :
    /\ moved[t] # 0 => pc[t] \in {"write", "add"}
    /\ pc[t] = "write" /\ moved[t] = 0 => fd[t] = m_fd[cur]
    /\ pc[t] = "write" /\ moved[t] = 1 =>
         fd[t] = m_fd[1 - cur] /\ \A u \in Threads : pc[u] \notin Replacing

IInv == TypeInv /\ BusyInv /\ SlotInv /\ FileInv /\ WriteInv /\ WritesReach

-----------------------------------------------------------------------------
(* A set of naturals has a least element: what an open returns is defined. *)
LEMMA LeastNat ==
  ASSUME NEW T \in SUBSET Nat, T # {}
  PROVE  \E x \in T : \A y \in T : x <= y
<1> DEFINE Below == {0 .. n - 1 : n \in T}
<1>1. Below \subseteq FiniteSubsetsOf(Nat) /\ Below # {}
  <2>1. ASSUME NEW n \in T PROVE 0 .. n - 1 \in SUBSET Nat /\ IsFiniteSet(0 .. n - 1)
    BY FS_Interval
  <2> QED BY <2>1 DEF FiniteSubsetsOf
<1>2. PICK X \in Below : \A Y \in Below : ~ (<<Y, X>> \in StrictSubsetOrdering(Nat))
  <2>1. IsWellFoundedOn(StrictSubsetOrdering(Nat), FiniteSubsetsOf(Nat))
    BY FS_StrictSubsetOrderingWellFounded
  <2> HIDE DEF Below
  <2> QED BY <1>1, <2>1, WFMin
<1>3. PICK x \in T : X = 0 .. x - 1
  OBVIOUS
<1>4. ASSUME NEW y \in T, y < x PROVE FALSE
  <2>1. 0 .. y - 1 \in Below
    OBVIOUS
  <2>2. /\ 0 .. y - 1 \subseteq 0 .. x - 1 /\ 0 .. x - 1 \subseteq Nat
        /\ y \in 0 .. x - 1 /\ y \notin 0 .. y - 1
    BY <1>4
  <2>3. <<0 .. y - 1, 0 .. x - 1>> \in StrictSubsetOrdering(Nat)
    BY <2>2 DEF StrictSubsetOrdering
  <2> QED BY <1>2, <1>3, <2>1, <2>3
<1> QED BY <1>4

LEMMA MinFree == ASSUME Free # {} PROVE Min(Free) \in Fds /\ table[Min(Free)] = NONE
<1>1. Free \in SUBSET Nat
  BY LogAssumption DEF Free
<1>2. \E x \in Free : \A y \in Free : x <= y
  BY <1>1, LeastNat
<1>3. Min(Free) \in Free
  BY <1>2 DEF Min
<1> QED BY <1>3 DEF Free

LEMMA MaxLine == Max(Lines) \in Nat /\ \A n \in Lines \union {0} : n \in Nat /\ n <= Max(Lines)
<1>1. \E m \in Lines : \A n \in Lines : m >= n
  BY LogAssumption
<1>2. Max(Lines) \in Lines /\ \A n \in Lines : Max(Lines) >= n
  BY <1>1 DEF Max
<1>3. \A n \in Lines : n \in Nat
  BY LogAssumption
<1> QED BY <1>2, <1>3

(* The slots take turns. *)
LEMMA CurFacts ==
  ASSUME m_pos \in Int, m_pos >= -1
  PROVE  cur \in 0..1 /\ (m_pos + 1) % 2 = 1 - cur /\ (m_pos + 1 + 2) % 2 = 1 - cur
BY DEF cur

(* The file that new_file opens is the one for the position it moves to. *)
LEMMA FileName ==
  ASSUME TypeInv, NEW t \in Threads
  PROVE  m_cur_filename(t) \in Nat /\ FileAt(m_cur_filename(t), m_pos + 1, t0[t])
<1>1. t0[t] \in Nat /\ m_pos + 1 \in Nat
  BY DEF TypeInv
<1>2. ((m_pos + 1) % m_amount_size) + 1 \in Nat
  BY <1>1, LogAssumption
<1> QED BY <1>1, <1>2 DEF m_cur_filename, FileAt

LEMMA PlusFacts ==
  ASSUME NEW a \in Nat, NEW b \in Nat
  PROVE  /\ Plus(a, b) \in Nat
         /\ m_stratege_type = "SPACE" =>
              Plus(a, b) <= MaxBytes /\ Plus(a, b) <= a + b
              /\ (Plus(a, b) = a + b \/ Plus(a, b) = MaxBytes)
BY LogAssumption DEF Plus

-----------------------------------------------------------------------------
LEMMA TypeStep == ASSUME TypeInv, [Next]_vars PROVE TypeInv'
<1> USE DEF TypeInv
<1>0. PCs = {"idle", "new_file", "test", "check", "choose", "write", "add",
             "close", "open", "m_pos", "m_busy"}
  BY DEF PCs, Busy
<1> USE <1>0
<1>01. \A n \in Lines \union {0} : n \in Nat
  BY MaxLine
<1>02. 0 \in Nat /\ 0 \in Lines \union {0} /\ -1 \in Fds \union {-1} /\ 0 \in 0..1 /\ 0 \in 0..2
       /\ 1 \in 0..2 /\ 2 \in 0..2
  OBVIOUS
<1>03. cur \in 0..1 /\ (m_pos + 1) % 2 \in 0..1
  BY CurFacts
<1>1. ASSUME NEW t \in Threads, init(t) PROVE TypeInv'
  BY <1>1 DEF init, Call, shared, world, history
<1>2. ASSUME NEW t \in Threads, NEW lvl \in Levels, NEW n \in Lines, prt(t, lvl, n) PROVE TypeInv'
  BY <1>2 DEF prt, shared, world, history
<1>3. ASSUME NEW t \in Threads, prt_test(t) PROVE TypeInv'
  BY <1>3 DEF prt_test, Call, Goto, shared, world, locals, history
<1>4. ASSUME NEW t \in Threads, prt_check(t) PROVE TypeInv'
  BY <1>4 DEF prt_check, shared, world, history
<1>5. ASSUME NEW t \in Threads, prt_choose(t) PROVE TypeInv'
  BY <1>5, <1>03 DEF prt_choose, shared, world, history
<1>6. ASSUME NEW t \in Threads, prt_write(t) PROVE TypeInv'
  <2>1. since' \in [0..1 -> Nat]
    <3>1. len[t] \in Nat /\ \A s \in 0..1 : since[s] \in Nat /\ Plus(since[s], len[t]) \in Nat
      BY <1>01, PlusFacts
    <3> QED BY <1>6, <3>1 DEF prt_write
  <2>2. /\ pc' \in [Threads -> PCs] /\ ptime' \in [Threads -> Nat]
        /\ len' \in [Threads -> Lines \union {0}] /\ fd' \in [Threads -> Fds \union {-1}]
        /\ next' \in [Threads -> 0..1] /\ t0' \in [Threads -> Nat]
        /\ back' \in [Threads -> {"idle", "check", "choose"}]
        /\ moved' \in [Threads -> 0..2] /\ overlap' \in [Threads -> BOOLEAN]
    <3>1. CASE Return(t)
      BY <3>1, <1>02 DEF Return
    <3>2. CASE Goto(t, "add")
      BY <3>2 DEF Goto, locals
    <3> QED BY <1>6, <3>1, <3>2 DEF prt_write
  <2> QED BY <1>6, <2>1, <2>2 DEF prt_write, shared
<1>7. ASSUME NEW t \in Threads, prt_add(t) PROVE TypeInv'
  <2>1. m_cur_file_size' \in [0..1 -> Nat]
    BY <1>7, <1>01, <1>03, PlusFacts DEF prt_add
  <2> QED BY <1>7, <1>02, <2>1 DEF prt_add, Return, world, history
<1>8. ASSUME NEW t \in Threads, new_file_lock(t) PROVE TypeInv'
  BY <1>8, <1>02, <1>03 DEF new_file_lock, world, history
<1>17. ASSUME NEW t \in Threads, new_file_retry(t) PROVE TypeInv'
  BY <1>17 DEF new_file_retry, shared, world, history
<1>9. ASSUME NEW t \in Threads, new_file_close(t) PROVE TypeInv'
  BY <1>9 DEF new_file_close, Goto, locals, shared, history
<1>10. ASSUME NEW t \in Threads, new_file_opened(t) PROVE TypeInv'
  BY <1>10, MinFree, FileName DEF new_file_opened, Goto, locals, history
<1>18. ASSUME NEW t \in Threads, new_file_failed(t) PROVE TypeInv'
  BY <1>18, <1>02 DEF new_file_failed, Return, world, history
<1>11. ASSUME NEW t \in Threads, new_file_pos(t) PROVE TypeInv'
  BY <1>11, <1>02 DEF new_file_pos, world, history
<1>12. ASSUME NEW t \in Threads, new_file_unlock(t) PROVE TypeInv'
  <2>1. CASE Return(t)
    BY <1>12, <2>1, <1>02 DEF new_file_unlock, Return, world, history
  <2>2. CASE Goto(t, back[t])
    BY <1>12, <2>2 DEF new_file_unlock, Goto, locals, world, history
  <2> QED BY <1>12, <2>1, <2>2 DEF new_file_unlock
<1>13. CASE HourPasses
  BY <1>13 DEF HourPasses, shared, locals, history
<1>14. CASE ForeignOpen
  BY <1>14, MinFree DEF ForeignOpen, shared, locals, history
<1>15. ASSUME NEW d \in Fds, ForeignClose(d) PROVE TypeInv'
  BY <1>15 DEF ForeignClose, shared, locals, history
<1>16. CASE UNCHANGED vars
  BY <1>16 DEF vars, shared, world, locals, history
<1> QED BY <1>1, <1>2, <1>3, <1>4, <1>5, <1>6, <1>7, <1>8, <1>9, <1>10, <1>11, <1>12,
           <1>13, <1>14, <1>15, <1>16, <1>17, <1>18 DEF Next, Thread, new_file_cas, new_file_open
(* What the steps outside new_file leave alone, and how they lead to the   *)
(* write.                                                                  *)
Quiet ==
  /\ UNCHANGED <<m_stratege_type, m_fd, m_pos, m_busy, m_cur_filetime, table>> /\ now' \in Nat /\ now' >= now
  /\ ~inited' => \A u \in Threads : pc'[u] = "idle"
  /\ \A u \in Threads :
       /\ pc[u] \in Busy \/ pc'[u] \in Busy =>
            /\ pc'[u] = pc[u] /\ next'[u] = next[u] /\ t0'[u] = t0[u] /\ back'[u] = back[u]
            /\ ptime'[u] = ptime[u] /\ (overlap[u] => overlap'[u])
       /\ ptime'[u] \in {0, now, ptime[u]}
       /\ pc'[u] = "choose" /\ ~overlap'[u] =>
            /\ ptime'[u] = ptime[u]
            /\ (pc[u] = "choose" /\ ~overlap[u]) \/ (~Full(u) /\ m_busy = 0)
       /\ pc'[u] = "write" =>
            /\ ptime'[u] = ptime[u] /\ moved'[u] = moved[u] /\ (overlap[u] => overlap'[u])
            /\ \/ pc[u] = "write" /\ fd'[u] = fd[u]
               \/ pc[u] = "choose" /\ fd'[u] = m_fd[cur]
       /\ moved'[u] # 0 =>
            moved'[u] = moved[u] /\ (pc[u] \in {"write", "add"} => pc'[u] \in {"write", "add"})

(* The other steps. *)
Turn ==
  \/ \E t \in Threads : \/ new_file_lock(t) \/ new_file_close(t) \/ new_file_opened(t)
                        \/ new_file_failed(t) \/ new_file_pos(t) \/ new_file_unlock(t)
  \/ ForeignOpen \/ \E d \in Fds : ForeignClose(d)

LEMMA QuietSteps == ASSUME TypeInv, BusyInv, [Next]_vars PROVE Quiet \/ Turn
<1> USE DEF Busy, BusyInv
<1>0. /\ pc \in [Threads -> PCs] /\ next \in [Threads -> 0..1] /\ t0 \in [Threads -> Nat]
      /\ back \in [Threads -> {"idle", "check", "choose"}] /\ ptime \in [Threads -> Nat]
      /\ now \in Nat /\ overlap \in [Threads -> BOOLEAN] /\ moved \in [Threads -> 0..2]
      /\ fd \in [Threads -> Fds \union {-1}] /\ m_busy \in {0, 1}
  BY DEF TypeInv
<1> USE <1>0
<1>1. ASSUME NEW t \in Threads, init(t) PROVE Quiet
  BY <1>1 DEF init, Call, shared, world, history, Quiet
<1>2. ASSUME NEW t \in Threads, NEW lvl \in Levels, NEW n \in Lines, prt(t, lvl, n)
      PROVE  Quiet
  BY <1>2 DEF prt, shared, world, history, Quiet
<1>3. ASSUME NEW t \in Threads, prt_test(t) PROVE Quiet
  BY <1>3 DEF prt_test, Call, Goto, shared, world, locals, history, Quiet
<1>4. ASSUME NEW t \in Threads, prt_check(t) PROVE Quiet
  <2>1. ~overlap'[t] => ~overlap[t] /\ m_busy = 0
    BY <1>4 DEF prt_check
  <2>2. \A u \in Threads : u # t => pc'[u] = pc[u] /\ (overlap'[u] <=> overlap[u])
    BY <1>4 DEF prt_check
  <2>3. pc'[t] = "choose" => ~Full(t)
    BY <1>4 DEF prt_check
  <2>4. pc[t] = "check" /\ pc'[t] \in {"new_file", "choose"} /\ inited
    BY <1>4 DEF prt_check
  <2>5. UNCHANGED <<m_stratege_type, m_fd, m_pos, m_busy, m_cur_filetime, table, inited,
                    next, t0, ptime, moved, fd, now>>
    BY <1>4 DEF prt_check, shared, world
  <2>6. \A u \in Threads : u # t => back'[u] = back[u]
    BY <1>4 DEF prt_check
  <2> QED BY <2>1, <2>2, <2>3, <2>4, <2>5, <2>6 DEF Quiet
<1>5. ASSUME NEW t \in Threads, prt_choose(t) PROVE Quiet
  BY <1>5 DEF prt_choose, shared, world, history, Quiet
<1>6. ASSUME NEW t \in Threads, prt_write(t) PROVE Quiet
  BY <1>6 DEF prt_write, Return, Goto, locals, shared, Quiet
<1>7. ASSUME NEW t \in Threads, prt_add(t) PROVE Quiet
  BY <1>7 DEF prt_add, Return, world, history, Quiet
<1>8. ASSUME NEW t \in Threads, new_file_retry(t) PROVE Quiet
  BY <1>8 DEF new_file_retry, shared, world, history, Quiet
<1>9. CASE HourPasses
  BY <1>9 DEF HourPasses, shared, locals, history, Quiet
<1>10. CASE UNCHANGED vars
  BY <1>10 DEF vars, shared, world, locals, history, Quiet
<1> QED BY <1>1, <1>2, <1>3, <1>4, <1>5, <1>6, <1>7, <1>8, <1>9, <1>10
        DEF Next, Thread, new_file_cas, new_file_open, Turn

LEMMA BusyStep ==
  ASSUME TypeInv, BusyInv, [Next]_vars
  PROVE  BusyInv'
<1>0. /\ pc \in [Threads -> PCs] /\ next \in [Threads -> 0..1] /\ m_pos \in Int /\ m_pos >= -1
      /\ back \in [Threads -> {"idle", "check", "choose"}]
      /\ cur \in 0..1 /\ (m_pos + 1) % 2 = 1 - cur /\ (m_pos + 1 + 2) % 2 = 1 - cur
  BY CurFacts DEF TypeInv
<1> USE <1>0
<1>1. CASE Quiet
  BY <1>1 DEF Quiet, BusyInv, Busy, Replacing, cur
<1>2. ASSUME NEW t \in Threads, new_file_lock(t) PROVE BusyInv'
  BY <1>2 DEF new_file_lock, world, history, BusyInv, Busy, Replacing, cur
<1>3. ASSUME NEW t \in Threads, new_file_close(t) PROVE BusyInv'
  BY <1>3 DEF new_file_close, Goto, locals, shared, history, BusyInv, Busy,
      Replacing, cur
<1>4. ASSUME NEW t \in Threads, new_file_opened(t) PROVE BusyInv'
  BY <1>4 DEF new_file_opened, Goto, locals, history, BusyInv, Busy,
      Replacing, cur
<1>5. ASSUME NEW t \in Threads, new_file_failed(t) PROVE BusyInv'
  BY <1>5 DEF new_file_failed, Return, world, history, BusyInv, Busy,
      Replacing, cur
<1>6. ASSUME NEW t \in Threads, new_file_pos(t) PROVE BusyInv'
  BY <1>6 DEF new_file_pos, world, history, BusyInv, Busy, Replacing, cur
<1>7. ASSUME NEW t \in Threads, new_file_unlock(t) PROVE BusyInv'
  BY <1>7 DEF new_file_unlock, Return, Goto, locals, world, history, BusyInv,
      Busy, Replacing, cur
<1>8. CASE ForeignOpen
  BY <1>8 DEF ForeignOpen, shared, locals, history, BusyInv, Busy, Replacing,
      cur
<1>9. ASSUME NEW d \in Fds, ForeignClose(d) PROVE BusyInv'
  BY <1>9 DEF ForeignClose, shared, locals, history, BusyInv, Busy, Replacing,
      cur
<1> QED BY QuietSteps, <1>1, <1>2, <1>3, <1>4, <1>5, <1>6, <1>7, <1>8, <1>9 DEF Turn

LEMMA SlotStep ==
  ASSUME TypeInv, BusyInv, SlotInv, [Next]_vars
  PROVE  SlotInv'
<1>0. /\ pc \in [Threads -> PCs] /\ next \in [Threads -> 0..1]
      /\ m_fd \in [0..1 -> Fds \union {-1}] /\ table \in [Fds -> Nat \union {NONE, FOREIGN}]
      /\ back \in [Threads -> {"idle", "check", "choose"}]
      /\ -1 \notin Fds /\ NONE \notin Nat /\ FOREIGN \notin Nat /\ NONE # FOREIGN
  BY LogAssumption DEF TypeInv, NONE, FOREIGN
<1> USE <1>0
<1>1. CASE Quiet
  BY <1>1 DEF Quiet, Busy, SlotInv, Replaced, LogOpen
<1>2. ASSUME NEW t \in Threads, new_file_lock(t) PROVE SlotInv'
  BY <1>2 DEF new_file_lock, world, history, SlotInv, Replaced, LogOpen
<1>3. ASSUME NEW t \in Threads, new_file_close(t) PROVE SlotInv'
  BY <1>3 DEF new_file_close, Goto, locals, shared, history, SlotInv,
      Replaced, LogOpen, BusyInv, Busy
<1>4. ASSUME NEW t \in Threads, new_file_opened(t) PROVE SlotInv'
  BY <1>4, MinFree, FileName DEF new_file_opened, Goto, locals, history,
      SlotInv, Replaced, LogOpen, BusyInv, Busy
<1>5. ASSUME NEW t \in Threads, new_file_failed(t) PROVE SlotInv'
  BY <1>5 DEF new_file_failed, Return, world, history, SlotInv, Replaced,
      LogOpen, BusyInv, Busy
<1>6. ASSUME NEW t \in Threads, new_file_pos(t) PROVE SlotInv'
  BY <1>6 DEF new_file_pos, world, history, SlotInv, Replaced, LogOpen
<1>7. ASSUME NEW t \in Threads, new_file_unlock(t) PROVE SlotInv'
  BY <1>7 DEF new_file_unlock, Return, Goto, locals, world, history, SlotInv,
      Replaced, LogOpen
<1>8. CASE ForeignOpen
  BY <1>8, MinFree DEF ForeignOpen, shared, locals, history, SlotInv,
      Replaced, LogOpen
<1>9. ASSUME NEW d \in Fds, ForeignClose(d) PROVE SlotInv'
  BY <1>9 DEF ForeignClose, shared, locals, history, SlotInv, Replaced,
      LogOpen
<1> QED BY QuietSteps, <1>1, <1>2, <1>3, <1>4, <1>5, <1>6, <1>7, <1>8, <1>9 DEF Turn

(* The current slot, and the one about to be current, are not closed. *)
LEMMA SlotsOpen ==
  ASSUME TypeInv, BusyInv, SlotInv
  PROVE  /\ m_fd[cur] # -1 => m_fd[cur] \in LogOpen
         /\ (\E t \in Threads : pc[t] = "m_pos") /\ m_fd[1 - cur] # -1 => m_fd[1 - cur] \in LogOpen
<1>0. m_fd \in [0..1 -> Fds \union {-1}] /\ cur \in 0..1
  BY CurFacts DEF TypeInv
<1>1. ~Replaced(cur)
  BY <1>0 DEF BusyInv, Replacing, Replaced
<1>2. (\E t \in Threads : pc[t] = "m_pos") => ~Replaced(1 - cur)
  BY DEF BusyInv, Busy, Replaced
<1> QED BY <1>0, <1>1, <1>2 DEF SlotInv

LEMMA FileStep ==
  ASSUME TypeInv, BusyInv, SlotInv, FileInv, [Next]_vars
  PROVE  FileInv'
<1>0. /\ pc \in [Threads -> PCs] /\ next \in [Threads -> 0..1]
      /\ back \in [Threads -> {"idle", "check", "choose"}]
      /\ m_fd \in [0..1 -> Fds \union {-1}] /\ table \in [Fds -> Nat \union {NONE, FOREIGN}]
      /\ t0 \in [Threads -> Nat] /\ m_cur_filetime \in [0..1 -> Nat]
      /\ -1 \notin Fds /\ NONE \notin Nat /\ FOREIGN \notin Nat /\ NONE # FOREIGN
      /\ cur \in 0..1 /\ (m_pos + 1) % 2 = 1 - cur /\ (m_pos' = m_pos => cur' = cur)
  BY CurFacts, LogAssumption DEF TypeInv, cur, NONE, FOREIGN
<1> USE <1>0
<1>1. CASE Quiet
  BY <1>1 DEF Quiet, Busy, FileInv, FileAt
<1>2. ASSUME NEW t \in Threads, new_file_lock(t) PROVE FileInv'
  BY <1>2 DEF new_file_lock, world, history, FileInv, FileAt
<1>3. ASSUME NEW t \in Threads, new_file_close(t) PROVE FileInv'
  <2>1. next[t] = 1 - cur /\ (m_fd[1 - cur] # m_fd[cur] \/ m_fd[cur] = -1)
    BY <1>3 DEF new_file_close, BusyInv, Replacing, SlotInv
  <2>2. m_fd[cur] # -1 => table'[m_fd[cur]] = table[m_fd[cur]]
    BY <1>3, <2>1 DEF new_file_close
  <2>3. /\ UNCHANGED <<m_pos, t0, m_stratege_type, m_fd, m_cur_filetime>> /\ cur' = cur
        /\ \A u \in Threads : pc'[u] # "m_pos"
    BY <1>3 DEF new_file_close, Goto, locals, shared, history, BusyInv, Busy
  <2> QED BY <2>2, <2>3 DEF FileInv, FileAt
<1>4. ASSUME NEW t \in Threads, new_file_opened(t) PROVE FileInv'
  <2>1. next[t] = 1 - cur
    BY <1>4 DEF new_file_opened, BusyInv, Replacing
  <2>2. Min(Free) \in Fds /\ table[Min(Free)] = NONE /\ Min(Free) # -1
    BY <1>4, MinFree DEF new_file_opened
  <2>3. /\ m_fd'[cur] = m_fd[cur] /\ m_cur_filetime'[cur] = m_cur_filetime[cur]
        /\ m_fd'[1 - cur] = Min(Free) /\ m_cur_filetime'[1 - cur] = t0[t]
        /\ table'[Min(Free)] = m_cur_filename(t)
    BY <1>4, <2>1, <2>2 DEF new_file_opened
  <2>4. m_fd[cur] # -1 => table'[m_fd[cur]] = table[m_fd[cur]]
    BY <1>4, <2>2, SlotsOpen DEF new_file_opened, LogOpen
  <2>5. /\ UNCHANGED <<m_pos, t0, m_stratege_type>> /\ cur' = cur
        /\ \A u \in Threads : pc'[u] = "m_pos" => u = t
    BY <1>4 DEF new_file_opened, Goto, locals, BusyInv, Busy
  <2>6. FileAt(m_cur_filename(t), m_pos + 1, t0[t])
    BY FileName
  <2> QED BY <2>2, <2>3, <2>4, <2>5, <2>6 DEF FileInv, FileAt
<1>5. ASSUME NEW t \in Threads, new_file_failed(t) PROVE FileInv'
  BY <1>5 DEF new_file_failed, Return, world, history, FileInv, FileAt,
      BusyInv, Busy, Replacing
<1>6. ASSUME NEW t \in Threads, new_file_pos(t) PROVE FileInv'
  <2>1. cur' = 1 - cur /\ m_pos' = m_pos + 1
    BY <1>6, CurFacts DEF new_file_pos, cur, TypeInv
  <2>2. \A u \in Threads : pc'[u] # "m_pos"
    BY <1>6 DEF new_file_pos, BusyInv, Busy
  <2> QED BY <1>6, <2>1, <2>2 DEF new_file_pos, world, history, FileInv, FileAt
<1>7. ASSUME NEW t \in Threads, new_file_unlock(t) PROVE FileInv'
  BY <1>7 DEF new_file_unlock, Return, Goto, locals, world, history, FileInv,
      FileAt
<1>8. CASE ForeignOpen
  <2>1. \A e \in LogOpen : table'[e] = table[e]
    BY <1>8, MinFree DEF ForeignOpen, LogOpen
  <2>2. /\ UNCHANGED <<m_pos, t0, m_stratege_type, pc, m_fd, m_cur_filetime>> /\ cur' = cur
    BY <1>8 DEF ForeignOpen, shared, locals, history
  <2> QED BY <2>1, <2>2, SlotsOpen DEF FileInv, FileAt
<1>9. ASSUME NEW d \in Fds, ForeignClose(d) PROVE FileInv'
  <2>1. \A e \in LogOpen : table'[e] = table[e]
    BY <1>9 DEF ForeignClose, LogOpen
  <2>2. /\ UNCHANGED <<m_pos, t0, m_stratege_type, pc, m_fd, m_cur_filetime>> /\ cur' = cur
    BY <1>9 DEF ForeignClose, shared, locals, history
  <2> QED BY <2>1, <2>2, SlotsOpen DEF FileInv, FileAt
<1> QED BY QuietSteps, <1>1, <1>2, <1>3, <1>4, <1>5, <1>6, <1>7, <1>8, <1>9 DEF Turn

LEMMA WriteStep ==
  ASSUME TypeInv, BusyInv, WriteInv, [Next]_vars
  PROVE  WriteInv'
<1>0. /\ pc \in [Threads -> PCs] /\ m_fd \in [0..1 -> Fds \union {-1}]
      /\ moved \in [Threads -> 0..2] /\ fd \in [Threads -> Fds \union {-1}]
      /\ back \in [Threads -> {"idle", "check", "choose"}] /\ next \in [Threads -> 0..1]
      /\ cur \in 0..1 /\ (m_pos + 1) % 2 = 1 - cur /\ (m_pos' = m_pos => cur' = cur)
  BY CurFacts DEF TypeInv, cur
<1> USE <1>0
<1>1. CASE Quiet
  BY <1>1 DEF Quiet, WriteInv, Replacing, Busy
<1>2. ASSUME NEW t \in Threads, new_file_lock(t) PROVE WriteInv'
  BY <1>2 DEF new_file_lock, world, history, WriteInv, Replacing
<1>3. ASSUME NEW t \in Threads, new_file_close(t) PROVE WriteInv'
  BY <1>3 DEF new_file_close, Goto, locals, shared, history, WriteInv,
      Replacing
<1>4. ASSUME NEW t \in Threads, new_file_opened(t) PROVE WriteInv'
  BY <1>4 DEF new_file_opened, Goto, locals, history, WriteInv, Replacing,
      BusyInv, Busy
<1>5. ASSUME NEW t \in Threads, new_file_failed(t) PROVE WriteInv'
  BY <1>5 DEF new_file_failed, Return, world, history, WriteInv, Replacing,
      BusyInv, Busy
<1>6. ASSUME NEW t \in Threads, new_file_pos(t) PROVE WriteInv'
  <2>1. cur' = 1 - cur /\ m_fd' = m_fd /\ fd' = fd
    BY <1>6, CurFacts DEF new_file_pos, cur, TypeInv
  <2>2. \A u \in Threads : /\ pc'[u] = IF u = t THEN "m_busy" ELSE pc[u]
                           /\ pc'[u] \notin Replacing
                           /\ moved'[u] = IF pc[u] = "write" /\ moved[u] = 0 THEN 1 ELSE moved[u]
    BY <1>6 DEF new_file_pos, BusyInv, Busy, Replacing
  <2>3. pc[t] = "m_pos" /\ \A u \in Threads : pc[u] = "write" => moved[u] # 1
    BY <1>6 DEF new_file_pos, WriteInv, Replacing
  <2> QED BY <2>1, <2>2, <2>3 DEF WriteInv
<1>7. ASSUME NEW t \in Threads, new_file_unlock(t) PROVE WriteInv'
  BY <1>7 DEF new_file_unlock, Return, Goto, locals, world, history, WriteInv,
      Replacing
<1>8. CASE ForeignOpen
  BY <1>8 DEF ForeignOpen, shared, locals, history, WriteInv, Replacing
<1>9. ASSUME NEW d \in Fds, ForeignClose(d) PROVE WriteInv'
  BY <1>9 DEF ForeignClose, shared, locals, history, WriteInv, Replacing
<1> QED BY QuietSteps, <1>1, <1>2, <1>3, <1>4, <1>5, <1>6, <1>7, <1>8, <1>9 DEF Turn

(* A descriptor that is neither replaced twice nor -1 is open for the log. *)
LEMMA ChosenOpen ==
  ASSUME TypeInv, BusyInv, SlotInv, WriteInv,
         NEW t \in Threads, pc[t] = "write", fd[t] # -1, moved[t] < 2
  PROVE  fd[t] \in LogOpen
<1>0. /\ m_fd \in [0..1 -> Fds \union {-1}] /\ moved[t] \in 0..2 /\ fd[t] \in Fds
      /\ cur \in 0..1
  BY CurFacts DEF TypeInv
<1> USE <1>0
<1>1. CASE moved[t] = 0
  <2>1. fd[t] = m_fd[cur] /\ ~Replaced(cur)
    BY <1>1 DEF WriteInv, BusyInv, Replacing, Replaced
  <2> QED BY <2>1 DEF SlotInv
<1>2. CASE moved[t] = 1
  <2>1. fd[t] = m_fd[1 - cur] /\ ~Replaced(1 - cur)
    BY <1>2 DEF WriteInv, Replacing, Replaced
  <2> QED BY <2>1 DEF SlotInv
<1> QED BY <1>1, <1>2

LEMMA ReachStep ==
  ASSUME TypeInv, BusyInv, SlotInv, WriteInv, WritesReach, [Next]_vars
  PROVE  WritesReach'
<1>1. ASSUME NEW t \in Threads, prt_write(t) PROVE WritesReach'
  <2>1. fd[t] # -1 /\ moved[t] < 2 => table[fd[t]] \notin {NONE, FOREIGN}
    BY <1>1, ChosenOpen DEF prt_write, LogOpen
  <2> QED BY <1>1, <2>1 DEF prt_write, WritesReach
<1>2. ASSUME ~ \E t \in Threads : prt_write(t) PROVE astray' = astray
  BY <1>2 DEF Next, Thread, vars, history, init, prt, prt_test, prt_check, prt_choose, prt_add,
         new_file_cas, new_file_lock, new_file_retry, new_file_close, new_file_open,
         new_file_opened, new_file_failed, new_file_pos, new_file_unlock,
         HourPasses, ForeignOpen, ForeignClose
<1> QED BY <1>1, <1>2 DEF WritesReach

-----------------------------------------------------------------------------
LEMMA InitIInv == Init => IInv
<1> SUFFICES ASSUME Init PROVE IInv
  OBVIOUS
<1> USE DEF Init
<1>0. -1 \notin Fds
  BY LogAssumption
<1>01. cur = 1
  BY DEF cur
<1>1. TypeInv
  <2>1. "idle" \in PCs
    BY DEF PCs
  <2>2. /\ pc \in [Threads -> PCs] /\ ptime \in [Threads -> Nat]
        /\ len \in [Threads -> Lines \union {0}] /\ fd \in [Threads -> Fds \union {-1}]
        /\ next \in [Threads -> 0..1] /\ t0 \in [Threads -> Nat]
    BY <2>1
  <2>3. /\ back \in [Threads -> {"idle", "check", "choose"}]
        /\ moved \in [Threads -> 0..2] /\ overlap \in [Threads -> BOOLEAN]
    OBVIOUS
  <2>4. table \in [Fds -> Nat \union {NONE, FOREIGN}]
    OBVIOUS
  <2>5. m_fd \in [0..1 -> Fds \union {-1}]
    OBVIOUS
  <2>6. /\ m_cur_filetime \in [0..1 -> Nat] /\ m_cur_file_size \in [0..1 -> Nat]
        /\ since \in [0..1 -> Nat] /\ now \in Nat /\ m_busy \in {0, 1}
        /\ m_pos \in Int /\ m_pos >= -1
    OBVIOUS
  <2>7. inited \in BOOLEAN
    OBVIOUS
  <2> HIDE DEF Init
  <2> QED BY <2>2, <2>3, <2>4, <2>5, <2>6, <2>7 DEF TypeInv
<1>2. BusyInv
  BY DEF BusyInv, Busy, Replacing
<1>3. SlotInv
  BY <1>0 DEF SlotInv, Replaced, LogOpen
<1>4. FileInv
  BY <1>01 DEF FileInv
<1>5. WriteInv
  BY DEF WriteInv
<1> QED BY <1>1, <1>2, <1>3, <1>4, <1>5 DEF IInv, WritesReach

LEMMA AlwaysIInv == Spec => []IInv
<1>1. IInv /\ [Next]_vars => IInv'
  BY TypeStep, BusyStep, SlotStep, FileStep, WriteStep, ReachStep DEF IInv
<1> QED BY <1>1, InitIInv, PTL DEF Spec

(* Once the first file has been opened the current slot always holds an    *)
(* open descriptor of the file its time or its position calls for, however *)
(* the calls of prt and new_file interleave and whichever opens fail.      *)
THEOREM CurrentTheorem == Spec => []CurrentOpen
<1>1. IInv => CurrentOpen
  <2> SUFFICES ASSUME IInv, m_pos >= 0 PROVE CurrentOpen
    BY DEF CurrentOpen
  <2>1. /\ cur \in 0..1 /\ m_fd[cur] \in Fds /\ FileAt(table[m_fd[cur]], m_pos, m_cur_filetime[cur])
    BY CurFacts DEF IInv, TypeInv, FileInv
  <2>2. ~Replaced(cur)
    BY <2>1 DEF IInv, BusyInv, Replacing, Replaced
  <2>3. m_fd[cur] \in LogOpen
    BY <2>1, <2>2 DEF IInv, SlotInv
  <2> QED BY <2>1, <2>3 DEF CurrentOpen, FileAt
<1> QED BY <1>1, AlwaysIInv, PTL

(* m_busy is the number of threads inside new_file, and the descriptors    *)
(* the log has open are those of the slots that are not being replaced:    *)
(* none leaks, none is closed twice.                                       *)
THEOREM SlotsTheorem == Spec => []SlotsExact
<1>1. IInv => SlotsExact
  <2> SUFFICES ASSUME IInv PROVE SlotsExact
    OBVIOUS
  <2> DEFINE Inside == {t \in Threads : pc[t] \in {"close", "open", "m_pos", "m_busy"}}
             replaced == {next[t] : t \in {u \in Threads : pc[u] = "open"}}
  <2>1. Cardinality(Inside) = m_busy
    <3>1. CASE m_busy = 0
      <4>1. Inside = {}
        BY <3>1 DEF IInv, BusyInv, Busy
      <4> QED BY <3>1, <4>1, FS_EmptySet
    <3>2. CASE m_busy = 1
      <4>1. PICK t \in Threads : pc[t] \in Busy
        BY <3>2 DEF IInv, BusyInv
      <4>2. Inside = {t}
        BY <4>1 DEF IInv, BusyInv, Busy
      <4> QED BY <3>2, <4>2, FS_Singleton
    <3> QED BY <3>1, <3>2 DEF IInv, TypeInv
  <2>2. \A s : s \in replaced <=> Replaced(s)
    BY DEF Replaced
  <2>3. LogOpen \subseteq Fds /\ \A s \in 0..1 : m_fd[s] \in Fds \union {-1}
    BY DEF IInv, TypeInv, LogOpen
  <2>4. -1 \notin Fds
    BY LogAssumption
  <2>5. \A d : d \in LogOpen <=> d \in {m_fd[s] : s \in 0..1 \ replaced} \ {-1}
    BY <2>2, <2>3, <2>4 DEF IInv, SlotInv
  <2> QED BY <2>1, <2>5 DEF SlotsExact
<1> QED BY <1>1, AlwaysIInv, PTL

(* A line is written to a file of the log unless a second new_file has     *)
(* begun since its descriptor was chosen.                                  *)
THEOREM WritesTheorem == Spec => []WritesReach
<1>1. IInv => WritesReach
  BY DEF IInv
<1> QED BY <1>1, AlwaysIInv, PTL
=============================================================================
