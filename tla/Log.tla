-------------------------------- MODULE Log ---------------------------------
(***************************************************************************)
(* CLog of log/pure_log.cpp: the threads of the process print lines into a *)
(* file that new_file replaces by the hour, by the day or by size.  Two    *)
(* slots hold descriptors; the low bit of m_pos names the current one.     *)
(*                                                                         *)
(* The table of descriptors of the process is modelled, with the lowest    *)
(* free number taken by an open, and so are the opens of other parts of    *)
(* the process (file FOREIGN).  A file is the hour of its name by time,    *)
(* its index by size, 0 otherwise.  m_pos, a u32, starts at 2^32 - 1: it   *)
(* is -1 here, and does not come round again.                              *)
(***************************************************************************)
EXTENDS Integers, FiniteSets, FiniteSetsExt

CONSTANTS
  Threads, Main,                \* Main \in Threads calls init
  Strategies,                   \* subset of {"TIME", "SPACE", "CONST"}
  h_or_d,                       \* the argument of set_log_out_by_time
  m_amount_size, m_max_file_size, \* those of set_log_out_by_amount
  MAX_PARA_STR_LEN, Lines,      \* lengths: the reserve, and of the lines
  Levels, m_log_level, LOG_TERM,
  HoursPerDay,
  Fds,                          \* the descriptors 0..n
  MaxHour, MaxPos, MaxBytes     \* bounds

ASSUME LogAssumption ==
  /\ Main \in Threads /\ IsFiniteSet(Threads) /\ Fds \subseteq Nat
  /\ Lines \subseteq Nat \ {0} /\ \E m \in Lines : \A n \in Lines : n <= m
  /\ HoursPerDay \in Nat \ {0} /\ m_amount_size \in Nat \ {0}
  /\ m_max_file_size \in Nat /\ MAX_PARA_STR_LEN \in Nat /\ MaxBytes \in Nat

FOREIGN == -2
NONE == -1

VARIABLES
  m_stratege_type, m_fd, m_pos, m_busy, m_cur_filetime, m_cur_file_size,
  now,        \* the hour
  table,      \* descriptor -> file, NONE when it is closed
  since,      \* history: slot -> bytes written to its file while it was
              \* current, by threads that saw no other one creating a file
  inited,
  pc, ptime, len, fd,
  next, t0,   \* new_file: slot and time
  back,       \* where new_file returns to
  moved,      \* history, since fd was chosen: 1, m_pos has moved; 2, and
              \* another new_file has begun
  overlap,    \* history: another thread was creating a file at the check
  astray,     \* history: a write missed although its slot was not replaced
  misfiled    \* history: an entry is in a file of an earlier, other period

shared == <<m_stratege_type, m_fd, m_pos, m_busy, m_cur_filetime, m_cur_file_size>>
world == <<now, table, since>>
locals == <<ptime, len, fd, next, t0, back, moved, overlap>>
history == <<astray, misfiled>>
vars == <<shared, world, inited, pc, locals, history>>

(* set_log_out_by_time *)
m_time_stratege_type == IF h_or_d > 0 THEN "HOUR" ELSE "DAY"

tm_hour(h) == h % HoursPerDay
tm_mday(h) == h \div HoursPerDay

(* Mutant: the slot that new_file fills next is used. *)
cur_next == (m_pos + 1) % 2

cur == (m_pos + 2) % 2
(* Lengths are counted up to MaxBytes, and by size only: the other         *)
(* strategies do not look at them.                                         *)
Plus(a, b) ==
  IF m_stratege_type # "SPACE" THEN 0 ELSE IF a + b > MaxBytes THEN MaxBytes ELSE a + b

Free == {d \in Fds : table[d] = NONE}
LogOpen == {d \in Fds : table[d] \notin {NONE, FOREIGN}}

Init ==
  /\ m_stratege_type \in Strategies
  /\ m_fd = [s \in 0..1 |-> -1] /\ m_pos = -1 /\ m_busy = 0
  /\ m_cur_filetime = [s \in 0..1 |-> 0] /\ m_cur_file_size = [s \in 0..1 |-> 0]
  /\ now = 0 /\ table = [d \in Fds |-> NONE]
  /\ since = [s \in 0..1 |-> 0]
  /\ inited = FALSE /\ pc = [t \in Threads |-> "idle"]
  /\ ptime = [t \in Threads |-> 0] /\ len = [t \in Threads |-> 0]
  /\ fd = [t \in Threads |-> -1] /\ next = [t \in Threads |-> 0]
  /\ t0 = [t \in Threads |-> 0] /\ back = [t \in Threads |-> "idle"]
  /\ moved = [t \in Threads |-> 0] /\ overlap = [t \in Threads |-> FALSE]
  /\ astray = FALSE /\ misfiled = FALSE

(* The thread is back in its caller, its local variables are gone. *)
Return(t) ==
  /\ pc' = [pc EXCEPT ![t] = "idle"]
  /\ ptime' = [ptime EXCEPT ![t] = 0] /\ len' = [len EXCEPT ![t] = 0]
  /\ fd' = [fd EXCEPT ![t] = -1] /\ next' = [next EXCEPT ![t] = 0]
  /\ t0' = [t0 EXCEPT ![t] = 0] /\ back' = [back EXCEPT ![t] = "idle"]
  /\ moved' = [moved EXCEPT ![t] = 0] /\ overlap' = [overlap EXCEPT ![t] = FALSE]

(* The thread goes on at p. *)
Goto(t, p) == pc' = [pc EXCEPT ![t] = p] /\ UNCHANGED locals

(* The thread calls new_file, to go on at p. *)
Call(t, p) ==
  /\ pc' = [pc EXCEPT ![t] = "new_file"] /\ back' = [back EXCEPT ![t] = p]
  /\ UNCHANGED <<ptime, len, fd, next, t0, moved, overlap>>

-----------------------------------------------------------------------------
(* new_file *)

(* Mutant: the current slot is replaced. *)
new_file_lock_same(t) ==
  /\ pc[t] = "new_file" /\ m_busy = 0 /\ m_busy' = 1
  /\ pc' = [pc EXCEPT ![t] = "close"]
  /\ next' = [next EXCEPT ![t] = cur] /\ t0' = [t0 EXCEPT ![t] = now]
  /\ UNCHANGED <<m_stratege_type, m_fd, m_pos, m_cur_filetime, m_cur_file_size,
                 world, inited, ptime, len, fd, back, moved, overlap, history>>

(* CAS on m_busy, next slot and time. *)
new_file_lock(t) ==
  /\ pc[t] = "new_file" /\ m_busy = 0 /\ m_busy' = 1
  /\ pc' = [pc EXCEPT ![t] = "close"]
  /\ next' = [next EXCEPT ![t] = (m_pos + 1) % 2]
  /\ t0' = [t0 EXCEPT ![t] = now]
  /\ moved' = [u \in Threads |-> IF moved[u] = 1 THEN 2 ELSE moved[u]]
  /\ UNCHANGED <<m_stratege_type, m_fd, m_pos, m_cur_filetime, m_cur_file_size,
                 world, inited, ptime, len, fd, back, overlap, history>>

(* When another thread is creating the file, RETRY goes on in the caller   *)
(* like success.                                                           *)
new_file_retry(t) ==
  /\ pc[t] = "new_file" /\ m_busy = 1
  /\ pc' = [pc EXCEPT ![t] = back[t]]
  /\ overlap' = [overlap EXCEPT ![t] = TRUE]
  /\ UNCHANGED <<shared, world, inited, ptime, len, fd, next, t0, back, moved, history>>

new_file_cas(t) == new_file_lock(t) \/ new_file_retry(t)

new_file_close(t) ==
  /\ pc[t] = "close" /\ Goto(t, "open")
  /\ table' = IF m_fd[next[t]] = -1 THEN table
              ELSE [table EXCEPT ![m_fd[next[t]]] = NONE]
  /\ UNCHANGED <<shared, now, since, inited, history>>

(* The name of the file. *)
m_cur_filename(t) ==
  CASE m_stratege_type = "TIME" -> t0[t]
    [] m_stratege_type = "SPACE" -> ((m_pos + 1) % m_amount_size) + 1
    [] OTHER -> 0

(* open with O_APPEND, then time and size of the slot. *)
new_file_opened(t) ==
  /\ pc[t] = "open" /\ Goto(t, "m_pos")
  /\ Free # {} /\ m_fd' = [m_fd EXCEPT ![next[t]] = Min(Free)]
  /\ table' = [table EXCEPT ![Min(Free)] = m_cur_filename(t)]
  /\ m_cur_filetime' = [m_cur_filetime EXCEPT ![next[t]] = t0[t]]
  /\ m_cur_file_size' = [m_cur_file_size EXCEPT ![next[t]] = 0]
  /\ since' = [since EXCEPT ![next[t]] = 0]
  /\ UNCHANGED <<m_stratege_type, m_pos, m_busy, now, inited, history>>

(* Mutant: m_fd is left alone. *)
new_file_failed_keep(t) ==
  /\ pc[t] = "open" /\ Return(t) /\ m_busy' = 0
  /\ UNCHANGED <<m_stratege_type, m_fd, m_pos, m_cur_filetime, m_cur_file_size, world,
                 inited, history>>

(* open fails. *)
new_file_failed(t) ==
  /\ pc[t] = "open" /\ Return(t)
  /\ m_fd' = [m_fd EXCEPT ![next[t]] = -1] /\ m_busy' = 0
  /\ UNCHANGED <<m_stratege_type, m_pos, m_cur_filetime, m_cur_file_size, world,
                 inited, history>>

new_file_open(t) == new_file_opened(t) \/ new_file_failed(t)

new_file_pos(t) ==
  /\ pc[t] = "m_pos" /\ m_pos < MaxPos
  /\ m_pos' = m_pos + 1
  /\ moved' = [u \in Threads |-> IF pc[u] = "write" /\ moved[u] = 0 THEN 1 ELSE moved[u]]
  /\ pc' = [pc EXCEPT ![t] = "m_busy"]
  /\ UNCHANGED <<m_stratege_type, m_fd, m_busy, m_cur_filetime, m_cur_file_size,
                 world, inited, ptime, len, fd, next, t0, back, overlap, history>>

new_file_unlock(t) ==
  /\ pc[t] = "m_busy" /\ m_busy' = 0
  /\ IF back[t] = "idle" THEN Return(t) ELSE Goto(t, back[t])
  /\ UNCHANGED <<m_stratege_type, m_fd, m_pos, m_cur_filetime, m_cur_file_size,
                 world, inited, history>>

-----------------------------------------------------------------------------
(* init, called once before the threads are started. *)
init(t) ==
  /\ t = Main /\ ~inited /\ inited' = TRUE
  /\ Call(t, "idle")
  /\ UNCHANGED <<shared, world, history>>

InInit ==
  pc[Main] \in {"new_file", "close", "open", "m_pos", "m_busy"} /\ back[Main] = "idle"

(* prt of a line of level lvl: a higher level than the log's is left out,  *)
(* LOG_TERM goes to the terminal.                                          *)
prt(t, lvl, n) ==
  /\ inited /\ ~InInit /\ pc[t] = "idle"
  /\ lvl <= m_log_level /\ lvl # LOG_TERM
  /\ pc' = [pc EXCEPT ![t] = "test"]
  /\ ptime' = [ptime EXCEPT ![t] = now] /\ len' = [len EXCEPT ![t] = n]
  /\ UNCHANGED <<shared, world, inited, fd, next, t0, back, moved, overlap, history>>

(* A file is opened when the current slot has none. *)
prt_test(t) ==
  /\ pc[t] = "test"
  /\ IF m_fd[cur] = -1 THEN Call(t, "check") ELSE Goto(t, "check")
  /\ UNCHANGED <<shared, world, inited, history>>

(* Mutant: the file is only replaced when the day changes. *)
Full_day(t) ==
  CASE m_stratege_type = "TIME" -> tm_mday(m_cur_filetime[cur]) # tm_mday(ptime[t])
    [] m_stratege_type = "SPACE" ->
         m_cur_file_size[cur] >= m_max_file_size - MAX_PARA_STR_LEN
    [] OTHER -> FALSE

(* Mutant: nothing is kept in reserve for the line. *)
Full_late(t) ==
  CASE m_stratege_type = "SPACE" -> m_cur_file_size[cur] >= m_max_file_size
    [] OTHER -> FALSE

(* The current file is to be replaced. *)
Full(t) ==
  CASE m_stratege_type = "TIME" ->
         IF m_time_stratege_type = "HOUR"
         THEN tm_hour(m_cur_filetime[cur]) # tm_hour(ptime[t])
         ELSE tm_mday(m_cur_filetime[cur]) # tm_mday(ptime[t])
    [] m_stratege_type = "SPACE" ->
         m_cur_file_size[cur] >= m_max_file_size - MAX_PARA_STR_LEN
    [] OTHER -> FALSE

prt_check(t) ==
  /\ pc[t] = "check"
  /\ overlap' = [overlap EXCEPT ![t] = @ \/ m_busy = 1]
  /\ pc' = [pc EXCEPT ![t] = IF Full(t) THEN "new_file" ELSE "choose"]
  /\ back' = [back EXCEPT ![t] = "choose"]
  /\ UNCHANGED <<shared, world, inited, ptime, len, fd, next, t0, moved, history>>

(* The descriptor that write is called with. *)
prt_choose(t) ==
  /\ pc[t] = "choose"
  /\ pc' = [pc EXCEPT ![t] = "write"] /\ fd' = [fd EXCEPT ![t] = m_fd[cur]]
  /\ UNCHANGED <<shared, world, inited, ptime, len, next, t0, back, moved, overlap,
                 history>>

(* No file that is an earlier one, for another period, than the line's. *)
Misfiles(t, f) ==
  /\ m_stratege_type = "TIME" /\ ~overlap[t] /\ f < ptime[t]
  /\ IF m_time_stratege_type = "HOUR" THEN tm_hour(f) # tm_hour(ptime[t])
                                      ELSE tm_mday(f) # tm_mday(ptime[t])

(* write: to the file the descriptor now stands for, or EBADF. *)
prt_write(t) ==
  /\ pc[t] = "write"
  /\ LET f == IF fd[t] = -1 THEN NONE ELSE table[fd[t]] IN
     /\ IF f \in {NONE, FOREIGN}
        THEN /\ astray' = (astray \/ (fd[t] # -1 /\ moved[t] < 2))
             /\ UNCHANGED <<since, misfiled>>
        ELSE /\ since' = [s \in 0..1 |-> IF m_fd[s] = fd[t] /\ ~overlap[t] /\ moved[t] = 0
                                         THEN Plus(since[s], len[t]) ELSE since[s]]
             /\ misfiled' = (misfiled \/ Misfiles(t, f))
             /\ UNCHANGED astray
     /\ IF f = NONE THEN Return(t) ELSE Goto(t, "add")
  /\ UNCHANGED <<shared, now, table, inited>>

(* ATOMIC_FADD on the size of what is now the current slot. *)
prt_add(t) ==
  /\ pc[t] = "add" /\ Return(t)
  /\ m_cur_file_size' = [m_cur_file_size EXCEPT ![cur] = Plus(@, len[t])]
  /\ UNCHANGED <<m_stratege_type, m_fd, m_pos, m_busy, m_cur_filetime, world, inited, history>>

-----------------------------------------------------------------------------
(* Time passes where a strategy looks at it. *)
HourPasses ==
  /\ inited /\ m_stratege_type = "TIME" /\ now < MaxHour /\ now' = now + 1
  /\ UNCHANGED <<shared, table, since, inited, pc, locals, history>>

(* Other parts of the process open and close descriptors. *)
ForeignOpen ==
  /\ Free # {} /\ table' = [table EXCEPT ![Min(Free)] = FOREIGN]
  /\ UNCHANGED <<shared, now, since, inited, pc, locals, history>>

ForeignClose(d) ==
  /\ table[d] = FOREIGN /\ table' = [table EXCEPT ![d] = NONE]
  /\ UNCHANGED <<shared, now, since, inited, pc, locals, history>>

Thread(t) ==
  \/ init(t) \/ \E lvl \in Levels, n \in Lines : prt(t, lvl, n)
  \/ prt_test(t) \/ prt_check(t) \/ prt_choose(t) \/ prt_write(t) \/ prt_add(t)
  \/ new_file_cas(t) \/ new_file_close(t) \/ new_file_open(t)
  \/ new_file_pos(t) \/ new_file_unlock(t)

Next == \/ \E t \in Threads : Thread(t)
        \/ HourPasses \/ ForeignOpen \/ \E d \in Fds : ForeignClose(d)

Spec == Init /\ [][Next]_vars

-----------------------------------------------------------------------------
(* From the moment the first file has been opened the current slot holds   *)
(* an open descriptor of the file made for it (its hour by time, its index *)
(* by size), also while new_file closes, opens or fails to open.           *)
CurrentOpen ==
  m_pos >= 0 =>
    /\ m_fd[cur] \in LogOpen
    /\ CASE m_stratege_type = "TIME" -> table[m_fd[cur]] = m_cur_filetime[cur]
         [] m_stratege_type = "SPACE" -> table[m_fd[cur]] = (m_pos % m_amount_size) + 1
         [] OTHER -> table[m_fd[cur]] = 0

(* One thread at a time replaces a slot, and the open descriptors of the   *)
(* log are those in the other slots: new_file, whether its open fails or   *)
(* not, never leaks one and never closes one that belongs to another part. *)
SlotsExact ==
  LET replaced == {next[t] : t \in {u \in Threads : pc[u] = "open"}} IN
  /\ Cardinality({t \in Threads : pc[t] \in {"close", "open", "m_pos", "m_busy"}}) = m_busy
  /\ LogOpen = {m_fd[s] : s \in 0..1 \ replaced} \ {-1}

(* A line goes to a file of the log, however slow its writer, unless the   *)
(* second new_file since its descriptor was chosen has begun: that one     *)
(* closes the slot of the writer.                                          *)
WritesReach == ~astray

(* By the hour (or the day): a line is never in the file of an earlier,    *)
(* different hour of the day, unless another thread was creating a file    *)
(* when the hour was compared or when new_file was called (RETRY).         *)
FileOfPeriod == ~misfiled

(* By size: between its opening and its replacement a file gets no more    *)
(* than the maximum, less the reserve and one, and a line of every thread, *)
(* which may all have passed the check before one of them adds its length; *)
(* but for the lines of threads that found another one creating a file     *)
(* (RETRY), which go on into the full file, and of those that wrote when   *)
(* the file they had chosen was no longer current.                         *)
RoundBounded ==
  m_stratege_type = "SPACE" =>
    \A s \in 0..1 : since[s] <= m_max_file_size - MAX_PARA_STR_LEN - 1
                                 + Cardinality(Threads) * Max(Lines)
=============================================================================
