---------------------------- MODULE ProcessManager ----------------------------
(***************************************************************************)
(* The recording server: class ProcessManager (src/src/app) driven by the  *)
(* HTTP callbacks of CRecordCtl, on top of MongoDB and of the kernel's     *)
(* process table.                                                          *)
(*                                                                         *)
(* One server process runs three threads: the libevent loop ("http"), the  *)
(* start queue's consumer ("queue") and the orphan monitor ("monitor").    *)
(* The SIGCHLD handler runs on top of any of them, so every thread has a   *)
(* "main" frame and a "sig" frame and the main frame is suspended while    *)
(* the sig frame is active.  Every MongoDB call, fork, waitpid and kill is *)
(* a step of its own.                                                      *)
(*                                                                         *)
(* Recorder pids are not reused within a behaviour.  A definition marked   *)
(* "Mutant" is a plausible slip in the operation that follows it; no       *)
(* specification uses it, the runs must tell it from the operation.        *)
(***************************************************************************)
EXTENDS Naturals, Sequences, FiniteSets

CONSTANTS
    Streams,     \* stream ids, _process_info.sid
    Pids,        \* process ids the kernel gives to recorders
    ServerPids,  \* process ids the kernel gives to server processes
    None,        \* no stream, no recorder, no server
    Faults,      \* what the environment may refuse, a subset of FaultKinds
    Budget       \* how often each environment event may happen

FaultKinds == {"dbread", "dbwrite", "fork", "m3u8", "race"}
Events == {"start", "stop", "exit", "crash"}

ASSUME ConstantsAssumption ==
    /\ None \notin Streams \cup Pids \cup ServerPids
    /\ Faults \subseteq FaultKinds
    /\ Budget \in [Events -> Nat]

VARIABLES
    self,     \* getpid() of the running server, None while it is down
    sigchld,  \* SIGCHLD is pending for the server process
    os,       \* what the kernel knows of each recorder pid
    rec,      \* the stream each recorder was forked for
    intr,     \* recorders that stop_record has sent SIGINT to
    db,       \* collection rec_distribute.process_info
    q,        \* ProcessManager::_q
    pc,       \* where each frame is
    cur,      \* the _process_info each frame works on
    todo,     \* pids left in orphan_process_sync's vector
    lapsed,   \* history: <<what, stream>> for every fault and lost race
    left      \* environment events still allowed

vars == <<self, sigchld, os, rec, intr, db, q, pc, cur, todo, lapsed, left>>

Threads == {"http", "queue", "monitor"}
Frames == Threads \X {"main", "sig"}
Http == <<"http", "main">>
Queue == <<"queue", "main">>
Monitor == <<"monitor", "main">>
Sig(t) == <<t, "sig">>

Record(s, p, pp) == [sid |-> s, pid |-> p, ppid |-> pp]
Records == [sid : Streams, pid : Pids, ppid : ServerPids]
OsStates == {"unused", "run", "orphan", "zombie", "gone"}
PCs == {"idle", "remove", "kill", "spawn", "insert", "pop",
        "check", "wait", "look", "fork", "update"}
LapseKinds == {"misread", "stale", "write", "early", "nofork", "cut", "samepid", "dropped"}

(* The _process_info of a frame; "was" is history: the pid that the frame  *)
(* read from the database.                                                 *)
Job(s, p, was) == [sid |-> s, pid |-> p, was |-> was]
Jobs == [sid : Streams \cup {None}, pid : Pids \cup {None}, was : Pids \cup {None}]
Blank == Job(None, None, None)

(* A frame's next step may happen: the server is up and no handler is on   *)
(* top of the frame.                                                       *)
At(f, label) ==
    /\ self # None
    /\ pc[f] = label
    /\ f[2] = "main" => pc[Sig(f[1])] = "idle"

Goto(f, label) == pc' = [pc EXCEPT ![f] = label]
Spend(e) == left[e] > 0 /\ left' = [left EXCEPT ![e] = @ - 1]
Lapse(S) == lapsed' = lapsed \cup S
If(b, what, s) == IF b THEN {<<what, s>>} ELSE {}

-----------------------------------------------------------------------------
(* The kernel *)

Live(p) == os[p] \in {"run", "orphan"}

(* Mutant: a check that only sees the server's own children. *)
own_child_exist(p) == os[p] \in {"run", "zombie"}

(* kill(pid, 0) == 0: also true of a zombie. *)
check_system_process_exist(p) == Live(p) \/ os[p] = "zombie"

(* fork() returning pid p in the parent; the child execs ffmpeg for s. *)
Forked(p, s) ==
    /\ os[p] = "unused"
    /\ os' = [os EXCEPT ![p] = "run"]
    /\ rec' = [rec EXCEPT ![p] = s]

NoPidLeft == \A p \in Pids : os[p] # "unused"

-----------------------------------------------------------------------------
(* MongoDB *)

BySid(s) == {r \in db : r.sid = s}
ByPid(p) == {r \in db : r.pid = p}

(* findOne finds nothing: no match, or a cursor that failed, which the     *)
(* code does not tell apart.                                               *)
findOne_fails(S) == S = {} \/ "dbread" \in Faults

(* A single-document update or remove hits one match, if there is one. *)
One(S) == IF S = {} THEN {{}} ELSE {{r} : r \in S}

-----------------------------------------------------------------------------
(* Pushed under _mutex, never refused. *)
put_data(s) == q' = Append(q, s)

(* CRecordCtl::start_record of a well-formed request: the reply is always  *)
(* SUCCESS.  A malformed one is answered 400 and changes nothing.          *)
start_record(s) ==
    /\ At(Http, "idle")
    /\ Spend("start")
    /\ put_data(s)
    /\ UNCHANGED <<self, sigchld, os, rec, intr, db, pc, cur, todo, lapsed>>

(* Mutant: the signal is sent before the record is removed. *)
get_process_info_kill_first(s) ==
    /\ At(Http, "idle")
    /\ Spend("stop")
    /\ \/ \E r \in BySid(s) :
            /\ intr' = IF Live(r.pid) THEN intr \cup {r.pid} ELSE intr
            /\ cur' = [cur EXCEPT ![Http] = Job(s, r.pid, r.pid)]
            /\ Goto(Http, "remove")
       \/ /\ BySid(s) = {}
          /\ UNCHANGED <<pc, cur, intr>>
    /\ UNCHANGED <<self, sigchld, os, rec, db, q, todo, lapsed>>

(* kill_process -> get_process_info; without a record the reply is 404. *)
get_process_info(s) ==
    /\ At(Http, "idle")
    /\ Spend("stop")
    /\ \/ \E r \in BySid(s) :
            /\ cur' = [cur EXCEPT ![Http] = Job(s, r.pid, r.pid)]
            /\ Goto(Http, "remove")
       \/ /\ findOne_fails(BySid(s))
          /\ UNCHANGED <<pc, cur>>
    /\ UNCHANGED <<self, sigchld, os, rec, intr, db, q, todo, lapsed>>

(* CRecordCtl::stop_record of a well-formed request: kill_process, one     *)
(* step for each database call and one for the signal.                     *)
stop_record(s) == get_process_info(s)

(* kill_process -> remove_process_by_stream; its result is ignored. *)
remove_process_by_stream ==
    LET s == cur[Http].sid IN
    /\ At(Http, "remove")
    /\ Goto(Http, "kill")
    /\ \/ \E R \in One(BySid(s)) :
            /\ db' = db \ R
            /\ Lapse(If(\E r \in R : r.pid # cur[Http].was, "stale", s))
       \/ /\ "dbwrite" \in Faults
          /\ Lapse({<<"write", s>>})
          /\ UNCHANGED db
    /\ UNCHANGED <<self, sigchld, os, rec, intr, q, cur, todo, left>>

(* Mutant: the record goes, the recorder stays. *)
kill_process_no_signal ==
    /\ At(Http, "kill")
    /\ cur' = [cur EXCEPT ![Http] = Blank]
    /\ Goto(Http, "idle")
    /\ UNCHANGED <<self, sigchld, os, rec, intr, db, q, todo, lapsed, left>>

(* kill_process -> kill(pid, SIGINT). *)
kill_process ==
    LET p == cur[Http].pid IN
    /\ At(Http, "kill")
    /\ intr' = IF Live(p) THEN intr \cup {p} ELSE intr
    /\ cur' = [cur EXCEPT ![Http] = Blank]
    /\ Goto(Http, "idle")
    /\ UNCHANGED <<self, sigchld, os, rec, db, q, todo, lapsed, left>>

-----------------------------------------------------------------------------
(* Mutant: spawn_process without its is_process_exist(sid). *)
process_queue_unchecked ==
    /\ At(Queue, "idle")
    /\ q # <<>>
    /\ cur' = [cur EXCEPT ![Queue] = Job(Head(q), None, None)]
    /\ Goto(Queue, "spawn")
    /\ UNCHANGED <<self, sigchld, os, rec, intr, db, q, todo, lapsed, left>>

(* process_queue: the front element is copied and stays in _q until the    *)
(* spawn is over; spawn_process starts with is_process_exist(sid), which   *)
(* takes a failed query for "not there".                                   *)
process_queue ==
    LET s == Head(q) IN
    /\ At(Queue, "idle")
    /\ q # <<>>
    /\ cur' = [cur EXCEPT ![Queue] = Job(s, None, None)]
    /\ \/ /\ BySid(s) # {}
          /\ Goto(Queue, "pop")
          /\ UNCHANGED lapsed
       \/ /\ findOne_fails(BySid(s))
          /\ Goto(Queue, "spawn")
          /\ Lapse(If(BySid(s) # {}, "misread", s))
    /\ UNCHANGED <<self, sigchld, os, rec, intr, db, q, todo, left>>

(* The playlist cannot be created. *)
create_m3u8_fails == "m3u8" \in Faults

(* fork() returns -1. *)
fork_fails == "fork" \in Faults \/ NoPidLeft

(* spawn_process: create_m3u8, then fork. *)
spawn_process ==
    LET s == cur[Queue].sid IN
    /\ At(Queue, "spawn")
    /\ \/ \E p \in Pids :
            /\ Forked(p, s)
            /\ cur' = [cur EXCEPT ![Queue] = Job(s, p, None)]
            /\ Goto(Queue, "insert")
            /\ UNCHANGED lapsed
       \/ /\ create_m3u8_fails \/ fork_fails
          /\ Goto(Queue, "pop")
          /\ Lapse({<<"nofork", s>>})
          /\ UNCHANGED <<os, rec, cur>>
    /\ UNCHANGED <<self, sigchld, intr, db, q, todo, left>>

(* The record written for p comes too late: p was reaped and its reaper    *)
(* has already looked for the record.                                      *)
TooLate(p) ==
    /\ os[p] = "gone"
    /\ \A f \in Frames : ~(pc[f] = "look" /\ cur[f].pid = p)

(* spawn_process -> add_process_to_cache; its result is ignored. *)
add_process_to_cache ==
    LET s == cur[Queue].sid
        p == cur[Queue].pid
    IN
    /\ At(Queue, "insert")
    /\ Goto(Queue, "pop")
    /\ \/ /\ db' = db \cup {Record(s, p, self)}
          /\ Lapse(If(TooLate(p), "early", s))
       \/ /\ "dbwrite" \in Faults
          /\ Lapse({<<"write", s>>})
          /\ UNCHANGED db
    /\ UNCHANGED <<self, sigchld, os, rec, intr, q, cur, todo, left>>

(* Mutant: the queue is emptied instead of popped. *)
queue_clear ==
    /\ At(Queue, "pop")
    /\ cur' = [cur EXCEPT ![Queue] = Blank]
    /\ Goto(Queue, "idle")
    /\ q' = <<>>
    /\ UNCHANGED <<self, sigchld, os, rec, intr, db, todo, lapsed, left>>

(* process_queue -> queue->pop(), without _mutex.  When a push moves the   *)
(* deque's map meanwhile, the torn front iterator skips elements ("race")  *)
(* or points into freed memory (crash).                                    *)
queue_pop ==
    /\ At(Queue, "pop")
    /\ cur' = [cur EXCEPT ![Queue] = Blank]
    /\ Goto(Queue, "idle")
    /\ \/ q' = Tail(q) /\ UNCHANGED lapsed
       \/ /\ "race" \in Faults /\ Len(q) > 1
          /\ q' = <<>>
          /\ Lapse({<<"dropped", q[i]>> : i \in 2 .. Len(q)})
    /\ UNCHANGED <<self, sigchld, os, rec, intr, db, todo, left>>

-----------------------------------------------------------------------------
(* The kernel runs the SIGCHLD handler on some thread not already in it. *)
sig_deliver(t) ==
    /\ At(Sig(t), "idle")
    /\ sigchld
    /\ sigchld' = FALSE
    /\ Goto(Sig(t), "wait")
    /\ UNCHANGED <<self, os, rec, intr, db, q, cur, todo, lapsed, left>>

(* Mutant: all children are reaped, the notice is sent for the last one. *)
sig_reap_chld_last(t) ==
    /\ At(Sig(t), "wait")
    /\ \/ \E p \in Pids :
            /\ os[p] = "zombie"
            /\ os' = [x \in Pids |-> IF os[x] = "zombie" THEN "gone" ELSE os[x]]
            /\ cur' = [cur EXCEPT ![Sig(t)] = Job(None, p, None)]
            /\ Goto(Sig(t), "look")
       \/ /\ \A p \in Pids : os[p] # "zombie"
          /\ cur' = [cur EXCEPT ![Sig(t)] = Blank]
          /\ Goto(Sig(t), "idle")
          /\ UNCHANGED os
    /\ UNCHANGED <<self, sigchld, rec, intr, db, q, todo, lapsed, left>>

(* sig_reap_chld: waitpid(-1, WNOHANG) until no zombie is left. *)
sig_reap_chld(t) ==
    /\ At(Sig(t), "wait")
    /\ \/ \E p \in Pids :
            /\ os[p] = "zombie"
            /\ os' = [os EXCEPT ![p] = "gone"]
            /\ cur' = [cur EXCEPT ![Sig(t)] = Job(None, p, None)]
            /\ Goto(Sig(t), "look")
       \/ /\ \A p \in Pids : os[p] # "zombie"
          /\ cur' = [cur EXCEPT ![Sig(t)] = Blank]
          /\ Goto(Sig(t), "idle")
          /\ UNCHANGED os
    /\ UNCHANGED <<self, sigchld, rec, intr, db, q, todo, lapsed, left>>

(* Mutant: the handler calls waitpid once for each signal. *)
Resume_once(f) == IF f = Monitor THEN "check" ELSE "idle"

(* Where the caller of process_reload continues. *)
Resume(f) == IF f = Monitor THEN "check" ELSE "wait"

(* is_process_exist(pid, info), from send_message and orphan_process_sync. *)
is_process_exist(f) ==
    LET p == cur[f].pid IN
    /\ At(f, "look")
    /\ \/ \E r \in ByPid(p) :
            /\ cur' = [cur EXCEPT ![f] = Job(r.sid, p, p)]
            /\ Goto(f, "fork")
            /\ UNCHANGED lapsed
       \/ /\ findOne_fails(ByPid(p))
          /\ cur' = [cur EXCEPT ![f] = Blank]
          /\ Goto(f, Resume(f))
          /\ Lapse({<<"misread", r.sid>> : r \in ByPid(p)})
    /\ UNCHANGED <<self, sigchld, os, rec, intr, db, q, todo, left>>

(* Mutant: update_process_info is not called. *)
re_create_process_no_update(f) ==
    /\ At(f, "fork")
    /\ \E p \in Pids : Forked(p, cur[f].sid)
    /\ cur' = [cur EXCEPT ![f] = Blank]
    /\ Goto(f, Resume(f))
    /\ UNCHANGED <<self, sigchld, intr, db, q, todo, lapsed, left>>

(* process_reload -> re_create_process: fork. *)
re_create_process(f) ==
    LET s == cur[f].sid IN
    /\ At(f, "fork")
    /\ \/ \E p \in Pids :
            /\ Forked(p, s)
            /\ cur' = [cur EXCEPT ![f] = Job(s, p, cur[f].was)]
            /\ Goto(f, "update")
            /\ UNCHANGED lapsed
       \/ /\ fork_fails
          /\ cur' = [cur EXCEPT ![f] = Blank]
          /\ Goto(f, Resume(f))
          /\ Lapse({<<"nofork", s>>})
          /\ UNCHANGED <<os, rec>>
    /\ UNCHANGED <<self, sigchld, intr, db, q, todo, left>>

(* Mutant: the update's query names no stream. *)
update_process_info_any(f) ==
    /\ At(f, "update")
    /\ cur' = [cur EXCEPT ![f] = Blank]
    /\ Goto(f, Resume(f))
    /\ \E R \in One(db) :
            /\ db' = (db \ R) \cup {Record(r.sid, cur[f].pid, r.ppid) : r \in R}
            /\ Lapse(If(\A r \in R : r.pid # cur[f].was, "stale", cur[f].sid))
    /\ UNCHANGED <<self, sigchld, os, rec, intr, q, todo, left>>

(* re_create_process -> update_process_info: $set pid by stream_id, no     *)
(* upsert, ppid left as it was; its result is ignored.                     *)
update_process_info(f) ==
    LET s == cur[f].sid
        p == cur[f].pid
    IN
    /\ At(f, "update")
    /\ cur' = [cur EXCEPT ![f] = Blank]
    /\ Goto(f, Resume(f))
    /\ \/ \E R \in One(BySid(s)) :
            /\ db' = (db \ R) \cup {Record(s, p, r.ppid) : r \in R}
            /\ Lapse(If(\A r \in R : r.pid # cur[f].was, "stale", s)
                     \cup If(TooLate(p), "early", s))
       \/ /\ "dbwrite" \in Faults
          /\ Lapse({<<"write", s>>})
          /\ UNCHANGED db
    /\ UNCHANGED <<self, sigchld, os, rec, intr, q, todo, left>>

-----------------------------------------------------------------------------
(* Mutant: the query asks for the server's own records. *)
find_own_process ==
    /\ At(Monitor, "idle")
    /\ todo' = {r.pid : r \in {r \in db : r.ppid = self}}
    /\ Goto(Monitor, "check")
    /\ UNCHANGED <<self, sigchld, os, rec, intr, db, q, cur, lapsed, left>>

(* Mutant: the parser puts "ppid" where "pid" belongs. *)
find_orphan_parent ==
    /\ At(Monitor, "idle")
    /\ todo' = {r.ppid : r \in {r \in db : r.ppid # self}}
    /\ Goto(Monitor, "check")
    /\ UNCHANGED <<self, sigchld, os, rec, intr, db, q, cur, lapsed, left>>

(* monitor -> find_orphan_process; a failed query yields no record. *)
find_orphan_process ==
    /\ At(Monitor, "idle")
    /\ \/ todo' = {r.pid : r \in {r \in db : r.ppid # self}}
       \/ "dbread" \in Faults /\ todo' = {}
    /\ Goto(Monitor, "check")
    /\ UNCHANGED <<self, sigchld, os, rec, intr, db, q, cur, lapsed, left>>

(* orphan_process_sync: one round of its loop, or its end and sleep(5). *)
orphan_process_sync ==
    /\ At(Monitor, "check")
    /\ \/ \E p \in todo :
            /\ todo' = todo \ {p}
            /\ \/ check_system_process_exist(p) /\ UNCHANGED <<pc, cur>>
               \/ /\ ~check_system_process_exist(p)
                  /\ cur' = [cur EXCEPT ![Monitor] = Job(None, p, None)]
                  /\ Goto(Monitor, "look")
       \/ /\ todo = {}
          /\ Goto(Monitor, "idle")
          /\ UNCHANGED <<cur, todo>>
    /\ UNCHANGED <<self, sigchld, os, rec, intr, db, q, lapsed, left>>

-----------------------------------------------------------------------------
(* A recorder ends: by itself, or on the SIGINT it was sent.  init reaps   *)
(* the recorders a dead server has left.                                   *)
recorder_exit(p) ==
    /\ Live(p)
    /\ IF p \in intr THEN UNCHANGED left ELSE Spend("exit")
    /\ os' = [os EXCEPT ![p] = IF @ = "run" THEN "zombie" ELSE "gone"]
    /\ sigchld' = (sigchld \/ os[p] = "run")
    /\ UNCHANGED <<self, rec, intr, db, q, pc, cur, todo, lapsed>>

(* The server process dies, with its queue and every frame. *)
crash ==
    /\ self # None
    /\ Spend("crash")
    /\ self' = None
    /\ sigchld' = FALSE
    /\ os' = [p \in Pids |-> IF os[p] = "run" THEN "orphan"
                              ELSE IF os[p] = "zombie" THEN "gone" ELSE os[p]]
    /\ q' = <<>>
    /\ pc' = [f \in Frames |-> "idle"]
    /\ cur' = [f \in Frames |-> Blank]
    /\ todo' = {}
    /\ Lapse({<<"cut", cur[f].sid>> : f \in {f \in Frames : pc[f] \in {"insert", "update", "kill"}}}
             \cup {<<"dropped", q[i]>> : i \in DOMAIN q})
    /\ UNCHANGED <<rec, intr, db>>

(* main -> initialize in a new process, whose pid may be one an earlier    *)
(* server had.                                                             *)
initialize(p) ==
    /\ self = None
    /\ self' = p
    /\ Lapse({<<"samepid", r.sid>> : r \in {r \in db : r.ppid = p}})
    /\ UNCHANGED <<sigchld, os, rec, intr, db, q, pc, cur, todo, left>>

-----------------------------------------------------------------------------
Init ==
    /\ self \in ServerPids
    /\ sigchld = FALSE
    /\ os = [p \in Pids |-> "unused"]
    /\ rec = [p \in Pids |-> None]
    /\ intr = {}
    /\ db = {}
    /\ q = <<>>
    /\ pc = [f \in Frames |-> "idle"]
    /\ cur = [f \in Frames |-> Blank]
    /\ todo = {}
    /\ lapsed = {}
    /\ left = Budget

Reload(f) == is_process_exist(f) \/ re_create_process(f) \/ update_process_info(f)
HttpStep == remove_process_by_stream \/ kill_process
QueueStep == process_queue \/ spawn_process \/ add_process_to_cache \/ queue_pop
MonitorStep == find_orphan_process \/ orphan_process_sync \/ Reload(Monitor)
SigStep(t) == sig_reap_chld(t) \/ Reload(Sig(t))

Next ==
    \/ \E s \in Streams : start_record(s) \/ stop_record(s)
    \/ HttpStep
    \/ QueueStep
    \/ MonitorStep
    \/ \E t \in Threads : sig_deliver(t) \/ SigStep(t)
    \/ \E p \in Pids : recorder_exit(p)
    \/ crash
    \/ \E p \in ServerPids : initialize(p)

Spec == Init /\ [][Next]_vars

(* Threads and handlers run, a pending signal is delivered, ffmpeg obeys   *)
(* SIGINT and a crashed server is started again.  Requests, crashes and    *)
(* recorders ending by themselves are never forced.                        *)
Fairness ==
    /\ WF_vars(HttpStep) /\ WF_vars(QueueStep) /\ WF_vars(MonitorStep)
    /\ \A t \in Threads : WF_vars(SigStep(t))
    /\ WF_vars(\E t \in Threads : sig_deliver(t))
    /\ \A p \in Pids : WF_vars(p \in intr /\ recorder_exit(p))
    /\ WF_vars(\E p \in ServerPids : initialize(p))

FairSpec == Spec /\ Fairness

-----------------------------------------------------------------------------
(* Every variable keeps the shape the code gives it. *)
TypeOK ==
    /\ self \in ServerPids \cup {None}
    /\ sigchld \in BOOLEAN
    /\ os \in [Pids -> OsStates]
    /\ rec \in [Pids -> Streams \cup {None}]
    /\ intr \subseteq Pids
    /\ db \subseteq Records
    /\ q \in Seq(Streams)
    /\ pc \in [Frames -> PCs]
    /\ cur \in [Frames -> Jobs]
    /\ todo \subseteq Pids
    /\ lapsed \subseteq LapseKinds \X Streams
    /\ left \in [Events -> Nat]

Excused(s, kinds) == \E k \in kinds : <<k, s>> \in lapsed

(* A stream has at most one record, whatever starts, stops, respawns and   *)
(* restarts overlap: spawn_process checks and inserts on the only thread   *)
(* that inserts.  Only a failed query read as "no such stream" can break   *)
(* it.                                                                     *)
UniqueRecord ==
    \A r1, r2 \in db :
        r1.sid = r2.sid => r1 = r2 \/ Excused(r1.sid, {"misread"})

(* A record always names a process forked for its own stream, although     *)
(* update_process_info writes by stream_id what another frame forked.      *)
RecordNamesItsRecorder ==
    \A r \in db : rec[r.pid] = r.sid

InFlight(p) ==
    \E f \in Frames : pc[f] \in {"insert", "update", "kill"} /\ cur[f].pid = p

(* A running ffmpeg is in the database, about to be written to it, or told *)
(* to stop -- unless, for its own stream, the record changed between a     *)
(* frame's read and its write, a write failed, or the server died halfway. *)
NoUntrackedRecorder ==
    \A p \in Pids : Live(p) =>
        \/ \E r \in db : r.pid = p
        \/ InFlight(p)
        \/ p \in intr
        \/ Excused(rec[p], {"stale", "write", "cut"})

(* A recorder stopped with SIGINT is never brought back: kill_process has  *)
(* removed its record before the signal, so neither the handler nor the    *)
(* monitor finds it.                                                       *)
StopSticks ==
    \A p \in intr :
        \/ /\ \A r \in db : r.pid # p
           /\ \A f \in Frames : pc[f] \in {"fork", "update"} => cur[f].was # p
        \/ Excused(rec[p], {"write", "misread"})

(* A record whose process is dead and reaped is on its way to a new one: a *)
(* frame is reloading it, or the monitor will since its ppid is foreign -- *)
(* unless the process died before its record was written, or the reload    *)
(* itself failed.                                                          *)
DeadRecordPursued ==
    \A r \in db : os[r.pid] = "gone" =>
        \/ r.ppid # self
        \/ \E f \in Frames :
              \/ pc[f] = "look" /\ cur[f].pid = r.pid
              \/ pc[f] \in {"fork", "update"} /\ cur[f].was = r.pid
        \/ Excused(r.sid, {"early", "nofork", "write", "misread", "samepid"})

(* The record of a running recorder is only taken away by stop_record, or  *)
(* overwritten by a frame that had read an older record.                   *)
LiveRecordKept ==
    [][\A r \in db : Live(r.pid) /\ r \notin db' =>
        \/ pc[Http] = "remove" /\ cur[Http].sid = r.sid
        \/ <<"stale", r.sid>> \in lapsed']_vars

(* Every dead child is reaped, although pending SIGCHLDs merge into one. *)
ZombieReaped ==
    \A p \in Pids : os[p] = "zombie" ~> os[p] # "zombie"

(* A recorder that dies while its record is there is replaced. *)
DeadRecorderReplaced ==
    \A s \in Streams, p \in Pids :
        (\E r \in db : r.sid = s /\ r.pid = p /\ os[p] = "zombie") ~>
            \/ \A r \in db : ~(r.sid = s /\ r.pid = p)
            \/ Excused(s, {"nofork", "samepid"})

(* After a restart the monitor replaces every recorder that is gone. *)
OrphanRecovered ==
    \A s \in Streams, p \in Pids :
        (\E r \in db : r.sid = s /\ r.pid = p /\ os[p] = "gone" /\ r.ppid # self) ~>
            \/ \A r \in db : ~(r.sid = s /\ r.pid = p)
            \/ Excused(s, {"nofork", "samepid"})

(* A start that was answered SUCCESS leads to a record, unless the server  *)
(* dies first or cannot fork.                                              *)
StartServed ==
    \A s \in Streams :
        (\E i \in DOMAIN q : q[i] = s /\ (i = 1 => pc[Queue] # "pop")) ~>
            (BySid(s) # {} \/ Excused(s, {"nofork", "dropped"}))
=============================================================================
