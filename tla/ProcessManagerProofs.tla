------------------------ MODULE ProcessManagerProofs ------------------------
(***************************************************************************)
(* The safety properties of ProcessManager, proved for every number of     *)
(* streams, pids and servers, every set of faults and every budget: one    *)
(* record a stream, no recorder lost track of, a stop sticks, a dead       *)
(* record is pursued, and what the invariant implies.                      *)
(***************************************************************************)
EXTENDS ProcessManagerInv

(* Who writes what: history only grows, three operations write to the      *)
(* database, and a thread's main frame is moved by that thread alone.      *)
LEMMA LapsedGrows ==
    ASSUME [Next]_vars
    PROVE  lapsed \subseteq lapsed'
BY Zenon DEF Next, stop_record, HttpStep, QueueStep, MonitorStep, SigStep, Reload, vars, Lapse,
       start_record, get_process_info, remove_process_by_stream, kill_process,
       process_queue, spawn_process, add_process_to_cache, queue_pop,
       sig_deliver, sig_reap_chld, is_process_exist, re_create_process,
       update_process_info, find_orphan_process, orphan_process_sync,
       recorder_exit, crash, initialize

LEMMA ExcusedStays ==
    ASSUME NEW s, NEW K, Excused(s, K), lapsed \subseteq lapsed'
    PROVE  Excused(s, K)'
BY Zenon DEF Excused

LEMMA WritesDb ==
    ASSUME [Next]_vars
    PROVE  \/ UNCHANGED db
           \/ remove_process_by_stream
           \/ add_process_to_cache
           \/ \E f \in Frames : update_process_info(f)
BY Zenon, FrameFacts
DEF Next, stop_record, HttpStep, QueueStep, MonitorStep, SigStep, Reload, vars,
    start_record, get_process_info, kill_process, process_queue, spawn_process,
    queue_pop, sig_deliver, sig_reap_chld, is_process_exist, re_create_process,
    find_orphan_process, orphan_process_sync, recorder_exit, crash, initialize

LEMMA MovesQueue ==
    ASSUME TypeOK, [Next]_vars
    PROVE  \/ QueueStep
           \/ crash
           \/ pc'[Queue] = pc[Queue] /\ cur'[Queue] = cur[Queue]
BY ZenonT(40), FrameFacts
DEF Next, stop_record, HttpStep, MonitorStep, SigStep, Reload, vars, TypeOK, Goto,
    start_record, get_process_info, remove_process_by_stream, kill_process,
    sig_deliver, sig_reap_chld, is_process_exist, re_create_process,
    update_process_info, find_orphan_process, orphan_process_sync,
    recorder_exit, initialize

LEMMA MovesHttp ==
    ASSUME TypeOK, [Next]_vars
    PROVE  \/ \E s \in Streams : get_process_info(s)
           \/ HttpStep
           \/ crash
           \/ pc'[Http] = pc[Http] /\ cur'[Http] = cur[Http]
BY ZenonT(40), FrameFacts
DEF Next, stop_record, QueueStep, MonitorStep, SigStep, Reload, vars, TypeOK, Goto,
    start_record, process_queue, spawn_process, add_process_to_cache, queue_pop,
    sig_deliver, sig_reap_chld, is_process_exist, re_create_process,
    update_process_info, find_orphan_process, orphan_process_sync,
    recorder_exit, initialize

(* What an update leaves in the database. *)
LEMMA UpdateCases ==
    ASSUME NEW f \in Frames, update_process_info(f)
    PROVE  \/ UNCHANGED db /\ <<"write", cur[f].sid>> \in lapsed'
           \/ \E R \in One(BySid(cur[f].sid)) :
                 /\ R \subseteq BySid(cur[f].sid)
                 /\ BySid(cur[f].sid) # {} => \E r \in db : R = {r}
                 /\ db' = (db \ R) \cup {Record(cur[f].sid, cur[f].pid, r.ppid) : r \in R}
                 /\ (\A r \in R : r.pid # cur[f].was) => <<"stale", cur[f].sid>> \in lapsed'
                 /\ TooLate(cur[f].pid) => <<"early", cur[f].sid>> \in lapsed'
BY Zenon DEF update_process_info, Lapse, If, One, BySid

-----------------------------------------------------------------------------
(* One record a stream: only the queue thread inserts, and nothing that    *)
(* runs between its check and its insert can add a record of that stream.  *)
LEMMA UniqueStep ==
    TypeOK /\ Shape /\ UniqueRecord /\ StillAbsent /\ [Next]_vars
        => UniqueRecord' /\ StillAbsent'
<1> SUFFICES ASSUME TypeOK, Shape, UniqueRecord, StillAbsent, [Next]_vars
             PROVE  UniqueRecord' /\ StillAbsent'
    BY Zenon
<1> USE FrameFacts
<1>l. lapsed \subseteq lapsed'
    BY Zenon, LapsedGrows
<1>s. ASSUME \A r \in db' : \E x \in db : r.sid = x.sid
      PROVE  StillAbsent'
    <2>1. ASSUME pc'[Queue] \in {"spawn", "insert"}, pc[Queue] \in {"spawn", "insert"},
                 cur'[Queue].sid = cur[Queue].sid
          PROVE  StillAbsent'
        BY Zenon, <1>l, <1>s, <2>1 DEF StillAbsent, BySid, Excused
    <2>2. CASE process_queue
        <3>1. /\ pc'[Queue] \in {"pop", "spawn"} /\ cur'[Queue].sid = Head(q)
              /\ pc'[Queue] = "spawn" => BySid(Head(q)) = {} \/ <<"misread", Head(q)>> \in lapsed'
            BY Zenon, <2>2, JobParts DEF process_queue, Goto, Lapse, If, TypeOK
        <3> QED
            BY Zenon, <1>s, <3>1 DEF StillAbsent, BySid, Excused
    <2>3. CASE spawn_process
        <3>1. /\ pc[Queue] = "spawn"
              /\ pc'[Queue] \in {"pop", "insert"}
              /\ cur'[Queue].sid = cur[Queue].sid
            BY <2>3, AtFacts, JobParts DEF spawn_process, Goto, TypeOK
        <3> QED
            BY Zenon, <2>1, <3>1 DEF StillAbsent
    <2>4. CASE add_process_to_cache \/ queue_pop
        BY Zenon, <2>4 DEF add_process_to_cache, queue_pop, Goto, TypeOK, StillAbsent
    <2>5. CASE crash
        BY Zenon, <2>5 DEF crash, StillAbsent
    <2>6. CASE pc'[Queue] = pc[Queue] /\ cur'[Queue] = cur[Queue]
        BY Zenon, <2>1, <2>6 DEF StillAbsent
    <2> QED
        BY Zenon, <2>2, <2>3, <2>4, <2>5, <2>6, MovesQueue DEF QueueStep
<1>1. CASE db' \subseteq db
    BY Zenon, <1>1, <1>l, <1>s DEF UniqueRecord, Excused
<1>2. CASE remove_process_by_stream
    BY Zenon, <1>1, <1>2 DEF remove_process_by_stream
<1>3. CASE add_process_to_cache
    <2>1. StillAbsent'
        BY Zenon, <1>3 DEF add_process_to_cache, Goto, TypeOK, StillAbsent
    <2>2. CASE db' = db \cup {Record(cur[Queue].sid, cur[Queue].pid, self)}
        <3>1. Record(cur[Queue].sid, cur[Queue].pid, self).sid = cur[Queue].sid
            BY Zenon DEF Record
        <3>2. BySid(cur[Queue].sid) = {} \/ Excused(cur[Queue].sid, {"misread"})
            BY Zenon, <1>3, AtFacts DEF add_process_to_cache, StillAbsent
        <3> QED
            BY Zenon, <1>l, <2>1, <2>2, <3>1, <3>2 DEF UniqueRecord, BySid, Excused
    <2> QED
        BY Zenon, <1>1, <1>3, <2>2 DEF add_process_to_cache
<1>4. ASSUME NEW f \in Frames, update_process_info(f)
      PROVE  UniqueRecord' /\ StillAbsent'
    <2> DEFINE s == cur[f].sid
    <2>1. CASE UNCHANGED db
        BY Zenon, <1>1, <2>1
    <2>2. ASSUME NEW R \in One(BySid(s)), R \subseteq BySid(s),
                 BySid(s) # {} => \E r \in db : R = {r},
                 db' = (db \ R) \cup {Record(s, cur[f].pid, r.ppid) : r \in R}
          PROVE  UniqueRecord' /\ StillAbsent'
        <3>1. \A pp : Record(s, cur[f].pid, pp).sid = s
            BY Zenon DEF Record
        <3>2. StillAbsent'
            BY Zenon, <1>s, <2>2, <3>1 DEF BySid
        <3>3. CASE R = {}
            BY Zenon, <1>1, <2>2, <3>3
        <3>4. CASE R # {}
            <4>1. PICK r0 \in db : R = {r0} /\ r0.sid = s
                BY Zenon, <2>2, <3>4 DEF BySid
            <4>2. db' = (db \ {r0}) \cup {Record(s, cur[f].pid, r0.ppid)}
                BY Zenon, <2>2, <4>1
            <4>3. \A x \in db \ {r0} : x.sid = s => Excused(s, {"misread"})
                BY Zenon, <4>1 DEF UniqueRecord
            <4> HIDE DEF s
            <4> QED
                BY Zenon, <1>l, <3>1, <3>2, <4>2, <4>3 DEF UniqueRecord, Excused
        <3> QED
            BY Zenon, <3>3, <3>4
    <2> QED
        BY Zenon, <1>4, <2>1, <2>2, UpdateCases
<1> QED
    BY Zenon, <1>1, <1>2, <1>3, <1>4, WritesDb

-----------------------------------------------------------------------------
(* No recorder is lost track of: what a frame holds between fork and write *)
(* is in flight, what an update drops is dead, and what a remove drops is  *)
(* about to be killed.                                                     *)
Tracked(p) ==
    \/ \E r \in db : r.pid = p
    \/ InFlight(p)
    \/ p \in intr
    \/ Excused(rec[p], {"stale", "write", "cut"})

LEMMA TrackedKept ==
    ASSUME NoUntrackedRecorder, NEW p \in Pids, Live(p), rec'[p] = rec[p],
           lapsed \subseteq lapsed', intr \subseteq intr', db \subseteq db',
           \A f \in Frames : pc[f] \in {"insert", "update", "kill"} =>
                pc'[f] \in {"insert", "update", "kill"} /\ cur'[f].pid = cur[f].pid
    PROVE  Tracked(p)'
<1>1. Tracked(p)
    BY Zenon DEF NoUntrackedRecorder, Tracked
<1> QED
    BY Zenon, <1>1 DEF Tracked, InFlight, Excused

LEMMA TrackedFact ==
    ASSUME NoUntrackedRecorder, NEW p \in Pids
    PROVE  Live(p) => Tracked(p)
BY Zenon DEF NoUntrackedRecorder, Tracked

LEMMA TrackedRemove ==
    ASSUME TypeOK, Shape, NoUntrackedRecorder, lapsed \subseteq lapsed', NEW p \in Pids, Live(p)',
           remove_process_by_stream
    PROVE  Tracked(p)'
<1> USE FrameFacts
<1>1. \A f \in Frames : pc[f] \in {"insert", "update", "kill"} => pc'[f] = pc[f] /\ cur'[f] = cur[f]
    BY Zenon, AtFacts DEF remove_process_by_stream, Goto, TypeOK
<1>2. pc'[Http] = "kill" /\ cur'[Http] = cur[Http] /\ cur[Http].was = cur[Http].pid
    BY Zenon, AtFacts DEF remove_process_by_stream, Goto, TypeOK, Shape, FrameShape, Holds
<1>3. Live(p) /\ UNCHANGED <<rec, intr>>
    BY Zenon DEF remove_process_by_stream, Live
<1>4. CASE UNCHANGED db
    BY Zenon, <1>1, <1>3, <1>4, TrackedKept
<1>5. ASSUME NEW R \in One(BySid(cur[Http].sid)), db' = db \ R,
             Lapse(If(\E r \in R : r.pid # cur[Http].was, "stale", cur[Http].sid))
      PROVE  Tracked(p)'
    <2>1. CASE \E r \in R : r.pid = p
        <3>1. PICK r \in R : r.pid = p
            BY Zenon, <2>1
        <3>2. r \in db /\ r.sid = cur[Http].sid
            BY Zenon DEF One, BySid
        <3>3. CASE p = cur[Http].was
            BY Zenon, <1>2, <3>3 DEF Tracked, InFlight
        <3>4. CASE p # cur[Http].was
            BY Zenon, RecordShape, <1>3, <1>5, <3>1, <3>2, <3>4 DEF Tracked, Excused, Lapse, If
        <3> QED
            BY Zenon, <3>3, <3>4
    <2>2. CASE \A r \in R : r.pid # p
        BY Zenon, TrackedFact, <1>1, <1>3, <1>5, <2>2 DEF Tracked, InFlight, Excused
    <2> QED
        BY Zenon, <2>1, <2>2
<1> QED
    BY Zenon, <1>4, <1>5 DEF remove_process_by_stream

LEMMA TrackedKill ==
    ASSUME TypeOK, Shape, NoUntrackedRecorder, NEW p \in Pids, Live(p)',
           kill_process
    PROVE  Tracked(p)'
<1> USE FrameFacts
<1>1. \A f \in Frames \ {Http} : pc'[f] = pc[f] /\ cur'[f] = cur[f]
    BY Zenon DEF kill_process, Goto, TypeOK
<1>2. Live(p) /\ UNCHANGED <<rec, db, lapsed>> /\ intr \subseteq intr'
    BY Zenon DEF kill_process, Live
<1>3. cur[Http].pid = p => p \in intr'
    BY Zenon, <1>2 DEF kill_process
<1> QED
    BY Zenon, TrackedFact, <1>1, <1>2, <1>3 DEF Tracked, InFlight, Excused

LEMMA TrackedSpawn ==
    ASSUME TypeOK, Shape, NoUntrackedRecorder, lapsed \subseteq lapsed', NEW p \in Pids, Live(p)',
           spawn_process
    PROVE  Tracked(p)'
<1> USE FrameFacts
<1>1. \A f \in Frames : pc[f] \in {"insert", "update", "kill"} => pc'[f] = pc[f] /\ cur'[f] = cur[f]
    BY AtFacts DEF spawn_process, Goto, TypeOK
<1>2. \/ Live(p) /\ rec'[p] = rec[p]
      \/ pc'[Queue] = "insert" /\ cur'[Queue].pid = p
    BY JobParts DEF spawn_process, Forked, Live, Goto, TypeOK
<1>3. CASE Live(p) /\ rec'[p] = rec[p]
    BY Zenon, <1>1, <1>3, TrackedKept DEF spawn_process
<1> QED
    BY Zenon, <1>2, <1>3 DEF Tracked, InFlight

LEMMA TrackedInsert ==
    ASSUME TypeOK, Shape, NoUntrackedRecorder, lapsed \subseteq lapsed', NEW p \in Pids, Live(p)',
           add_process_to_cache
    PROVE  Tracked(p)'
<1> USE FrameFacts
<1>1. \A f \in Frames \ {Queue} : pc'[f] = pc[f] /\ cur'[f] = cur[f]
    BY Zenon DEF add_process_to_cache, Goto, TypeOK
<1>2. Live(p) /\ UNCHANGED <<rec, intr>> /\ db \subseteq db'
    BY Zenon DEF add_process_to_cache, Live
<1>3. CASE p = cur[Queue].pid
    <2>1. rec[p] = cur[Queue].sid
        BY <1>3, AtFacts DEF add_process_to_cache, Shape, FrameShape, Holds
    <2>2. \/ Record(cur[Queue].sid, p, self) \in db'
          \/ <<"write", cur[Queue].sid>> \in lapsed'
        BY Zenon, <1>3 DEF add_process_to_cache, Lapse
    <2>3. Record(cur[Queue].sid, p, self).pid = p
        BY Zenon DEF Record
    <2> QED
        BY Zenon, <1>2, <2>1, <2>2, <2>3 DEF Tracked, Excused
<1>4. CASE p # cur[Queue].pid
    BY Zenon, TrackedFact, <1>1, <1>2, <1>4 DEF Tracked, InFlight, Excused
<1> QED
    BY Zenon, <1>3, <1>4

LEMMA TrackedFork ==
    ASSUME TypeOK, Shape, NoUntrackedRecorder, lapsed \subseteq lapsed', NEW p \in Pids, Live(p)',
           NEW f \in Frames, re_create_process(f)
    PROVE  Tracked(p)'
<1> USE FrameFacts
<1>1. \A g \in Frames : pc[g] \in {"insert", "update", "kill"} => pc'[g] = pc[g] /\ cur'[g] = cur[g]
    BY AtFacts DEF re_create_process, Goto, TypeOK
<1>2. \/ Live(p) /\ rec'[p] = rec[p]
      \/ pc'[f] = "update" /\ cur'[f].pid = p
    BY JobParts DEF re_create_process, Forked, Live, Goto, TypeOK
<1>3. CASE Live(p) /\ rec'[p] = rec[p]
    BY Zenon, <1>1, <1>3, TrackedKept DEF re_create_process
<1> QED
    BY Zenon, <1>2, <1>3 DEF Tracked, InFlight

LEMMA TrackedUpdate ==
    ASSUME TypeOK, Shape, NoUntrackedRecorder, lapsed \subseteq lapsed', NEW p \in Pids, Live(p)',
           NEW f \in Frames, update_process_info(f)
    PROVE  Tracked(p)'
<1> USE FrameFacts
<1>1. \A g \in Frames \ {f} : pc'[g] = pc[g] /\ cur'[g] = cur[g]
    BY Zenon DEF update_process_info, Goto, TypeOK
<1>2. Live(p) /\ UNCHANGED <<rec, intr>>
    BY Zenon DEF update_process_info, Live
<1>3. /\ rec[cur[f].pid] = cur[f].sid /\ os[cur[f].was] = "gone"
    BY SMTT(30), AtFacts DEF update_process_info, Shape, FrameShape, Holds
<1>4. CASE UNCHANGED db /\ <<"write", cur[f].sid>> \in lapsed'
    BY Zenon, TrackedFact, <1>1, <1>2, <1>3, <1>4 DEF Tracked, InFlight, Excused
<1>5. ASSUME NEW R \in One(BySid(cur[f].sid)), R \subseteq BySid(cur[f].sid),
             BySid(cur[f].sid) # {} => \E r \in db : R = {r},
             db' = (db \ R) \cup {Record(cur[f].sid, cur[f].pid, r.ppid) : r \in R},
             (\A r \in R : r.pid # cur[f].was) => <<"stale", cur[f].sid>> \in lapsed'
      PROVE  Tracked(p)'
    <2>1. CASE p = cur[f].pid
        <3>1. R = {} => <<"stale", cur[f].sid>> \in lapsed'
            BY Zenon, <1>5
        <3>2. \A r \in R : Record(cur[f].sid, p, r.ppid) \in db'
            BY Zenon, <1>5, <2>1
        <3>3. \A r : Record(cur[f].sid, p, r.ppid).pid = p
            BY Zenon DEF Record
        <3> QED
            BY Zenon, <1>2, <1>3, <2>1, <3>1, <3>2, <3>3 DEF Tracked, Excused
    <2>2. CASE p # cur[f].pid /\ \E r \in R : r.pid = p
        <3>1. PICK r \in R : r.pid = p
            BY Zenon, <2>2
        <3>2. r \in db /\ r.sid = cur[f].sid /\ R = {r}
            BY Zenon, <1>5 DEF BySid
        <3>3. p # cur[f].was
            BY Zenon, <1>2, <1>3 DEF Live
        <3> QED
            BY Zenon, RecordShape, <1>2, <1>5, <3>1, <3>2, <3>3 DEF Tracked, Excused
    <2>3. CASE p # cur[f].pid /\ \A r \in R : r.pid # p
        BY Zenon, TrackedFact, <1>1, <1>2, <1>5, <2>3 DEF Tracked, InFlight, Excused
    <2> QED
        BY Zenon, <2>1, <2>2, <2>3
<1> QED
    BY Zenon, <1>4, <1>5, UpdateCases

LEMMA TrackedCrash ==
    ASSUME TypeOK, Shape, NoUntrackedRecorder, lapsed \subseteq lapsed', NEW p \in Pids, Live(p)',
           crash
    PROVE  Tracked(p)'
<1> USE FrameFacts
<1>1. Live(p) /\ UNCHANGED <<rec, intr, db>>
    BY Zenon DEF crash, Live, TypeOK
<1>2. ASSUME NEW f \in Frames, pc[f] \in {"insert", "update", "kill"}, cur[f].pid = p
      PROVE  <<"cut", rec[p]>> \in lapsed'
    <2>1. rec[p] = cur[f].sid
        BY Zenon, <1>2 DEF Shape, FrameShape, Holds
    <2> QED
        BY Zenon, <1>2, <2>1 DEF crash, Lapse
<1> QED
    BY Zenon, TrackedFact, <1>1, <1>2 DEF Tracked, InFlight, Excused

LEMMA TrackedStep ==
    TypeOK /\ Shape /\ NoUntrackedRecorder /\ [Next]_vars => NoUntrackedRecorder'
<1> SUFFICES ASSUME TypeOK, Shape, NoUntrackedRecorder, [Next]_vars,
                    NEW p \in Pids, Live(p)'
             PROVE  Tracked(p)'
    BY Zenon DEF NoUntrackedRecorder, Tracked
<1> USE FrameFacts
<1>l. lapsed \subseteq lapsed'
    BY Zenon, LapsedGrows
<1>1. ASSUME NEW s \in Streams, start_record(s)
      PROVE  Tracked(p)'
    BY Zenon, <1>1, TrackedKept DEF start_record, put_data, Live
<1>2. ASSUME NEW s \in Streams, get_process_info(s)
      PROVE  Tracked(p)'
    <2>1. \A f \in Frames : pc[f] \in {"insert", "update", "kill"} => pc'[f] = pc[f] /\ cur'[f] = cur[f]
        BY SMTT(30), <1>2, AtFacts DEF get_process_info, Goto, TypeOK
    <2> QED
        BY Zenon, <1>2, <2>1, TrackedKept DEF get_process_info, Live
<1>3. CASE process_queue \/ queue_pop
    <2>1. \A f \in Frames : pc[f] \in {"insert", "update", "kill"} => pc'[f] = pc[f] /\ cur'[f] = cur[f]
        BY SMTT(30), <1>3, AtFacts DEF process_queue, queue_pop, Goto, TypeOK
    <2> QED
        BY Zenon, <1>3, <1>l, <2>1, TrackedKept DEF process_queue, queue_pop, Live
<1>4. ASSUME NEW t \in Threads, sig_deliver(t) \/ sig_reap_chld(t)
      PROVE  Tracked(p)'
    <2>1. \A f \in Frames : pc[f] \in {"insert", "update", "kill"} => pc'[f] = pc[f] /\ cur'[f] = cur[f]
        BY SMTT(30), <1>4, AtFacts DEF sig_deliver, sig_reap_chld, Goto, TypeOK
    <2>2. Live(p)
        BY Zenon, <1>4 DEF sig_deliver, sig_reap_chld, Live, TypeOK
    <2> QED
        BY Zenon, <1>4, <1>l, <2>1, <2>2, TrackedKept DEF sig_deliver, sig_reap_chld
<1>5. ASSUME NEW f \in Frames, is_process_exist(f)
      PROVE  Tracked(p)'
    <2>1. \A g \in Frames : pc[g] \in {"insert", "update", "kill"} => pc'[g] = pc[g] /\ cur'[g] = cur[g]
        BY SMTT(30), <1>5, AtFacts DEF is_process_exist, Goto, TypeOK
    <2> QED
        BY Zenon, <1>5, <1>l, <2>1, TrackedKept DEF is_process_exist, Live
<1>6. CASE find_orphan_process \/ orphan_process_sync
    <2>1. \A f \in Frames : pc[f] \in {"insert", "update", "kill"} => pc'[f] = pc[f] /\ cur'[f] = cur[f]
        BY SMTT(30), <1>6, AtFacts DEF find_orphan_process, orphan_process_sync, Goto, TypeOK
    <2> QED
        BY Zenon, <1>6, <1>l, <2>1, TrackedKept DEF find_orphan_process, orphan_process_sync, Live
<1>7. ASSUME NEW x \in Pids, recorder_exit(x)
       PROVE  Tracked(p)'
    <2>1. Live(p)
        BY Zenon, <1>7 DEF recorder_exit, Live, TypeOK
    <2> QED
        BY Zenon, <1>7, <2>1, TrackedKept DEF recorder_exit
<1>8. ASSUME NEW v \in ServerPids, initialize(v)
       PROVE  Tracked(p)'
    BY Zenon, <1>8, <1>l, TrackedKept DEF initialize, Live
<1>9. CASE UNCHANGED vars
    BY Zenon, <1>9, <1>l, TrackedKept DEF vars, Live
<1> QED
    BY Zenon, <1>1, <1>2, <1>3, <1>4, <1>5, <1>6, <1>7, <1>8, <1>9, <1>l, TrackedRemove,
       TrackedKill, TrackedSpawn, TrackedInsert, TrackedFork, TrackedUpdate, TrackedCrash
    DEF Next, stop_record, HttpStep, QueueStep, MonitorStep, SigStep, Reload

-----------------------------------------------------------------------------

(* A stopped recorder stays stopped: it has no record, a frame can only    *)
(* take up a pid that has one, and nobody writes an old pid.               *)
Chased(p) == \E f \in Frames : pc[f] \in {"fork", "update"} /\ cur[f].was = p

LEMMA WrittenPids ==
    ASSUME TypeOK, Shape, Fresh, [Next]_vars, NEW r \in db'
    PROVE  \/ \E x \in db : r.pid = x.pid
           \/ /\ r.pid \notin intr
              /\ pc[Http] \in {"remove", "kill"} => cur[Http].pid # r.pid
<1> USE FrameFacts
<1>1. ASSUME NEW f \in Frames, pc[f] \in {"insert", "update"}, r.pid = cur[f].pid
      PROVE  /\ r.pid \notin intr
             /\ pc[Http] \in {"remove", "kill"} => cur[Http].pid # r.pid
    BY Zenon, <1>1 DEF Fresh
<1>2. CASE remove_process_by_stream
    BY Zenon, <1>2 DEF remove_process_by_stream
<1>3. CASE add_process_to_cache
    <2>1. r \in db \/ r.pid = cur[Queue].pid
        BY SMTT(30), <1>3 DEF add_process_to_cache, Record
    <2> QED
        BY Zenon, <1>1, <1>3, <2>1, AtFacts DEF add_process_to_cache
<1>4. ASSUME NEW f \in Frames, update_process_info(f)
      PROVE  \/ r \in db
             \/ /\ r.pid \notin intr
                /\ pc[Http] \in {"remove", "kill"} => cur[Http].pid # r.pid
    <2>1. \A pp : Record(cur[f].sid, cur[f].pid, pp).pid = cur[f].pid
        BY Zenon DEF Record
    <2>2. ASSUME NEW R, db' = (db \ R) \cup {Record(cur[f].sid, cur[f].pid, x.ppid) : x \in R}
          PROVE  r.pid = cur[f].pid \/ r \in db
        BY Zenon, <2>1, <2>2
    <2>3. r \in db \/ r.pid = cur[f].pid
        BY Zenon, <1>4, <2>2 DEF update_process_info
    <2> QED
        BY Zenon, <1>1, <1>4, <2>3, AtFacts DEF update_process_info
<1> QED
    BY Zenon, <1>2, <1>3, <1>4, WritesDb

LEMMA UnrecordedStep ==
    TypeOK /\ Shape /\ Fresh /\ UniqueRecord /\ Unrecorded /\ [Next]_vars => Unrecorded'
<1> SUFFICES ASSUME TypeOK, Shape, Fresh, UniqueRecord, Unrecorded, [Next]_vars
             PROVE  Unrecorded'
    BY Zenon
<1> USE FrameFacts
<1>l. lapsed \subseteq lapsed'
    BY Zenon, LapsedGrows
<1>r. \A r \in db : rec[r.pid] = r.sid
    BY Zenon DEF Shape, RecordNamesItsRecorder
<1>1. CASE pc'[Http] = pc[Http] /\ cur'[Http] = cur[Http]
    BY SMTT(30), <1>1, <1>l, WrittenPids DEF Unrecorded, Excused
<1>2. ASSUME NEW s \in Streams, get_process_info(s)
      PROVE  Unrecorded'
    BY Zenon, <1>2, AtFacts DEF get_process_info, Goto, TypeOK, Unrecorded
<1>3. CASE remove_process_by_stream
    <2>1. /\ pc'[Http] = "kill" /\ cur'[Http] = cur[Http]
          /\ cur[Http].was = cur[Http].pid
          /\ rec[cur[Http].pid] = cur[Http].sid
        BY Zenon, <1>3, AtFacts DEF remove_process_by_stream, Goto, TypeOK, Shape, FrameShape, Holds
    <2>2. ASSUME NEW R \in One(BySid(cur[Http].sid)), db' = db \ R,
                 NEW r \in db', r.pid = cur[Http].pid
          PROVE  Excused(cur[Http].sid, {"misread"})
        <3>1. r \in db /\ r.sid = cur[Http].sid
            BY Zenon, <1>r, <2>1, <2>2
        <3>2. PICK x \in db : R = {x} /\ x.sid = cur[Http].sid /\ x # r
            BY Zenon, <2>2, <3>1 DEF One, BySid
        <3> QED
            BY Zenon, <3>1, <3>2 DEF UniqueRecord
    <2>3. CASE UNCHANGED db /\ <<"write", cur[Http].sid>> \in lapsed'
        BY Zenon, <2>1, <2>3 DEF Unrecorded, Excused
    <2>4. ASSUME NEW R \in One(BySid(cur[Http].sid)), db' = db \ R
          PROVE  Unrecorded'
        BY Zenon, <1>l, <2>1, <2>2, <2>4 DEF Unrecorded, Excused
    <2> QED
        BY ZenonT(40), <1>3, <2>3, <2>4 DEF remove_process_by_stream, Lapse
<1>4. CASE kill_process \/ crash
    BY Zenon, <1>4 DEF kill_process, crash, Goto, TypeOK, Unrecorded
<1> QED
    BY Zenon, <1>1, <1>2, <1>3, <1>4, MovesHttp DEF HttpStep

-----------------------------------------------------------------------------
(* A frame takes up, as dead, only a pid that some record names. *)
LEMMA ChasedStep ==
    ASSUME TypeOK, [Next]_vars, NEW p \in Pids, Chased(p)'
    PROVE  Chased(p) \/ \E r \in db : r.pid = p
<1> USE FrameFacts
<1>1. PICK f \in Frames : pc'[f] \in {"fork", "update"} /\ cur'[f].was = p
    BY Zenon DEF Chased
<1>2. CASE pc[f] \in {"fork", "update"} /\ cur[f].was = cur'[f].was
    BY Zenon, <1>1, <1>2 DEF Chased
<1>3. ASSUME NEW g \in Frames, is_process_exist(g)
      PROVE  Chased(p) \/ \E r \in db : r.pid = p
    <2>1. CASE f # g
        BY Zenon, <1>2, <1>1, <1>3, <2>1 DEF is_process_exist, Goto, TypeOK
    <2>2. CASE f = g
        <3>1. PICK r \in ByPid(cur[f].pid) : cur'[f] = Job(r.sid, cur[f].pid, cur[f].pid)
            BY SMTT(30), <1>1, <1>3, <2>2, ResumeFacts DEF is_process_exist, Goto, TypeOK
        <3>2. cur'[f].was = cur[f].pid
            BY SMTT(30), <3>1, JobParts
        <3> QED
            BY Zenon, <1>1, <3>1, <3>2 DEF ByPid
    <2> QED
        BY Zenon, <2>1, <2>2
<1>4. ASSUME NEW g \in Frames, re_create_process(g)
      PROVE  Chased(p) \/ \E r \in db : r.pid = p
    <2>1. CASE f # g
        BY Zenon, <1>1, <1>2, <1>4, <2>1 DEF re_create_process, Goto, TypeOK
    <2>2. CASE f = g
        <3>1. pc[f] = "fork" /\ \E x \in Pids : cur'[f] = Job(cur[f].sid, x, cur[f].was)
            BY SMTT(30), <1>1, <1>4, <2>2, AtFacts, ResumeFacts DEF re_create_process, Goto, TypeOK
        <3> QED
            BY SMTT(30), <1>2, <3>1, JobParts
    <2> QED
        BY <2>1, <2>2
<1>5. CASE crash
    BY Zenon, <1>1, <1>5 DEF crash
<1>6. \/ pc'[f] = pc[f] /\ cur'[f] = cur[f]
      \/ crash
      \/ \E g \in Frames : is_process_exist(g) \/ re_create_process(g)
    BY ZenonT(40), <1>1, ResumeFacts
    DEF Next, stop_record, HttpStep, QueueStep, MonitorStep, SigStep, Reload, vars, TypeOK, Goto,
        start_record, get_process_info, remove_process_by_stream, kill_process,
        process_queue, spawn_process, add_process_to_cache, queue_pop,
        sig_deliver, sig_reap_chld, update_process_info, find_orphan_process,
        orphan_process_sync, recorder_exit, initialize
<1> QED
    BY Zenon, <1>1, <1>2, <1>3, <1>4, <1>5, <1>6

LEMMA StopStep ==
    TypeOK /\ Shape /\ Fresh /\ Unrecorded /\ StopSticks /\ [Next]_vars => StopSticks'
<1> SUFFICES ASSUME TypeOK, Shape, Fresh, Unrecorded, StopSticks, [Next]_vars,
                    NEW p \in intr', ~Excused(rec[p], {"write", "misread"})'
             PROVE  (\A r \in db' : r.pid # p) /\ ~Chased(p)'
    BY Zenon DEF StopSticks, Chased
<1> USE FrameFacts
<1>l. lapsed \subseteq lapsed'
    BY Zenon, LapsedGrows
<1>1. CASE p \in intr
    <2>1. p \in Pids /\ os[p] # "unused"
        BY Zenon, <1>1 DEF TypeOK, Shape, KnownForked
    <2>2. rec'[p] = rec[p]
        BY Zenon, <2>1, AgesStep DEF Ages, crash
    <2>3. (\A r \in db : r.pid # p) /\ ~Chased(p)
        BY Zenon, <1>1, <1>l, <2>2 DEF StopSticks, Chased, Excused
    <2> QED
        BY Zenon, <1>1, <2>1, <2>3, WrittenPids, ChasedStep
<1>2. CASE p \notin intr
    <2>1. kill_process
        BY ZenonT(40), <1>2
        DEF Next, stop_record, HttpStep, QueueStep, MonitorStep, SigStep, Reload, vars,
            start_record, get_process_info, remove_process_by_stream,
            process_queue, spawn_process, add_process_to_cache, queue_pop,
            sig_deliver, sig_reap_chld, is_process_exist, re_create_process,
            update_process_info, find_orphan_process, orphan_process_sync,
            recorder_exit, crash, initialize
    <2>2. /\ pc[Http] = "kill" /\ p = cur[Http].pid /\ p \in Pids /\ Live(p)
          /\ rec[p] = cur[Http].sid
          /\ UNCHANGED <<rec, db, lapsed>>
        BY SMTT(30), <1>2, <2>1, AtFacts DEF kill_process, Shape, FrameShape, Holds
    <2>3. \A r \in db : r.pid # p
        BY Zenon, <2>2 DEF Unrecorded, Excused
    <2>4. ~Chased(p)
        BY Zenon, <2>2 DEF Chased, Live, Shape, FrameShape, Holds
    <2> QED
        BY Zenon, <2>2, <2>3, <2>4, ChasedStep
<1> QED
    BY Zenon, <1>1, <1>2

-----------------------------------------------------------------------------
(* A dead recorder's record is pursued: reaping and looking up are done by *)
(* the same frame, which holds the pid until it has written a new one.     *)
Hunted(p) ==
    \E f \in Frames :
        \/ pc[f] = "look" /\ cur[f].pid = p
        \/ pc[f] \in {"fork", "update"} /\ cur[f].was = p

LEMMA HuntedKept ==
    ASSUME NEW p, Hunted(p),
           \A f \in Frames : pc[f] \in {"look", "fork", "update"} => pc'[f] = pc[f] /\ cur'[f] = cur[f]
    PROVE  Hunted(p)'
BY Zenon DEF Hunted

(* A hunt ends with an excuse or with the record rewritten. *)
LEMMA HuntEnds ==
    ASSUME TypeOK, Shape, Fresh, UniqueRecord, [Next]_vars, NEW r \in db, Hunted(r.pid)
    PROVE  \/ crash
           \/ Hunted(r.pid)'
           \/ r \notin db'
           \/ Excused(r.sid, {"early", "nofork", "write", "misread", "samepid"})'
<1> USE FrameFacts
<1>l. lapsed \subseteq lapsed'
    BY Zenon, LapsedGrows
<1>r. rec[r.pid] = r.sid
    BY Zenon DEF Shape, RecordNamesItsRecorder
<1>1. ASSUME NEW f \in Frames, is_process_exist(f)
      PROVE  Hunted(r.pid)' \/ Excused(r.sid, {"misread"})'
    <2>1. \A g \in Frames \ {f} : pc'[g] = pc[g] /\ cur'[g] = cur[g]
        BY Zenon, <1>1 DEF is_process_exist, Goto, TypeOK
    <2>2. pc[f] = "look"
        BY Zenon, <1>1, AtFacts DEF is_process_exist
    <2>3. CASE cur[f].pid = r.pid
        <3>1. r \in ByPid(r.pid)
            BY Zenon DEF ByPid
        <3>2. \/ pc'[f] = "fork" /\ cur'[f].was = r.pid
              \/ <<"misread", r.sid>> \in lapsed'
            BY SMTT(30), <1>1, <2>3, <3>1, JobParts DEF is_process_exist, Goto, Lapse, TypeOK
        <3> QED
            BY Zenon, <3>2 DEF Hunted, Excused
    <2>4. CASE cur[f].pid # r.pid
        BY Zenon, <2>1, <2>2, <2>4 DEF Hunted
    <2> QED
        BY Zenon, <2>3, <2>4
<1>2. ASSUME NEW f \in Frames, re_create_process(f)
      PROVE  Hunted(r.pid)' \/ Excused(r.sid, {"nofork"})'
    <2>1. \A g \in Frames \ {f} : pc'[g] = pc[g] /\ cur'[g] = cur[g]
        BY Zenon, <1>2 DEF re_create_process, Goto, TypeOK
    <2>2. pc[f] = "fork" /\ rec[cur[f].was] = cur[f].sid
        BY SMTT(30), <1>2, AtFacts DEF re_create_process, Shape, FrameShape, Holds
    <2>3. CASE cur[f].was = r.pid
        <3>1. \/ pc'[f] = "update" /\ cur'[f].was = r.pid
              \/ <<"nofork", r.sid>> \in lapsed'
            BY SMTT(30), <1>2, <1>r, <2>2, <2>3, JobParts DEF re_create_process, Goto, Lapse, TypeOK
        <3> QED
            BY Zenon, <3>1 DEF Hunted, Excused
    <2>4. CASE cur[f].was # r.pid
        BY Zenon, <2>1, <2>2, <2>4 DEF Hunted
    <2> QED
        BY Zenon, <2>3, <2>4
<1>3. ASSUME NEW f \in Frames, update_process_info(f)
      PROVE  Hunted(r.pid)' \/ r \notin db' \/ Excused(r.sid, {"write", "misread"})'
    <2>1. \A g \in Frames \ {f} : pc'[g] = pc[g] /\ cur'[g] = cur[g]
        BY Zenon, <1>3 DEF update_process_info, Goto, TypeOK
    <2>2. /\ pc[f] = "update" /\ rec[cur[f].was] = cur[f].sid /\ cur[f].sid \in Streams
          /\ cur[f].pid \in Pids /\ os[cur[f].pid] # "unused"
        BY SMTT(30), <1>3, AtFacts DEF update_process_info, Shape, FrameShape, Holds
    <2>3. CASE cur[f].was # r.pid
        BY Zenon, <2>1, <2>2, <2>3 DEF Hunted
    <2>4. CASE cur[f].was = r.pid
        <3>1. r.sid = cur[f].sid /\ r \in BySid(cur[f].sid)
            BY Zenon, <1>r, <2>2, <2>4 DEF BySid
        <3>2. CASE <<"write", cur[f].sid>> \in lapsed'
            BY Zenon, <3>1, <3>2 DEF Excused
        <3>3. ASSUME NEW R \in One(BySid(cur[f].sid)), R \subseteq BySid(cur[f].sid),
                     BySid(cur[f].sid) # {} => \E x \in db : R = {x},
                     db' = (db \ R) \cup {Record(cur[f].sid, cur[f].pid, x.ppid) : x \in R}
              PROVE  Hunted(r.pid)' \/ r \notin db' \/ Excused(r.sid, {"write", "misread"})'
            <4>1. PICK x \in db : R = {x} /\ x.sid = cur[f].sid
                BY Zenon, <3>1, <3>3 DEF BySid
            <4>2. CASE x # r
                BY Zenon, <1>l, <3>1, <4>1, <4>2 DEF UniqueRecord, Excused
            <4>3. CASE x = r
                <5>1. Record(cur[f].sid, cur[f].pid, x.ppid).pid = cur[f].pid
                    BY Zenon DEF Record
                <5>2. r.pid # cur[f].pid
                    BY Zenon, <2>2 DEF Fresh
                <5> QED
                    BY Zenon, <3>3, <4>1, <4>3, <5>1, <5>2
            <4> QED
                BY Zenon, <4>2, <4>3
        <3> QED
            BY Zenon, <1>3, <3>2, <3>3, UpdateCases
    <2> QED
        BY Zenon, <2>3, <2>4
<1>4. \/ crash
      \/ \E f \in Frames : is_process_exist(f) \/ re_create_process(f) \/ update_process_info(f)
      \/ \A f \in Frames : pc[f] \in {"look", "fork", "update"} => pc'[f] = pc[f] /\ cur'[f] = cur[f]
    <2> DEFINE Undisturbed ==
            \A f \in Frames : pc[f] \in {"look", "fork", "update"} => pc'[f] = pc[f] /\ cur'[f] = cur[f]
    <2>1. ASSUME NEW s \in Streams, start_record(s) \/ get_process_info(s)
          PROVE  Undisturbed
        BY SMTT(30), <2>1, AtFacts DEF start_record, put_data, get_process_info, Goto, TypeOK
    <2>2. CASE HttpStep
        <3>1. CASE remove_process_by_stream
            BY SMTT(30), <3>1, AtFacts DEF remove_process_by_stream, Goto, TypeOK
        <3>2. CASE kill_process
            BY Zenon, <3>2, AtFacts DEF kill_process, Goto, TypeOK
        <3> QED
            BY Zenon, <2>2, <3>1, <3>2 DEF HttpStep
    <2>3. CASE QueueStep
        <3>1. CASE process_queue \/ spawn_process
            BY SMTT(30), <3>1, AtFacts DEF process_queue, spawn_process, Goto, TypeOK
        <3>2. CASE add_process_to_cache \/ queue_pop
            BY SMTT(30), <3>2, AtFacts DEF add_process_to_cache, queue_pop, Goto, TypeOK
        <3> QED
            BY Zenon, <2>3, <3>1, <3>2 DEF QueueStep
    <2>4. CASE find_orphan_process \/ orphan_process_sync
        BY SMTT(30), <2>4, AtFacts DEF find_orphan_process, orphan_process_sync, Goto, TypeOK
    <2>5. ASSUME NEW t \in Threads, sig_deliver(t) \/ sig_reap_chld(t)
          PROVE  Undisturbed
        BY SMTT(30), <2>5, AtFacts DEF sig_deliver, sig_reap_chld, Goto, TypeOK
    <2>6. CASE UNCHANGED <<pc, cur>>
        BY Zenon, <2>6
    <2> QED
        BY Zenon, <2>1, <2>2, <2>3, <2>4, <2>5, <2>6
        DEF Next, stop_record, MonitorStep, SigStep, Reload, vars, recorder_exit, initialize
<1> QED
    BY Zenon, <1>1, <1>2, <1>3, <1>4, HuntedKept DEF Excused

(* A pid is reaped by a frame that goes on to look it up, or by init when  *)
(* it was an orphan.                                                       *)
LEMMA GoneStep ==
    ASSUME TypeOK, [Next]_vars, NEW p \in Pids, os'[p] = "gone"
    PROVE  crash \/ os[p] = "gone" \/ os[p] = "orphan" \/ Hunted(p)'
<1> USE FrameFacts
<1>1. ASSUME NEW t \in Threads, sig_reap_chld(t)
      PROVE  os[p] = "gone" \/ Hunted(p)'
    <2>1. \/ os[p] = "gone"
          \/ pc'[Sig(t)] = "look" /\ cur'[Sig(t)] = Job(None, p, None)
        BY Zenon, <1>1 DEF sig_reap_chld, Goto, TypeOK
    <2> QED
        BY SMTT(30), <2>1, JobParts DEF Hunted
<1>2. ASSUME NEW x \in Pids, recorder_exit(x)
      PROVE  os[p] = "gone" \/ os[p] = "orphan"
    BY Zenon, <1>2 DEF recorder_exit, Live, TypeOK
<1>3. CASE spawn_process \/ \E f \in Frames : re_create_process(f)
    BY Zenon, <1>3 DEF spawn_process, re_create_process, Forked, TypeOK
<1>4. CASE UNCHANGED os
    BY Zenon, <1>4
<1> QED
    BY ZenonT(40), <1>1, <1>2, <1>3, <1>4
    DEF Next, stop_record, HttpStep, QueueStep, MonitorStep, SigStep, Reload, vars,
        start_record, get_process_info, remove_process_by_stream, kill_process,
        process_queue, add_process_to_cache, queue_pop, sig_deliver,
        is_process_exist, update_process_info, find_orphan_process,
        orphan_process_sync, initialize

(* A record that appears names a child of this server, dead only if it is  *)
(* hunted or came too late.                                                *)
LEMMA NewRecord ==
    ASSUME TypeOK, Shape, [Next]_vars, NEW r \in db', r \notin db
    PROVE  /\ UNCHANGED <<os, self>>
           /\ os[r.pid] # "orphan"
           /\ \/ Excused(r.sid, {"early"})'
              \/ os[r.pid] # "gone"
              \/ Hunted(r.pid)'
<1> USE FrameFacts
<1>1. ASSUME NEW f \in Frames, pc[f] \in {"insert", "update"}, r.pid = cur[f].pid, r.sid = cur[f].sid,
             UNCHANGED <<os, self>>,
             \A g \in Frames \ {f} : pc'[g] = pc[g] /\ cur'[g] = cur[g],
             TooLate(cur[f].pid) => <<"early", cur[f].sid>> \in lapsed'
      PROVE  /\ os[r.pid] # "orphan"
             /\ \/ Excused(r.sid, {"early"})'
                \/ os[r.pid] # "gone"
                \/ Hunted(r.pid)'
    <2>1. os[r.pid] # "orphan"
        BY Zenon, <1>1 DEF Shape, FrameShape, Holds
    <2>2. CASE TooLate(cur[f].pid)
        BY Zenon, <1>1, <2>1, <2>2 DEF Excused
    <2>3. CASE ~TooLate(cur[f].pid) /\ os[r.pid] = "gone"
        <3>1. PICK g \in Frames : pc[g] = "look" /\ cur[g].pid = r.pid
            BY Zenon, <1>1, <2>3 DEF TooLate
        <3> QED
            BY Zenon, <1>1, <2>1, <3>1 DEF Hunted
    <2> QED
        BY Zenon, <2>1, <2>2, <2>3
<1>2. CASE remove_process_by_stream
    BY Zenon, <1>2 DEF remove_process_by_stream
<1>3. CASE add_process_to_cache
    <2>1. \A g \in Frames \ {Queue} : pc'[g] = pc[g] /\ cur'[g] = cur[g]
        BY Zenon, <1>3 DEF add_process_to_cache, Goto, TypeOK
    <2>2. r = Record(cur[Queue].sid, cur[Queue].pid, self)
        BY Zenon, <1>3 DEF add_process_to_cache
    <2>3. r.pid = cur[Queue].pid /\ r.sid = cur[Queue].sid
        BY Zenon, <2>2 DEF Record
    <2>4. TooLate(cur[Queue].pid) => <<"early", cur[Queue].sid>> \in lapsed'
        BY Zenon, <1>3 DEF add_process_to_cache, Lapse, If
    <2>5. pc[Queue] = "insert" /\ UNCHANGED <<os, self>>
        BY Zenon, <1>3, AtFacts DEF add_process_to_cache
    <2> QED
        BY Zenon, <1>1, <2>1, <2>3, <2>4, <2>5
<1>4. ASSUME NEW f \in Frames, update_process_info(f)
      PROVE  /\ UNCHANGED <<os, self>>
             /\ os[r.pid] # "orphan"
             /\ \/ Excused(r.sid, {"early"})'
                \/ os[r.pid] # "gone"
                \/ Hunted(r.pid)'
    <2>1. \A g \in Frames \ {f} : pc'[g] = pc[g] /\ cur'[g] = cur[g]
        BY Zenon, <1>4 DEF update_process_info, Goto, TypeOK
    <2>2. pc[f] = "update" /\ UNCHANGED <<os, self>>
        BY Zenon, <1>4, AtFacts DEF update_process_info
    <2>3. \A pp : /\ Record(cur[f].sid, cur[f].pid, pp).pid = cur[f].pid
                 /\ Record(cur[f].sid, cur[f].pid, pp).sid = cur[f].sid
        BY Zenon DEF Record
    <2>4. ASSUME NEW R, db' = (db \ R) \cup {Record(cur[f].sid, cur[f].pid, x.ppid) : x \in R},
                 TooLate(cur[f].pid) => <<"early", cur[f].sid>> \in lapsed'
          PROVE  /\ r.pid = cur[f].pid /\ r.sid = cur[f].sid
                 /\ TooLate(cur[f].pid) => <<"early", cur[f].sid>> \in lapsed'
        BY Zenon, <2>3, <2>4
    <2>5. /\ r.pid = cur[f].pid /\ r.sid = cur[f].sid
          /\ TooLate(cur[f].pid) => <<"early", cur[f].sid>> \in lapsed'
        BY Zenon, <1>4, <2>4, UpdateCases
    <2> QED
        BY Zenon, <1>1, <2>1, <2>2, <2>5
<1> QED
    BY Zenon, <1>2, <1>3, <1>4, WritesDb

LEMMA DeadStep ==
    TypeOK /\ Shape /\ Fresh /\ UniqueRecord /\ DeadRecordPursued /\ OrphanForeign /\ [Next]_vars
        => DeadRecordPursued' /\ OrphanForeign'
<1> SUFFICES ASSUME TypeOK, Shape, Fresh, UniqueRecord, DeadRecordPursued, OrphanForeign,
                    [Next]_vars, TypeOK'
             PROVE  DeadRecordPursued' /\ OrphanForeign'
    BY Zenon, TypeStep
<1> DEFINE K == {"early", "nofork", "write", "misread", "samepid"}
<1>l. lapsed \subseteq lapsed'
    BY Zenon, LapsedGrows
<1>r. \A r \in db : r.pid \in Pids /\ r.ppid \in ServerPids
    BY Zenon, RecordFields DEF TypeOK
<1>1. CASE crash
    BY Zenon, <1>1, <1>r, ConstantsAssumption DEF crash, DeadRecordPursued, OrphanForeign
<1>2. ASSUME NEW p \in ServerPids, initialize(p)
      PROVE  DeadRecordPursued' /\ OrphanForeign'
    <2>1. \A r \in db' : r.ppid # self' \/ <<"samepid", r.sid>> \in lapsed'
        BY Zenon, <1>2 DEF initialize, Lapse
    <2> QED
        BY SMTT(30), <2>1 DEF DeadRecordPursued, OrphanForeign, Excused
<1>3. CASE UNCHANGED self /\ ~crash
    <2>1. Ages
        BY Zenon, <1>3, AgesStep
    <2>2. ASSUME NEW r \in db', os'[r.pid] = "orphan"
          PROVE  r.ppid # self' \/ Excused(r.sid, {"samepid"})'
        <3>1. r \in db
            BY Zenon, <2>2, NewRecord
        <3>2. os[r.pid] = "orphan"
            BY Zenon, <1>r, <2>1, <2>2, <3>1 DEF Ages, Shape, KnownForked
        <3> QED
            BY Zenon, <1>3, <1>l, <3>1, <3>2 DEF OrphanForeign, Excused
    <2>3. ASSUME NEW r \in db', os'[r.pid] = "gone"
          PROVE  r.ppid # self' \/ Hunted(r.pid)' \/ Excused(r.sid, K)'
        <3>1. CASE r \notin db
            BY Zenon, <2>3, <3>1, NewRecord DEF Excused
        <3>2. CASE r \in db /\ os[r.pid] = "gone"
            <4>1. r.ppid # self \/ Hunted(r.pid) \/ Excused(r.sid, K)
                BY Zenon, <3>2 DEF DeadRecordPursued, Hunted
            <4> QED
                BY Zenon, <1>3, <1>l, <3>2, <4>1, HuntEnds DEF Excused
        <3>3. CASE r \in db /\ os[r.pid] = "orphan"
            BY Zenon, <1>3, <1>l, <3>3 DEF OrphanForeign, Excused
        <3> QED
            BY Zenon, <1>3, <1>r, <2>3, <3>1, <3>2, <3>3, GoneStep
    <2> QED
        BY Zenon, <2>2, <2>3 DEF DeadRecordPursued, OrphanForeign, Hunted
<1>4. crash \/ (\E p \in ServerPids : initialize(p)) \/ (UNCHANGED self /\ ~crash)
    BY Zenon DEF Next, stop_record, HttpStep, QueueStep, MonitorStep, SigStep, Reload, vars,
           start_record, get_process_info, remove_process_by_stream, kill_process,
           process_queue, spawn_process, add_process_to_cache, queue_pop,
           sig_deliver, sig_reap_chld, is_process_exist, re_create_process,
           update_process_info, find_orphan_process, orphan_process_sync,
           recorder_exit
<1> QED
    BY Zenon, <1>1, <1>2, <1>3, <1>4

-----------------------------------------------------------------------------
LEMMA InitIInv == Init => IInv
<1> SUFFICES ASSUME Init
             PROVE  IInv
    BY Zenon
<1>1. TypeOK
    BY Zenon, TypeInit
<1>2. \A f \in Frames : pc[f] = "idle"
    BY Zenon DEF Init
<1>3. Shape
    BY Zenon, <1>2, FrameFacts DEF Init, Shape, FrameShape, Holds, KnownForked, RecordNamesItsRecorder
<1>4. Fresh /\ StillAbsent /\ Unrecorded
    BY Zenon, <1>2, FrameFacts DEF Fresh, StillAbsent, Unrecorded
<1>5. UniqueRecord /\ StopSticks /\ DeadRecordPursued /\ OrphanForeign
    BY Zenon DEF Init, UniqueRecord, StopSticks, DeadRecordPursued, OrphanForeign
<1>6. NoUntrackedRecorder
    BY Zenon DEF Init, NoUntrackedRecorder, Live
<1> QED
    BY Zenon, <1>1, <1>3, <1>4, <1>5, <1>6 DEF IInv

LEMMA StepIInv == IInv /\ [Next]_vars => IInv'
BY Zenon, TypeStep, ShapeStep, FreshStep, UniqueStep, TrackedStep, UnrecordedStep, StopStep, DeadStep
DEF IInv

(* The inductive invariant holds for every instance of the constants. *)
THEOREM Inductive == Spec => []IInv
BY InitIInv, StepIInv, PTL DEF Spec

(* Every variable of the server, the kernel and the database keeps its     *)
(* type.                                                                   *)
THEOREM TypeCorrect == Spec => []TypeOK
<1>1. IInv => TypeOK
    BY Zenon DEF IInv
<1> QED
    BY <1>1, Inductive, PTL

(* spawn_process never gives a stream a second record, unless its query    *)
(* failed.                                                                 *)
THEOREM OneRecordPerStream == Spec => []UniqueRecord
<1>1. IInv => UniqueRecord
    BY Zenon DEF IInv
<1> QED
    BY <1>1, Inductive, PTL

(* A record names a process that was forked for its own stream.            *)
THEOREM RecordsNameTheirRecorders == Spec => []RecordNamesItsRecorder
<1>1. IInv => RecordNamesItsRecorder
    BY Zenon DEF IInv, Shape
<1> QED
    BY <1>1, Inductive, PTL

(* A running ffmpeg is recorded, about to be, or stopped, unless one of    *)
(* the three named lapses happened to its stream.                          *)
THEOREM RecordersTracked == Spec => []NoUntrackedRecorder
<1>1. IInv => NoUntrackedRecorder
    BY Zenon DEF IInv
<1> QED
    BY <1>1, Inductive, PTL

(* What stop_record has signalled is not respawned by the SIGCHLD handler  *)
(* or the monitor.                                                         *)
THEOREM StopsStick == Spec => []StopSticks
<1>1. IInv => StopSticks
    BY Zenon DEF IInv
<1> QED
    BY <1>1, Inductive, PTL

(* The record of a dead, reaped recorder is being reloaded, is left to the *)
(* monitor, or is excused by a named lapse.                                *)
THEOREM DeadRecordsPursued == Spec => []DeadRecordPursued
<1>1. IInv => DeadRecordPursued
    BY Zenon DEF IInv
<1> QED
    BY <1>1, Inductive, PTL

(* A live recorder's record is taken away by stop_record only, or          *)
(* overwritten by a frame that had read an older one.                      *)
THEOREM LiveRecordsKept == Spec => LiveRecordKept
<1>1. ASSUME IInv, [Next]_vars, NEW r \in db, Live(r.pid), r \notin db'
      PROVE  \/ pc[Http] = "remove" /\ cur[Http].sid = r.sid
             \/ <<"stale", r.sid>> \in lapsed'
    <2>1. CASE remove_process_by_stream
        BY Zenon, <1>1, <2>1, AtFacts DEF remove_process_by_stream, One, BySid
    <2>2. CASE add_process_to_cache
        BY Zenon, <1>1, <2>2 DEF add_process_to_cache
    <2>3. ASSUME NEW f \in Frames, update_process_info(f)
          PROVE  <<"stale", r.sid>> \in lapsed'
        <3>1. os[cur[f].was] = "gone"
            BY Zenon, <1>1, <2>3, AtFacts DEF update_process_info, IInv, Shape, FrameShape, Holds
        <3>2. PICK R \in One(BySid(cur[f].sid)) :
                 /\ R \subseteq BySid(cur[f].sid)
                 /\ BySid(cur[f].sid) # {} => \E x \in db : R = {x}
                 /\ db' = (db \ R) \cup {Record(cur[f].sid, cur[f].pid, x.ppid) : x \in R}
                 /\ (\A x \in R : x.pid # cur[f].was) => <<"stale", cur[f].sid>> \in lapsed'
            BY Zenon, <1>1, <2>3, UpdateCases
        <3>3. r \in R
            BY Zenon, <1>1, <3>2
        <3>4. r.sid = cur[f].sid /\ R = {r}
            BY Zenon, <3>2, <3>3 DEF BySid
        <3> QED
            BY SMTT(30), <1>1, <3>1, <3>2, <3>4 DEF Live
    <2> QED
        BY Zenon, <1>1, <2>1, <2>2, <2>3, WritesDb
<1>2. IInv /\ [Next]_vars =>
        [\A r \in db : Live(r.pid) /\ r \notin db' =>
            \/ pc[Http] = "remove" /\ cur[Http].sid = r.sid
            \/ <<"stale", r.sid>> \in lapsed']_vars
    BY Zenon, <1>1
<1> QED
    BY <1>2, Inductive, PTL DEF Spec, LiveRecordKept
=============================================================================
