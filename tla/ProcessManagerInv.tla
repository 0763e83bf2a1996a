------------------------- MODULE ProcessManagerInv --------------------------
(***************************************************************************)
(* The inductive invariant of ProcessManager: its types, what every frame  *)
(* holds at each label, and fresh pids.                                    *)
(***************************************************************************)
EXTENDS ProcessManager, TLAPS

(* What a frame holds at each label: a read record's pid is a process that *)
(* was forked for that stream, a pid that is looked up or replaced is      *)
(* dead and reaped, and a pid about to be written is one of this server's  *)
(* own children.                                                           *)
Holds(f) ==
    /\ pc[f] \in {"remove", "kill", "spawn", "insert", "fork", "update"} =>
            cur[f].sid \in Streams
    /\ pc[f] \in {"remove", "kill", "insert", "update"} =>
            /\ cur[f].pid \in Pids
            /\ os[cur[f].pid] # "unused"
            /\ rec[cur[f].pid] = cur[f].sid
    /\ pc[f] \in {"remove", "kill"} => cur[f].was = cur[f].pid
    /\ pc[f] \in {"insert", "update"} => os[cur[f].pid] # "orphan"
    /\ pc[f] = "look" => cur[f].pid \in Pids /\ os[cur[f].pid] = "gone"
    /\ pc[f] \in {"fork", "update"} =>
            /\ cur[f].was \in Pids
            /\ os[cur[f].was] = "gone"
            /\ rec[cur[f].was] = cur[f].sid

FrameShape ==
    /\ pc[Queue] # "idle" => q # <<>>
    /\ \A f \in Frames : Holds(f)

(* Only processes that were forked are known by pid. *)
KnownForked ==
    /\ \A p \in todo \cup intr : os[p] # "unused"
    /\ \A r \in db : os[r.pid] # "unused"

Shape == FrameShape /\ KnownForked /\ RecordNamesItsRecorder

(* A pid that fork has just returned is known to its own frame only. *)
Fresh ==
    \A f \in Frames : pc[f] \in {"insert", "update"} =>
        /\ cur[f].pid \notin intr
        /\ \A r \in db : r.pid # cur[f].pid
        /\ \A g \in Frames \ {f} :
              pc[g] \in {"remove", "kill", "insert", "update"} => cur[g].pid # cur[f].pid

(* What process_queue found missing is still missing when it is inserted. *)
StillAbsent ==
    pc[Queue] \in {"spawn", "insert"} =>
        \/ BySid(cur[Queue].sid) = {}
        \/ Excused(cur[Queue].sid, {"misread"})

(* Between its remove and its kill, stop_record's process has no record. *)
Unrecorded ==
    pc[Http] = "kill" =>
        \/ \A r \in db : r.pid # cur[Http].pid
        \/ Excused(cur[Http].sid, {"write", "misread"})

(* A recorder an earlier server forked is recorded under that server. *)
OrphanForeign ==
    \A r \in db : os[r.pid] = "orphan" =>
        r.ppid # self \/ Excused(r.sid, {"samepid"})

IInv ==
    /\ TypeOK
    /\ Shape
    /\ Fresh
    /\ UniqueRecord /\ StillAbsent
    /\ NoUntrackedRecorder
    /\ StopSticks /\ Unrecorded
    /\ DeadRecordPursued /\ OrphanForeign

-----------------------------------------------------------------------------
(* The six frames and what a step of a frame starts from. *)
LEMMA FrameFacts ==
    /\ Http \in Frames /\ Queue \in Frames /\ Monitor \in Frames
    /\ \A t \in Threads : Sig(t) \in Frames
    /\ Http # Queue /\ Monitor # Queue /\ Http # Monitor
    /\ \A t \in Threads : Sig(t) \notin {Http, Queue, Monitor}
BY Zenon DEF Http, Queue, Monitor, Sig, Frames, Threads

LEMMA AtFacts ==
    ASSUME NEW f, NEW l, At(f, l)
    PROVE  pc[f] = l /\ self # None
BY Zenon DEF At

LEMMA ResumeFacts ==
    ASSUME NEW f
    PROVE  Resume(f) \in {"check", "wait"}
BY Zenon DEF Resume

(* Jobs and records as the provers need them: built and read, not opened. *)
LEMMA JobFacts ==
    ASSUME NEW s \in Streams \cup {None}, NEW p \in Pids \cup {None}, NEW w \in Pids \cup {None}
    PROVE  /\ Job(s, p, w) \in Jobs
           /\ Job(s, p, w).sid = s /\ Job(s, p, w).pid = p /\ Job(s, p, w).was = w
BY Zenon DEF Job, Jobs

LEMMA JobParts ==
    \A s, p, w : Job(s, p, w).sid = s /\ Job(s, p, w).pid = p /\ Job(s, p, w).was = w
BY Zenon DEF Job

LEMMA BlankFacts == Blank \in Jobs
BY Zenon DEF Blank, Job, Jobs

LEMMA JobFields ==
    ASSUME NEW j \in Jobs
    PROVE  j.sid \in Streams \cup {None} /\ j.pid \in Pids \cup {None} /\ j.was \in Pids \cup {None}
BY Zenon DEF Jobs

LEMMA RecordFacts ==
    ASSUME NEW s \in Streams, NEW p \in Pids, NEW pp \in ServerPids
    PROVE  /\ Record(s, p, pp) \in Records
           /\ Record(s, p, pp).sid = s /\ Record(s, p, pp).pid = p /\ Record(s, p, pp).ppid = pp
BY Zenon DEF Record, Records

LEMMA RecordFields ==
    ASSUME NEW r \in Records
    PROVE  r.sid \in Streams /\ r.pid \in Pids /\ r.ppid \in ServerPids
BY Zenon DEF Records

LEMMA TypeInit == Init => TypeOK
<1> SUFFICES ASSUME Init
             PROVE  TypeOK
    BY Zenon
<1>1. os \in [Pids -> OsStates] /\ rec \in [Pids -> Streams \cup {None}]
    BY Zenon DEF Init, OsStates
<1>2. pc \in [Frames -> PCs] /\ cur \in [Frames -> Jobs]
    BY Zenon, BlankFacts DEF Init, PCs
<1>3. q \in Seq(Streams) /\ left \in [Events -> Nat]
    BY ConstantsAssumption DEF Init
<1> QED
    BY Zenon, <1>1, <1>2, <1>3 DEF Init, TypeOK

(* Every step keeps the types, given what the frames hold. *)
LEMMA TypeStep == TypeOK /\ Shape /\ [Next]_vars => TypeOK'
<1> SUFFICES ASSUME TypeOK, Shape, [Next]_vars
             PROVE  TypeOK'
    BY Zenon
<1> USE FrameFacts
<1>r. ASSUME NEW r \in db
      PROVE  r.sid \in Streams /\ r.pid \in Pids /\ r.ppid \in ServerPids
    BY Zenon, RecordFields DEF TypeOK
<1>1. ASSUME NEW s \in Streams, start_record(s)
      PROVE  TypeOK'
    BY <1>1 DEF start_record, put_data, TypeOK, Spend, Events
<1>2. ASSUME NEW s \in Streams, get_process_info(s)
      PROVE  TypeOK'
    <2>0. \A r \in BySid(s) : Job(s, r.pid, r.pid) \in Jobs
        BY Zenon, <1>r, JobFacts DEF BySid
    <2>1. cur' \in [Frames -> Jobs]
        BY Zenon, <1>2, <2>0 DEF get_process_info, TypeOK
    <2>2. pc' \in [Frames -> PCs] /\ left' \in [Events -> Nat]
        BY <1>2 DEF get_process_info, TypeOK, Goto, Spend, Events, PCs
    <2> QED
        BY Zenon, <1>2, <2>1, <2>2 DEF get_process_info, TypeOK
<1>3. CASE remove_process_by_stream
    BY <1>3, AtFacts DEF remove_process_by_stream, TypeOK, Shape, FrameShape, Holds, Goto, Lapse, If, One, BySid, PCs, LapseKinds
<1>4. CASE kill_process
    BY <1>4, AtFacts, BlankFacts DEF kill_process, TypeOK, Shape, FrameShape, Holds, Goto, PCs
<1>5. CASE process_queue
    <2>1. Head(q) \in Streams
        BY <1>5 DEF process_queue, TypeOK
    <2>2. cur' \in [Frames -> Jobs]
        BY Zenon, <1>5, <2>1, JobFacts DEF process_queue, TypeOK
    <2>3. pc' \in [Frames -> PCs]
        BY Zenon, <1>5 DEF process_queue, TypeOK, Goto, PCs
    <2>4. lapsed' \subseteq LapseKinds \X Streams
        BY <1>5, <2>1 DEF process_queue, TypeOK, Lapse, If, LapseKinds
    <2> QED
        BY Zenon, <1>5, <2>2, <2>3, <2>4 DEF process_queue, TypeOK
<1>6. CASE spawn_process
    <2>1. cur[Queue].sid \in Streams
        BY <1>6, AtFacts DEF spawn_process, Shape, FrameShape, Holds
    <2>0. \A p \in Pids : Job(cur[Queue].sid, p, None) \in Jobs
        BY Zenon, <2>1, JobFacts
    <2>2. cur' \in [Frames -> Jobs]
        BY Zenon, <1>6, <2>0 DEF spawn_process, TypeOK
    <2>3. pc' \in [Frames -> PCs] /\ lapsed' \subseteq LapseKinds \X Streams
        BY <1>6, <2>1 DEF spawn_process, TypeOK, Goto, PCs, Lapse, LapseKinds
    <2>4. os' \in [Pids -> OsStates] /\ rec' \in [Pids -> Streams \cup {None}]
        BY Zenon, <1>6, <2>1 DEF spawn_process, TypeOK, Forked, OsStates
    <2> QED
        BY Zenon, <1>6, <2>2, <2>3, <2>4 DEF spawn_process, TypeOK
<1>7. CASE add_process_to_cache
    <2>1. cur[Queue].sid \in Streams /\ cur[Queue].pid \in Pids /\ self \in ServerPids
        BY Zenon, <1>7, AtFacts DEF add_process_to_cache, Shape, FrameShape, Holds, TypeOK
    <2>2. db' \subseteq Records
        BY <1>7, <2>1, RecordFacts DEF add_process_to_cache, TypeOK
    <2>3. pc' \in [Frames -> PCs] /\ lapsed' \subseteq LapseKinds \X Streams
        BY <1>7, <2>1 DEF add_process_to_cache, TypeOK, Goto, PCs, Lapse, If, LapseKinds
    <2> QED
        BY Zenon, <1>7, <2>2, <2>3 DEF add_process_to_cache, TypeOK
<1>8. CASE queue_pop
    <2>1. q # <<>>
        BY <1>8, AtFacts DEF queue_pop, Shape, FrameShape, Holds
    <2>2. q' \in Seq(Streams)
        <3>1. Tail(q) \in Seq(Streams) /\ <<>> \in Seq(Streams)
            BY <2>1 DEF TypeOK
        <3> QED
            BY Zenon, <1>8, <3>1 DEF queue_pop
    <2>3. pc' \in [Frames -> PCs] /\ cur' \in [Frames -> Jobs]
        BY Zenon, <1>8, BlankFacts DEF queue_pop, TypeOK, Goto, PCs
    <2>4. \A i \in 2 .. Len(q) : q[i] \in Streams
        BY DEF TypeOK
    <2>5. lapsed' \subseteq LapseKinds \X Streams
        BY <1>8, <2>4 DEF queue_pop, TypeOK, Lapse, LapseKinds
    <2> QED
        BY Zenon, <1>8, <2>2, <2>3, <2>5 DEF queue_pop, TypeOK
<1>9. ASSUME NEW t \in Threads, sig_deliver(t)
      PROVE  TypeOK'
    BY Zenon, <1>9 DEF sig_deliver, TypeOK, Goto, PCs
<1>10. ASSUME NEW t \in Threads, sig_reap_chld(t)
       PROVE  TypeOK'
    <2>0. \A p \in Pids : Job(None, p, None) \in Jobs
        BY Zenon, JobFacts
    <2>1. cur' \in [Frames -> Jobs]
        BY ZenonT(40), <1>10, <2>0, BlankFacts DEF sig_reap_chld, TypeOK
    <2>2. pc' \in [Frames -> PCs] /\ os' \in [Pids -> OsStates]
        BY Zenon, <1>10 DEF sig_reap_chld, TypeOK, Goto, PCs, OsStates
    <2> QED
        BY Zenon, <1>10, <2>1, <2>2 DEF sig_reap_chld, TypeOK
<1>11. ASSUME NEW f \in Frames, is_process_exist(f)
       PROVE  TypeOK'
    <2>1. cur[f].pid \in Pids
        BY <1>11, AtFacts DEF is_process_exist, Shape, FrameShape, Holds
    <2>0. \A r \in ByPid(cur[f].pid) : Job(r.sid, cur[f].pid, cur[f].pid) \in Jobs
        BY Zenon, <1>r, <2>1, JobFacts DEF ByPid
    <2>2. cur' \in [Frames -> Jobs]
        BY SMTT(30), <1>11, <2>0, BlankFacts DEF is_process_exist, TypeOK
    <2>3. pc' \in [Frames -> PCs]
        BY Zenon, <1>11, ResumeFacts DEF is_process_exist, TypeOK, Goto, PCs
    <2>4. lapsed' \subseteq LapseKinds \X Streams
        BY <1>11, <1>r DEF is_process_exist, TypeOK, Lapse, LapseKinds, ByPid
    <2> QED
        BY Zenon, <1>11, <2>2, <2>3, <2>4 DEF is_process_exist, TypeOK
<1>12. ASSUME NEW f \in Frames, re_create_process(f)
       PROVE  TypeOK'
    <2>1. cur[f].sid \in Streams /\ cur[f].was \in Pids
        BY <1>12, AtFacts DEF re_create_process, Shape, FrameShape, Holds
    <2>0. \A p \in Pids : Job(cur[f].sid, p, cur[f].was) \in Jobs
        BY Zenon, <2>1, JobFacts
    <2>2. cur' \in [Frames -> Jobs]
        BY Zenon, <1>12, <2>0, BlankFacts DEF re_create_process, TypeOK
    <2>3. pc' \in [Frames -> PCs]
        BY Zenon, <1>12, ResumeFacts DEF re_create_process, TypeOK, Goto, PCs
    <2>5. lapsed' \subseteq LapseKinds \X Streams
        BY <1>12, <2>1 DEF re_create_process, TypeOK, Lapse, LapseKinds
    <2>4. os' \in [Pids -> OsStates] /\ rec' \in [Pids -> Streams \cup {None}]
        BY SMTT(30), <1>12, <2>1 DEF re_create_process, TypeOK, Forked, OsStates
    <2> QED
        BY Zenon, <1>12, <2>2, <2>3, <2>4, <2>5 DEF re_create_process, TypeOK
<1>13. ASSUME NEW f \in Frames, update_process_info(f)
       PROVE  TypeOK'
    <2>1. cur[f].sid \in Streams /\ cur[f].pid \in Pids
        BY <1>13, AtFacts DEF update_process_info, Shape, FrameShape, Holds
    <2>2. ASSUME NEW R \in One(BySid(cur[f].sid)), NEW r \in R
          PROVE  r \in db
        BY Zenon, <2>2 DEF One, BySid
    <2>3. db' \subseteq Records
        <3>1. \A r \in db : Record(cur[f].sid, cur[f].pid, r.ppid) \in Records
            BY Zenon, <1>r, <2>1, RecordFacts
        <3>2. ASSUME NEW R \in One(BySid(cur[f].sid)),
                     db' = (db \ R) \cup {Record(cur[f].sid, cur[f].pid, r.ppid) : r \in R}
              PROVE  db' \subseteq Records
            BY Zenon, <2>2, <3>1, <3>2 DEF TypeOK
        <3>3. CASE UNCHANGED db
            BY Zenon, <3>3 DEF TypeOK
        <3> QED
            BY Zenon, <1>13, <3>2, <3>3 DEF update_process_info
    <2>4. pc' \in [Frames -> PCs] /\ cur' \in [Frames -> Jobs]
        BY Zenon, <1>13, ResumeFacts, BlankFacts DEF update_process_info, TypeOK, Goto, PCs
    <2>5. lapsed' \subseteq LapseKinds \X Streams
        BY <1>13, <2>1 DEF update_process_info, TypeOK, Lapse, If, LapseKinds
    <2> QED
        BY Zenon, <1>13, <2>3, <2>4, <2>5 DEF update_process_info, TypeOK
<1>14. CASE find_orphan_process
    <2>1. todo' \subseteq Pids
        BY Zenon, <1>14, <1>r DEF find_orphan_process
    <2>2. pc' \in [Frames -> PCs]
        BY Zenon, <1>14 DEF find_orphan_process, TypeOK, Goto, PCs
    <2> QED
        BY Zenon, <1>14, <2>1, <2>2 DEF find_orphan_process, TypeOK
<1>15. CASE orphan_process_sync
    <2>0. \A p \in Pids : Job(None, p, None) \in Jobs
        BY Zenon, JobFacts
    <2>1. cur' \in [Frames -> Jobs] /\ todo' \subseteq Pids
        BY Zenon, <1>15, <2>0 DEF orphan_process_sync, TypeOK
    <2>2. pc' \in [Frames -> PCs]
        BY Zenon, <1>15 DEF orphan_process_sync, TypeOK, Goto, PCs
    <2> QED
        BY Zenon, <1>15, <2>1, <2>2 DEF orphan_process_sync, TypeOK
<1>16. ASSUME NEW p \in Pids, recorder_exit(p)
       PROVE  TypeOK'
    BY <1>16 DEF recorder_exit, TypeOK, Spend, Events, OsStates
<1>17. CASE crash
    <2>1. os' \in [Pids -> OsStates]
        BY Zenon, <1>17 DEF crash, TypeOK, OsStates
    <2>2. pc' \in [Frames -> PCs] /\ cur' \in [Frames -> Jobs]
        BY Zenon, <1>17, BlankFacts DEF crash, PCs
    <2>3. \A i \in DOMAIN q : q[i] \in Streams
        BY SMTT(30) DEF TypeOK
    <2>4. \A f \in Frames : pc[f] \in {"insert", "update", "kill"} => cur[f].sid \in Streams
        BY Zenon DEF Shape, FrameShape, Holds
    <2>5. lapsed' \subseteq LapseKinds \X Streams
        BY SMTT(30), <1>17, <2>3, <2>4 DEF crash, TypeOK, Lapse, LapseKinds
    <2>6. left' \in [Events -> Nat] /\ q' \in Seq(Streams)
        BY SMTT(30), <1>17 DEF crash, TypeOK, Spend, Events
    <2> QED
        BY Zenon, <1>17, <2>1, <2>2, <2>5, <2>6 DEF crash, TypeOK
<1>18. ASSUME NEW p \in ServerPids, initialize(p)
       PROVE  TypeOK'
    BY SMTT(30), <1>18, <1>r DEF initialize, TypeOK, Lapse, LapseKinds
<1>19. CASE UNCHANGED vars
    BY Zenon, <1>19 DEF vars, TypeOK
<1> QED
    BY Zenon, <1>1, <1>2, <1>3, <1>4, <1>5, <1>6, <1>7, <1>8, <1>9, <1>10, <1>11, <1>12,
       <1>13, <1>14, <1>15, <1>16, <1>17, <1>18, <1>19
    DEF Next, stop_record, HttpStep, QueueStep, MonitorStep, SigStep, Reload

-----------------------------------------------------------------------------
(* Processes only grow older: what was forked stays forked for its stream, *)
(* what was reaped stays reaped, and only a crash makes an orphan.         *)
Ages ==
    \A p \in Pids : os[p] # "unused" =>
        /\ os'[p] # "unused"
        /\ rec'[p] = rec[p]
        /\ os[p] = "gone" => os'[p] = "gone"
        /\ os[p] # "orphan" => os'[p] # "orphan"

LEMMA AgesStep ==
    ASSUME TypeOK, [Next]_vars
    PROVE  Ages \/ crash
<1>1. CASE UNCHANGED <<os, rec>>
    BY Zenon, <1>1 DEF Ages
<1>2. CASE spawn_process
    BY Zenon, <1>2 DEF spawn_process, Forked, Ages, TypeOK
<1>3. ASSUME NEW t \in Threads, sig_reap_chld(t)
      PROVE  Ages
    BY Zenon, <1>3 DEF sig_reap_chld, Ages, TypeOK
<1>4. ASSUME NEW f \in Frames, re_create_process(f)
      PROVE  Ages
    BY Zenon, <1>4 DEF re_create_process, Forked, Ages, TypeOK
<1>5. ASSUME NEW p \in Pids, recorder_exit(p)
      PROVE  Ages
    BY Zenon, <1>5 DEF recorder_exit, Live, Ages, TypeOK
<1> QED
    BY Zenon, <1>1, <1>2, <1>3, <1>4, <1>5, FrameFacts
    DEF Next, stop_record, HttpStep, QueueStep, MonitorStep, SigStep, Reload, vars,
        start_record, get_process_info, remove_process_by_stream, kill_process,
        process_queue, add_process_to_cache, queue_pop, sig_deliver,
        is_process_exist, update_process_info, find_orphan_process,
        orphan_process_sync, initialize

(* A step of one frame leaves what the others hold as it was. *)
LEMMA OtherFrames ==
    ASSUME TypeOK, FrameShape, Ages, NEW f \in Frames, Holds(f)',
           \A g \in Frames \ {f} : pc'[g] = pc[g] /\ cur'[g] = cur[g]
    PROVE  \A g \in Frames : Holds(g)'
<1> SUFFICES ASSUME NEW g \in Frames \ {f}
             PROVE  Holds(g)'
    BY Zenon
<1> QED
    BY SMTT(30) DEF FrameShape, Holds, Ages

LEMMA SameFrames ==
    ASSUME TypeOK, FrameShape, Ages, UNCHANGED <<pc, cur>>
    PROVE  \A g \in Frames : Holds(g)'
BY Zenon DEF FrameShape, Holds, Ages

(* Everything known by pid stays known. *)
LEMMA StillKnown ==
    ASSUME TypeOK, KnownForked, RecordNamesItsRecorder, Ages,
           todo' \subseteq todo, intr' \subseteq intr, db' \subseteq db
    PROVE  KnownForked' /\ RecordNamesItsRecorder'
<1>1. \A r \in db : r.pid \in Pids
    BY Zenon, RecordFields DEF TypeOK
<1> QED
    BY Zenon, <1>1 DEF KnownForked, RecordNamesItsRecorder, Ages, TypeOK

(* The database's records, as the frames find them. *)
LEMMA RecordShape ==
    ASSUME TypeOK, Shape
    PROVE  \A r \in db : r.sid \in Streams /\ r.pid \in Pids /\ os[r.pid] # "unused" /\ rec[r.pid] = r.sid
BY Zenon, RecordFields DEF TypeOK, Shape, KnownForked, RecordNamesItsRecorder

(* One step of each kind keeps what the frames hold. *)
LEMMA ShapeGet ==
    ASSUME TypeOK, Shape, Ages, NEW s \in Streams, get_process_info(s)
    PROVE  Shape'
<1> USE FrameFacts
<1>1. Holds(Http)'
    <2>1. \A r \in BySid(s) : /\ Job(s, r.pid, r.pid).sid = s
                              /\ Job(s, r.pid, r.pid).pid = r.pid
                              /\ Job(s, r.pid, r.pid).was = r.pid
        BY SMTT(30), RecordShape, JobFacts DEF BySid
    <2>2. CASE UNCHANGED <<pc, cur>>
        <3>1. pc[Http] = "idle"
            BY Zenon, AtFacts DEF get_process_info
        <3> QED BY Zenon, <2>2, <3>1 DEF Holds
    <2>3. ASSUME NEW r \in BySid(s), cur' = [cur EXCEPT ![Http] = Job(s, r.pid, r.pid)], Goto(Http, "remove")
          PROVE  Holds(Http)'
        <3>1. r \in db /\ r.sid = s /\ UNCHANGED <<os, rec>>
            BY Zenon DEF BySid, get_process_info
        <3>2. pc'[Http] = "remove" /\ cur'[Http] = Job(s, r.pid, r.pid)
            BY Zenon, <2>3 DEF Goto, TypeOK
        <3>3. r.pid \in Pids /\ os[r.pid] # "unused" /\ rec[r.pid] = s
            BY Zenon, <3>1, RecordShape
        <3> QED BY SMTT(30), <2>1, <3>1, <3>2, <3>3 DEF Holds
    <2> QED BY Zenon, <2>2, <2>3 DEF get_process_info
<1>2. \A g \in Frames \ {Http} : pc'[g] = pc[g] /\ cur'[g] = cur[g]
    BY Zenon DEF get_process_info, Goto, TypeOK
<1> QED
    BY Zenon, StillKnown, OtherFrames, <1>1, <1>2 DEF get_process_info, Shape, FrameShape

LEMMA ShapeRemove ==
    ASSUME TypeOK, Shape, Ages, remove_process_by_stream
    PROVE  Shape'
<1> USE FrameFacts
<1>1. Holds(Http)'
    BY SMTT(30), AtFacts DEF remove_process_by_stream, TypeOK, Shape, FrameShape, Holds, Goto
<1>2. \A g \in Frames \ {Http} : pc'[g] = pc[g] /\ cur'[g] = cur[g]
    BY Zenon DEF remove_process_by_stream, Goto, TypeOK
<1>3. db' \subseteq db
    BY Zenon DEF remove_process_by_stream
<1> QED
    BY Zenon, StillKnown, OtherFrames, <1>1, <1>2, <1>3 DEF remove_process_by_stream, Shape, FrameShape

LEMMA ShapeKill ==
    ASSUME TypeOK, Shape, Ages, kill_process
    PROVE  Shape'
<1> USE FrameFacts
<1>1. Holds(Http)'
    BY Zenon DEF kill_process, TypeOK, Holds, Goto
<1>2. \A g \in Frames \ {Http} : pc'[g] = pc[g] /\ cur'[g] = cur[g]
    BY Zenon DEF kill_process, Goto, TypeOK
<1>3. KnownForked' /\ RecordNamesItsRecorder'
    BY SMTT(30), AtFacts DEF kill_process, Shape, FrameShape, Holds, KnownForked, RecordNamesItsRecorder
<1> QED
    BY Zenon, OtherFrames, <1>1, <1>2, <1>3 DEF kill_process, Shape, FrameShape

LEMMA ShapeQueue ==
    ASSUME TypeOK, Shape, Ages, process_queue
    PROVE  Shape'
<1> USE FrameFacts
<1>1. Holds(Queue)'
    <2>1. Head(q) \in Streams
        BY SMTT(30) DEF process_queue, TypeOK
    <2>2. Job(Head(q), None, None).sid = Head(q)
        BY Zenon, JobParts
    <2> QED
        BY Zenon, <2>1, <2>2 DEF process_queue, TypeOK, Holds, Goto
<1>2. \A g \in Frames \ {Queue} : pc'[g] = pc[g] /\ cur'[g] = cur[g]
    BY Zenon DEF process_queue, Goto, TypeOK
<1> QED
    BY Zenon, StillKnown, OtherFrames, <1>1, <1>2 DEF process_queue, Shape, FrameShape

LEMMA ShapeSpawn ==
    ASSUME TypeOK, Shape, Ages, spawn_process
    PROVE  Shape'
<1> USE FrameFacts
<1>1. Holds(Queue)'
    <2>1. cur[Queue].sid \in Streams
        BY SMTT(30), AtFacts DEF spawn_process, Shape, FrameShape, Holds
    <2>2. \A p \in Pids : /\ Job(cur[Queue].sid, p, None).sid = cur[Queue].sid
                          /\ Job(cur[Queue].sid, p, None).pid = p
        BY SMTT(30), <2>1, JobFacts
    <2> QED
        BY SMTT(30), <2>1, <2>2 DEF spawn_process, TypeOK, Holds, Goto, Forked
<1>2. \A g \in Frames \ {Queue} : pc'[g] = pc[g] /\ cur'[g] = cur[g]
    BY Zenon DEF spawn_process, Goto, TypeOK
<1> QED
    BY SMTT(30), StillKnown, OtherFrames, <1>1, <1>2, AtFacts DEF spawn_process, Shape, FrameShape

LEMMA ShapeInsert ==
    ASSUME TypeOK, Shape, Ages, add_process_to_cache
    PROVE  Shape'
<1> USE FrameFacts
<1>1. Holds(Queue)'
    BY Zenon DEF add_process_to_cache, TypeOK, Holds, Goto
<1>2. \A g \in Frames \ {Queue} : pc'[g] = pc[g] /\ cur'[g] = cur[g]
    BY Zenon DEF add_process_to_cache, Goto, TypeOK
<1>3. KnownForked' /\ RecordNamesItsRecorder'
    <2>1. cur[Queue].sid \in Streams /\ cur[Queue].pid \in Pids /\ self \in ServerPids
        BY Zenon, AtFacts DEF add_process_to_cache, Shape, FrameShape, Holds, TypeOK
    <2>2. /\ Record(cur[Queue].sid, cur[Queue].pid, self).pid = cur[Queue].pid
          /\ Record(cur[Queue].sid, cur[Queue].pid, self).sid = cur[Queue].sid
        BY SMTT(30), <2>1, RecordFacts
    <2>3. os[cur[Queue].pid] # "unused" /\ rec[cur[Queue].pid] = cur[Queue].sid
        BY SMTT(30), AtFacts DEF add_process_to_cache, Shape, FrameShape, Holds
    <2> QED
        BY Zenon, <2>2, <2>3 DEF add_process_to_cache, Shape, KnownForked, RecordNamesItsRecorder
<1> QED
    BY SMTT(30), OtherFrames, <1>1, <1>2, <1>3, AtFacts DEF add_process_to_cache, Shape, FrameShape

LEMMA ShapePop ==
    ASSUME TypeOK, Shape, Ages, queue_pop
    PROVE  Shape'
<1> USE FrameFacts
<1>1. Holds(Queue)' /\ pc'[Queue] = "idle"
    BY Zenon DEF queue_pop, TypeOK, Holds, Goto
<1>2. \A g \in Frames \ {Queue} : pc'[g] = pc[g] /\ cur'[g] = cur[g]
    BY Zenon DEF queue_pop, Goto, TypeOK
<1> QED
    BY Zenon, StillKnown, OtherFrames, <1>1, <1>2 DEF queue_pop, Shape, FrameShape

LEMMA ShapeDeliver ==
    ASSUME TypeOK, Shape, Ages, NEW t \in Threads, sig_deliver(t)
    PROVE  Shape'
<1> USE FrameFacts
<1>1. Holds(Sig(t))'
    BY Zenon DEF sig_deliver, TypeOK, Holds, Goto
<1>2. \A g \in Frames \ {Sig(t)} : pc'[g] = pc[g] /\ cur'[g] = cur[g]
    BY Zenon DEF sig_deliver, Goto, TypeOK
<1> QED
    BY Zenon, StillKnown, OtherFrames, <1>1, <1>2 DEF sig_deliver, Shape, FrameShape

LEMMA ShapeReap ==
    ASSUME TypeOK, Shape, Ages, NEW t \in Threads, sig_reap_chld(t)
    PROVE  Shape'
<1> USE FrameFacts
<1>1. Holds(Sig(t))'
    <2>1. \A p \in Pids : Job(None, p, None).pid = p
        BY SMTT(30), JobParts
    <2> QED
        BY SMTT(30), <2>1 DEF sig_reap_chld, TypeOK, Holds, Goto
<1>2. \A g \in Frames \ {Sig(t)} : pc'[g] = pc[g] /\ cur'[g] = cur[g]
    BY Zenon DEF sig_reap_chld, Goto, TypeOK
<1> QED
    BY Zenon, StillKnown, OtherFrames, <1>1, <1>2 DEF sig_reap_chld, Shape, FrameShape

LEMMA ShapeLook ==
    ASSUME TypeOK, Shape, Ages, NEW f \in Frames, is_process_exist(f)
    PROVE  Shape'
<1> USE FrameFacts
<1>1. Holds(f)'
    <2>1. cur[f].pid \in Pids /\ os[cur[f].pid] = "gone"
        BY SMTT(30), AtFacts DEF is_process_exist, Shape, FrameShape, Holds
    <2>2. \A r \in ByPid(cur[f].pid) :
              /\ Job(r.sid, cur[f].pid, cur[f].pid).sid = r.sid
              /\ Job(r.sid, cur[f].pid, cur[f].pid).was = cur[f].pid
        BY SMTT(30), RecordShape, <2>1, JobFacts DEF ByPid
    <2>3. ASSUME NEW r \in ByPid(cur[f].pid), Goto(f, "fork"),
                 cur' = [cur EXCEPT ![f] = Job(r.sid, cur[f].pid, cur[f].pid)]
          PROVE  Holds(f)'
        <3>1. r \in db /\ r.pid = cur[f].pid
            BY Zenon DEF ByPid
        <3>2. /\ pc'[f] = "fork" /\ cur'[f].sid = r.sid /\ cur'[f].was = cur[f].pid
              /\ os' = os /\ rec' = rec
            BY Zenon, <2>2, <2>3 DEF Goto, TypeOK, is_process_exist
        <3> QED
            BY Zenon, RecordShape, <2>1, <3>1, <3>2 DEF Holds
    <2>4. CASE Goto(f, Resume(f))
        BY Zenon, <2>4, ResumeFacts DEF Goto, TypeOK, Holds
    <2> QED
        BY Zenon, <2>3, <2>4 DEF is_process_exist
<1>2. \A g \in Frames \ {f} : pc'[g] = pc[g] /\ cur'[g] = cur[g]
    BY Zenon DEF is_process_exist, Goto, TypeOK
<1> QED
    BY SMTT(30), StillKnown, OtherFrames, <1>1, <1>2, AtFacts DEF is_process_exist, Shape, FrameShape

LEMMA ShapeFork ==
    ASSUME TypeOK, Shape, Ages, NEW f \in Frames, re_create_process(f)
    PROVE  Shape'
<1> USE FrameFacts
<1>1. Holds(f)'
    <2>1. /\ cur[f].sid \in Streams /\ cur[f].was \in Pids
          /\ os[cur[f].was] = "gone" /\ rec[cur[f].was] = cur[f].sid
        BY SMTT(30), AtFacts DEF re_create_process, Shape, FrameShape, Holds
    <2>2. \A p \in Pids : /\ Job(cur[f].sid, p, cur[f].was).sid = cur[f].sid
                          /\ Job(cur[f].sid, p, cur[f].was).pid = p
                          /\ Job(cur[f].sid, p, cur[f].was).was = cur[f].was
        BY SMTT(30), <2>1, JobFacts
    <2> QED
        BY SMTT(30), <2>1, <2>2, ResumeFacts DEF re_create_process, TypeOK, Holds, Goto, Forked
<1>2. \A g \in Frames \ {f} : pc'[g] = pc[g] /\ cur'[g] = cur[g]
    BY Zenon DEF re_create_process, Goto, TypeOK
<1> QED
    BY Zenon, StillKnown, OtherFrames, <1>1, <1>2, AtFacts DEF re_create_process, Shape, FrameShape

LEMMA ShapeUpdate ==
    ASSUME TypeOK, Shape, Ages, NEW f \in Frames, update_process_info(f)
    PROVE  Shape'
<1> USE FrameFacts
<1>1. Holds(f)'
    BY ZenonT(40), ResumeFacts DEF update_process_info, TypeOK, Holds, Goto
<1>2. \A g \in Frames \ {f} : pc'[g] = pc[g] /\ cur'[g] = cur[g]
    BY Zenon DEF update_process_info, Goto, TypeOK
<1>3. KnownForked' /\ RecordNamesItsRecorder'
    <2>1. /\ cur[f].sid \in Streams /\ cur[f].pid \in Pids
          /\ os[cur[f].pid] # "unused" /\ rec[cur[f].pid] = cur[f].sid
        BY SMTT(30), AtFacts DEF update_process_info, Shape, FrameShape, Holds
    <2>2. \A r \in db : /\ Record(cur[f].sid, cur[f].pid, r.ppid).pid = cur[f].pid
                        /\ Record(cur[f].sid, cur[f].pid, r.ppid).sid = cur[f].sid
        BY SMTT(30), <2>1, RecordFacts, RecordFields DEF TypeOK
    <2>3. ASSUME NEW R \in One(BySid(cur[f].sid)),
                 db' = (db \ R) \cup {Record(cur[f].sid, cur[f].pid, r.ppid) : r \in R}
          PROVE  KnownForked' /\ RecordNamesItsRecorder'
        <3>1. R \subseteq db
            BY Zenon DEF One, BySid
        <3> QED
            BY SMTT(30), <2>1, <2>2, <2>3, <3>1 DEF update_process_info, Shape, KnownForked, RecordNamesItsRecorder
    <2>4. CASE UNCHANGED db
        BY Zenon, StillKnown, <2>4 DEF update_process_info, Shape
    <2> QED
        BY ZenonT(40), <2>3, <2>4 DEF update_process_info
<1> QED
    BY Zenon, OtherFrames, <1>1, <1>2, <1>3, AtFacts DEF update_process_info, Shape, FrameShape

LEMMA ShapeFind ==
    ASSUME TypeOK, Shape, Ages, find_orphan_process
    PROVE  Shape'
<1> USE FrameFacts
<1>1. Holds(Monitor)'
    BY Zenon DEF find_orphan_process, TypeOK, Holds, Goto
<1>2. \A g \in Frames \ {Monitor} : pc'[g] = pc[g] /\ cur'[g] = cur[g]
    BY Zenon DEF find_orphan_process, Goto, TypeOK
<1>3. KnownForked' /\ RecordNamesItsRecorder'
    BY Zenon, RecordShape DEF find_orphan_process, Shape, KnownForked, RecordNamesItsRecorder
<1> QED
    BY Zenon, OtherFrames, <1>1, <1>2, <1>3 DEF find_orphan_process, Shape, FrameShape

LEMMA ShapeCheck ==
    ASSUME TypeOK, Shape, Ages, orphan_process_sync
    PROVE  Shape'
<1> USE FrameFacts
<1>1. Holds(Monitor)'
    <2>1. \A p \in todo : p \in Pids /\ os[p] \in OsStates \ {"unused"} /\ Job(None, p, None).pid = p
        BY SMTT(30), JobParts DEF TypeOK, Shape, KnownForked
    <2> QED
        BY SMTT(30), <2>1, AtFacts
        DEF orphan_process_sync, check_system_process_exist, Live, TypeOK, Holds, Goto, OsStates
<1>2. \A g \in Frames \ {Monitor} : pc'[g] = pc[g] /\ cur'[g] = cur[g]
    BY Zenon DEF orphan_process_sync, Goto, TypeOK
<1>3. todo' \subseteq todo
    BY Zenon DEF orphan_process_sync
<1> QED
    BY SMTT(30), StillKnown, OtherFrames, <1>1, <1>2, <1>3 DEF orphan_process_sync, Shape, FrameShape

(* What the frames hold, and what is known by pid, survives every step. *)
LEMMA ShapeStep == TypeOK /\ Shape /\ [Next]_vars => Shape'
<1> SUFFICES ASSUME TypeOK, Shape, [Next]_vars
             PROVE  Shape'
    BY Zenon
<1> USE FrameFacts
<1>1. CASE crash
    <2>1. FrameShape'
        BY Zenon, <1>1 DEF crash, FrameShape, Holds
    <2>2. KnownForked' /\ RecordNamesItsRecorder'
        BY Zenon, <1>1, RecordShape DEF crash, Shape, KnownForked, RecordNamesItsRecorder, TypeOK
    <2> QED
        BY Zenon, <2>1, <2>2 DEF Shape
<1>2. ASSUME Ages, NEW s \in Streams, start_record(s)
      PROVE  Shape'
    <2>1. q' # <<>>
        BY SMTT(30), <1>2 DEF start_record, put_data, TypeOK
    <2> QED
        BY Zenon, <1>2, <2>1, StillKnown, SameFrames DEF start_record, put_data, Shape, FrameShape
<1>3. ASSUME Ages, NEW p \in Pids, recorder_exit(p)
      PROVE  Shape'
    BY SMTT(30), <1>3, StillKnown, SameFrames DEF recorder_exit, Shape, FrameShape
<1>4. ASSUME Ages, NEW p \in ServerPids, initialize(p)
      PROVE  Shape'
    BY Zenon, <1>4, StillKnown, SameFrames DEF initialize, Shape, FrameShape
<1>5. CASE UNCHANGED vars
    BY Zenon, <1>5 DEF vars, Shape, FrameShape, Holds, KnownForked, RecordNamesItsRecorder
<1> QED
    BY Zenon, <1>1, <1>2, <1>3, <1>4, <1>5, AgesStep,
       ShapeGet, ShapeRemove, ShapeKill, ShapeQueue, ShapeSpawn, ShapeInsert, ShapePop,
       ShapeDeliver, ShapeReap, ShapeLook, ShapeFork, ShapeUpdate, ShapeFind, ShapeCheck
    DEF Next, stop_record, HttpStep, QueueStep, MonitorStep, SigStep, Reload

-----------------------------------------------------------------------------
(* Fresh pids stay fresh when no frame takes up a pid, none is signalled   *)
(* and none is written.                                                    *)
LEMMA FreshKept ==
    ASSUME Fresh, intr' \subseteq intr,
           \A r \in db' : \E x \in db : r.pid = x.pid,
           \A f \in Frames :
              /\ pc'[f] \in {"insert", "update"} => pc[f] \in {"insert", "update"}
              /\ pc'[f] \in {"remove", "kill", "insert", "update"} =>
                    /\ pc[f] \in {"remove", "kill", "insert", "update"}
                    /\ cur'[f].pid = cur[f].pid
    PROVE  Fresh'
<1> SUFFICES ASSUME NEW f \in Frames, pc'[f] \in {"insert", "update"}
             PROVE  /\ cur'[f].pid \notin intr'
                    /\ \A r \in db' : r.pid # cur'[f].pid
                    /\ \A g \in Frames \ {f} :
                          pc'[g] \in {"remove", "kill", "insert", "update"} => cur'[g].pid # cur'[f].pid
    BY Zenon DEF Fresh
<1>1. pc[f] \in {"insert", "update"} /\ cur'[f].pid = cur[f].pid
    BY Zenon
<1> QED
    BY SMTT(30), <1>1 DEF Fresh

(* A pid that fork returns is known to nobody yet. *)
LEMMA FreshForked ==
    ASSUME TypeOK, Shape, Fresh, NEW f \in Frames, NEW p \in Pids, os[p] = "unused",
           UNCHANGED <<intr, db>>,
           pc'[f] \in {"insert", "update"}, cur'[f].pid = p,
           \A g \in Frames \ {f} : pc'[g] = pc[g] /\ cur'[g] = cur[g]
    PROVE  Fresh'
<1>1. p \notin intr /\ \A r \in db : r.pid # p
    BY Zenon DEF Shape, KnownForked
<1>2. \A g \in Frames : pc[g] \in {"remove", "kill", "insert", "update"} => cur[g].pid # p
    BY Zenon DEF Shape, FrameShape, Holds
<1> SUFFICES ASSUME NEW h \in Frames, pc'[h] \in {"insert", "update"}
             PROVE  /\ cur'[h].pid \notin intr'
                    /\ \A r \in db' : r.pid # cur'[h].pid
                    /\ \A g \in Frames \ {h} :
                          pc'[g] \in {"remove", "kill", "insert", "update"} => cur'[g].pid # cur'[h].pid
    BY Zenon DEF Fresh
<1>3. CASE h = f
    BY Zenon, <1>1, <1>2, <1>3
<1>4. CASE h # f
    BY SMTT(30), <1>2, <1>4 DEF Fresh
<1> QED
    BY Zenon, <1>3, <1>4

(* Writing a fresh pid makes it known to the database and to no frame. *)
LEMMA FreshWritten ==
    ASSUME Fresh, NEW f \in Frames, pc[f] \in {"insert", "update"}, UNCHANGED intr,
           \A r \in db' : r.pid = cur[f].pid \/ \E x \in db : r.pid = x.pid,
           pc'[f] \notin {"remove", "kill", "insert", "update"},
           \A g \in Frames \ {f} : pc'[g] = pc[g] /\ cur'[g] = cur[g]
    PROVE  Fresh'
<1> SUFFICES ASSUME NEW h \in Frames \ {f}, pc[h] \in {"insert", "update"}
             PROVE  /\ cur[h].pid \notin intr
                    /\ \A r \in db' : r.pid # cur[h].pid
                    /\ \A g \in Frames \ {h} :
                          pc'[g] \in {"remove", "kill", "insert", "update"} => cur'[g].pid # cur[h].pid
    BY SMTT(30) DEF Fresh
<1>1. cur[f].pid # cur[h].pid
    BY Zenon DEF Fresh
<1> QED
    BY SMTT(30), <1>1 DEF Fresh

LEMMA FreshStep == TypeOK /\ Shape /\ Fresh /\ [Next]_vars => Fresh'
<1> SUFFICES ASSUME TypeOK, Shape, Fresh, [Next]_vars
             PROVE  Fresh'
    BY Zenon
<1> USE FrameFacts
<1>1. ASSUME NEW s \in Streams, start_record(s)
      PROVE  Fresh'
    BY Zenon, <1>1, FreshKept DEF start_record, put_data
<1>2. ASSUME NEW s \in Streams, get_process_info(s)
      PROVE  Fresh'
    <2>1. \A g \in Frames \ {Http} : pc'[g] = pc[g] /\ cur'[g] = cur[g]
        BY Zenon, <1>2 DEF get_process_info, Goto, TypeOK
    <2>2. /\ pc'[Http] \in {"idle", "remove"}
          /\ pc'[Http] = "remove" => \E r \in db : cur'[Http].pid = r.pid
        BY SMTT(30), <1>2, AtFacts, JobParts DEF get_process_info, Goto, TypeOK, BySid
    <2> QED
        BY SMTT(30), <1>2, <2>1, <2>2 DEF get_process_info, Fresh
<1>3. CASE remove_process_by_stream
    <2>1. \A g \in Frames : cur'[g] = cur[g] /\ (pc'[g] = pc[g] \/ (pc[g] = "remove" /\ pc'[g] = "kill"))
        BY Zenon, <1>3, AtFacts DEF remove_process_by_stream, Goto, TypeOK
    <2>2. db' \subseteq db
        BY Zenon, <1>3 DEF remove_process_by_stream
    <2> QED
        BY Zenon, <1>3, <2>1, <2>2, FreshKept DEF remove_process_by_stream
<1>4. CASE kill_process
    <2>1. \A g \in Frames \ {Http} : pc'[g] = pc[g] /\ cur'[g] = cur[g]
        BY Zenon, <1>4 DEF kill_process, Goto, TypeOK
    <2>2. pc[Http] = "kill" /\ pc'[Http] = "idle" /\ intr' \subseteq intr \cup {cur[Http].pid}
        BY Zenon, <1>4, AtFacts DEF kill_process, Goto, TypeOK
    <2> QED
        BY SMTT(30), <1>4, <2>1, <2>2 DEF kill_process, Fresh
<1>5. CASE process_queue \/ queue_pop
    <2>1. \A g \in Frames \ {Queue} : pc'[g] = pc[g] /\ cur'[g] = cur[g]
        BY Zenon, <1>5 DEF process_queue, queue_pop, Goto, TypeOK
    <2>2. pc'[Queue] \in {"spawn", "pop", "idle"} /\ UNCHANGED <<intr, db>>
        BY Zenon, <1>5 DEF process_queue, queue_pop, Goto, TypeOK
    <2> QED
        BY Zenon, <2>1, <2>2, FreshKept
<1>6. CASE spawn_process
    <2>1. \A g \in Frames \ {Queue} : pc'[g] = pc[g] /\ cur'[g] = cur[g]
        BY Zenon, <1>6 DEF spawn_process, Goto, TypeOK
    <2>2. UNCHANGED <<intr, db>>
        BY Zenon, <1>6 DEF spawn_process
    <2>3. \/ pc'[Queue] = "pop"
          \/ \E p \in Pids : os[p] = "unused" /\ pc'[Queue] = "insert" /\ cur'[Queue].pid = p
        BY SMTT(30), <1>6, JobParts DEF spawn_process, Goto, Forked, TypeOK
    <2>4. CASE pc'[Queue] = "pop"
        BY Zenon, <2>1, <2>2, <2>4, FreshKept
    <2> QED
        BY Zenon, <2>1, <2>2, <2>3, <2>4, FreshForked
<1>7. CASE add_process_to_cache
    <2>1. \A g \in Frames \ {Queue} : pc'[g] = pc[g] /\ cur'[g] = cur[g]
        BY Zenon, <1>7 DEF add_process_to_cache, Goto, TypeOK
    <2>2. pc[Queue] = "insert" /\ pc'[Queue] = "pop" /\ UNCHANGED intr
        BY Zenon, <1>7, AtFacts DEF add_process_to_cache, Goto, TypeOK
    <2>3. \A r \in db' : r.pid = cur[Queue].pid \/ r \in db
        BY SMTT(30), <1>7 DEF add_process_to_cache, Record
    <2> QED
        BY Zenon, <2>1, <2>2, <2>3, FreshWritten
<1>8. ASSUME NEW t \in Threads, sig_deliver(t) \/ sig_reap_chld(t)
      PROVE  Fresh'
    <2>1. \A g \in Frames \ {Sig(t)} : pc'[g] = pc[g] /\ cur'[g] = cur[g]
        BY Zenon, <1>8 DEF sig_deliver, sig_reap_chld, Goto, TypeOK
    <2>2. pc'[Sig(t)] \in {"wait", "look", "idle"} /\ UNCHANGED <<intr, db>>
        BY Zenon, <1>8 DEF sig_deliver, sig_reap_chld, Goto, TypeOK
    <2> QED
        BY Zenon, <2>1, <2>2, FreshKept
<1>9. ASSUME NEW f \in Frames, is_process_exist(f)
      PROVE  Fresh'
    <2>1. \A g \in Frames \ {f} : pc'[g] = pc[g] /\ cur'[g] = cur[g]
        BY Zenon, <1>9 DEF is_process_exist, Goto, TypeOK
    <2>2. pc'[f] \in {"fork", "check", "wait"} /\ UNCHANGED <<intr, db>>
        BY Zenon, <1>9, ResumeFacts DEF is_process_exist, Goto, TypeOK
    <2> QED
        BY Zenon, <2>1, <2>2, FreshKept
<1>10. ASSUME NEW f \in Frames, re_create_process(f)
       PROVE  Fresh'
    <2>1. \A g \in Frames \ {f} : pc'[g] = pc[g] /\ cur'[g] = cur[g]
        BY Zenon, <1>10 DEF re_create_process, Goto, TypeOK
    <2>2. UNCHANGED <<intr, db>>
        BY Zenon, <1>10 DEF re_create_process
    <2>3. \/ pc'[f] \in {"check", "wait"}
          \/ \E p \in Pids : os[p] = "unused" /\ pc'[f] = "update" /\ cur'[f].pid = p
        BY SMTT(30), <1>10, ResumeFacts, JobParts DEF re_create_process, Goto, Forked, TypeOK
    <2>4. CASE pc'[f] \in {"check", "wait"}
        BY Zenon, <2>1, <2>2, <2>4, FreshKept
    <2> QED
        BY Zenon, <2>1, <2>2, <2>3, <2>4, FreshForked
<1>11. ASSUME NEW f \in Frames, update_process_info(f)
       PROVE  Fresh'
    <2>1. \A g \in Frames \ {f} : pc'[g] = pc[g] /\ cur'[g] = cur[g]
        BY Zenon, <1>11 DEF update_process_info, Goto, TypeOK
    <2>2. pc[f] = "update" /\ pc'[f] \in {"check", "wait"} /\ UNCHANGED intr
        BY Zenon, <1>11, AtFacts, ResumeFacts DEF update_process_info, Goto, TypeOK
    <2>3. \A r \in db' : r.pid = cur[f].pid \/ r \in db
        <3>1. \A pp : Record(cur[f].sid, cur[f].pid, pp).pid = cur[f].pid
            BY Zenon DEF Record
        <3>2. ASSUME NEW R, db' = (db \ R) \cup {Record(cur[f].sid, cur[f].pid, r.ppid) : r \in R}
              PROVE  \A r \in db' : r.pid = cur[f].pid \/ r \in db
            BY Zenon, <3>1, <3>2
        <3> QED
            BY Zenon, <1>11, <3>2 DEF update_process_info
    <2> QED
        BY Zenon, <2>1, <2>2, <2>3, FreshWritten
<1>12. CASE find_orphan_process \/ orphan_process_sync
    <2>1. \A g \in Frames \ {Monitor} : pc'[g] = pc[g] /\ cur'[g] = cur[g]
        BY Zenon, <1>12 DEF find_orphan_process, orphan_process_sync, Goto, TypeOK
    <2>2. pc'[Monitor] \in {"check", "look", "idle"} /\ UNCHANGED <<intr, db>>
        BY Zenon, <1>12, AtFacts DEF find_orphan_process, orphan_process_sync, Goto, TypeOK
    <2> QED
        BY Zenon, <2>1, <2>2, FreshKept
<1>13. ASSUME NEW p \in Pids, recorder_exit(p)
       PROVE  Fresh'
    BY Zenon, <1>13, FreshKept DEF recorder_exit
<1>14. CASE crash
    BY Zenon, <1>14 DEF crash, Fresh
<1>15. ASSUME NEW p \in ServerPids, initialize(p)
       PROVE  Fresh'
    BY Zenon, <1>15, FreshKept DEF initialize
<1>16. CASE UNCHANGED vars
    BY Zenon, <1>16, FreshKept DEF vars
<1> QED
    BY Zenon, <1>1, <1>2, <1>3, <1>4, <1>5, <1>6, <1>7, <1>8, <1>9, <1>10, <1>11, <1>12,
       <1>13, <1>14, <1>15, <1>16
    DEF Next, stop_record, HttpStep, QueueStep, MonitorStep, SigStep, Reload
=============================================================================
