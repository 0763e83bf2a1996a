SPECIFICATION Spec
CONSTANTS
    Streams = {s1}
    Pids = {p1, p2, p3, p4}
    ServerPids = {v1}
    None = None
    Faults = {"dbread", "dbwrite", "fork", "m3u8", "race"}
    Budget <- FaultBudget
SYMMETRY PidSymmetry
INVARIANTS
    UniqueRecord
    NoUntrackedRecorder
    DeadRecordPursued
