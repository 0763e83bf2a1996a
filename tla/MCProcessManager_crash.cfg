SPECIFICATION Spec
CONSTANTS
    Streams = {s1}
    Pids = {p1, p2, p3, p4}
    ServerPids = {v1, v2}
    None = None
    Faults = {}
    Budget <- CrashBudget
SYMMETRY PidSymmetry
INVARIANTS
    TypeOK
    DeadRecordPursued
PROPERTIES
    LiveRecordKept
