SPECIFICATION Spec
CONSTANTS
    Streams = {s1, s2}
    Pids = {p1, p2, p3, p4}
    ServerPids = {v1}
    None = None
    Faults = {}
    Budget <- RaceBudget
SYMMETRY Symmetry
INVARIANTS
    UniqueRecord
    RecordNamesItsRecorder
    NoUntrackedRecorder
    StopSticks
    DeadRecordPursued
PROPERTIES
    LiveRecordKept
