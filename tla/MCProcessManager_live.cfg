SPECIFICATION FairSpec
CONSTANTS
    Streams = {s1}
    Pids = {p1, p2, p3}
    ServerPids = {v1, v2}
    None = None
    Faults = {}
    Budget <- LiveBudget
PROPERTIES
    ZombieReaped
    DeadRecorderReplaced
    StartServed
    OrphanRecovered
