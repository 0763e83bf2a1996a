SPECIFICATION FairSpec
CONSTANTS
    Producers = {p1, p2, p3}
    Consumers = {c1}
    Mode = "MULTI"
    Word = 8
    Size = 2
    Extra = 2
    Starts <- Last
    MaxTasks = 3
    MaxResize = 1
INVARIANTS ClaimsAccounted NeverOverfull
PROPERTIES EnqueueReturns
