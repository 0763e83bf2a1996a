SPECIFICATION Spec
CONSTANTS
    Producers = {p1, p2}
    Consumers = {c1}
    Mode = "MULTI"
    Word = 16
    Size = 4
    Extra = 4
    Starts <- Fresh
    MaxTasks = 3
    MaxResize = 0
INVARIANTS TakenOnce
