SPECIFICATION Spec
CONSTANTS
    Producers = {p1}
    Consumers = {c1}
    Mode = "SINGLE"
    Word = 16
    Size = 4
    Extra = 4
    Starts <- Fresh
    MaxTasks = 6
    MaxResize = 1
INVARIANTS ReadIndexReadable
