SPECIFICATION Spec
CONSTANTS
    Producers = {p1}
    Consumers = {c1, c2, c3}
    Mode = "SINGLE"
    Word = 16
    Size = 4
    Extra = 4
    Starts <- NearWrap
    MaxTasks = 6
    MaxResize = 0
PROPERTIES IsFifo RefusalsJustified
SYMMETRY Symmetry
