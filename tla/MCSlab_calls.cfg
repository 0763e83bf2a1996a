SPECIFICATION Spec
CONSTANTS
    Word = 65536
    PoolHead = 32
    MaxPools = 3
    MaxSlots = 4
    Kinds = {"slab", "slab_t", "slab_t0", "slab_pool"}
    Limits <- TwoLimits
    MbSize = 88
    Lengths = {128, 304}
    AlignedSize = 64
    lvl = 1
    Header = 24
    PoolShift = 2
    Requests = {60, 160, 400}
    MaxHeld = 5
    Faults = {"malloc"}
INVARIANTS
    ListsExact
    LimitKept
PROPERTIES
    NullOnlyAtLimit
    GrowsOnlyWhenFull
