SPECIFICATION Spec
CONSTANTS
    Threads = {t1, t2, t3}
    Length = 9
    MbSize = 2
    PoolHead = 1
    Word = 16
SYMMETRY Symmetry
INVARIANTS TypeOK Exclusive NoneLost CountAccurate HeaderComplete NullWhenFull
