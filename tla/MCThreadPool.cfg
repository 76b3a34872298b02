SPECIFICATION FairSpec
CONSTANTS
    Threads = {t1, t2, t3, t4}
    Works = {w1, w2, w3}
    Owner = owner
    NoThread = noThread
    MIN_IDLE = 2
    MAX_THREADS = 3
INVARIANTS
    PoolInv
    NoStrandedWork
PROPERTY PoolGoesOn
CHECK_DEADLOCK FALSE
