SPECIFICATION FairSpec
CONSTANTS
    Threads = {t1, t2}
    Objs = {o1, o2}
    NULL = null
    GENERIC_HANDLE = 0
    PRIMORDIAL_HANDLE = 3
    objectsLen = 4
INVARIANT TableInv
PROPERTIES
    HandleStable
    DestructEmpties
CHECK_DEADLOCK FALSE
