SPECIFICATION Spec
CONSTANTS
    Works = {w1, w2}
    Fwds = {f1, f2}
    Owner = owner
INVARIANTS
    UsersDoneWhenFreed
CHECK_DEADLOCK FALSE
