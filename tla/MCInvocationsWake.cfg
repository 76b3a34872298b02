SPECIFICATION FairSpec
CONSTANTS
    A = A
    B = B
    Invs = {i1, i2}
    NONE = none
    CLOSED = closed
    MaxDepth = 2
    MaxSpurious = 1
PROPERTIES
    InvokesReturn
CHECK_DEADLOCK FALSE
