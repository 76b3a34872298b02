SPECIFICATION Spec
CONSTANTS
    A = A
    B = B
    Invs = {i1, i2, i3}
    NONE = none
    CLOSED = closed
    MaxDepth = 3
    MaxSpurious = 0
INVARIANTS
    AnsweredByOwnReply
CHECK_DEADLOCK FALSE
