SPECIFICATION Spec
CONSTANTS
    SendersA = {"a1", "a2"}
    SendersB = {"b1"}
    Sizes = {1, 3}
    Cap = 3
    MaxPayload = 2
    MaxCloses = 1
    Invs = {"i1", "i2"}
    Works = {"w1", "w2"}
    Fwds = {"f1", "f2"}
    Owner = "owner"
    Workers = {"w1", "w2"}
    Cbos = {"c1"}
    Ptrs = {"p1", "p2"}
    MaxRequests = 2
    MaxCopies = 1
INVARIANTS
    TypeOK
    AnsweredByOwnReply
    
    
    SocketFreedLast
PROPERTY CallsReturn
CHECK_DEADLOCK FALSE
