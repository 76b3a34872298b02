SPECIFICATION Spec
CONSTANTS
    Server = server
    Client = client
    ServerObjs = {opener}
    ClientObjs = {c1}
    Opener = opener
    Fwds = {f1, f2, f3}
    Calls = {k1, k2}
    Handles = {0, 1}
    FirstHandle = 0
    NULL = null
    MaxRefs = 2
SYMMETRY Symmetric
INVARIANTS
    HandlesMeant
    WaitingIsServed
PROPERTY ImplementsObjectCalls
CHECK_DEADLOCK FALSE
