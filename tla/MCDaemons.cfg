SPECIFICATION Spec
CONSTANTS
    Callers = {"c1", "c2", "c3"}
    Services = {"s1", "s2"}
    Listener = "s1"
    MaxCalls = 1
    Launchers = {"t", "u"}
    Images <- Offered
    MaxLaunches = 2
    MaxCrashes = 1
    Clients = {"c"}
    Visitors = {"v"}
    HubSlots = 1
    Uids = {1, 2}
    RemoteUids = {2}
    Vms = {"PVM"}
    MaxDowns = 1
    MaxRegs = 2
    Workers = {"w1", "w2"}
    MaxSlots = 2
    MaxInvokes = 1
    MaxRefs = 3
    MaxTries = 0
    MaxMems = 1
    MaxFaults = 0
INVARIANTS
    OneRequest
    AnswersItsUid
    HandlesNameTheirObject
PROPERTIES
    
    NoRollback
CHECK_DEADLOCK FALSE
