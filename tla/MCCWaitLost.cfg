SPECIFICATION Spec
CONSTANTS
    Threads = {t1, t2}
    Codes = {1, 2}
    Events = {e1, e2}
    Msecs = {500}
    INFINITE = infinite
    Nsecs = {0, 500000000}
    MaxQueued = 1
INVARIANTS
    GivenSignalIsReported
