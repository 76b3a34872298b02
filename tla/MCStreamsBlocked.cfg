SPECIFICATION FairSpec
CONSTANTS
    Protocols = {"UNIX"}
    SendersA = {"a1"}
    SendersB = {"b1"}
    Sizes = {1, 4}
    HdrSize = 1
    Cap = 3
    MaxPayload = 2
    MaxCloses = 0
PROPERTY SendsReturn
CHECK_DEADLOCK FALSE
