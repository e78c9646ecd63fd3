SPECIFICATION FairSpec
CONSTANTS
    Programs = {p1}
    Files = {f}
    FileOf <- SharedStdio
    Calls = {"read", "control"}
    Irps = {i1, i2}
    Null = Null
    MaxEvents = 2
INVARIANTS
    WaitEndsCompleted
PROPERTIES
    RequestsServed
CHECK_DEADLOCK FALSE
