SPECIFICATION Spec
CONSTANTS
    Programs = {p1}
    Files = {f}
    FileOf <- SharedStdio
    Calls = {"read"}
    Irps = {i1}
    Null = Null
    MaxEvents = 1
INVARIANTS
    RequeueFindsIrp
CHECK_DEADLOCK FALSE
