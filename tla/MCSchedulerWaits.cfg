SPECIFICATION Spec
CONSTANTS
    idle = idle
    worker = worker
    a = a
    b = b
    Threads = {idle, worker, a, b}
    Idle = idle
    Worker = worker
    Priority <- MCPriority
    MaxPriority = 2
    Addrs = {x}
    Values = {0, 1}
    DeviceAddrs = {x}
    Exiting = {a, b}
    Null = Null
    Timeouts = {}
    MaxTime = 0
    MaxIrqs = 2
INVARIANTS
    SchedInv
    SearchMissesNone
    NoLostWakeup
PROPERTIES
    SwitchesToHighest
    ExitedNeverRuns
SYMMETRY Programs
CHECK_DEADLOCK FALSE
