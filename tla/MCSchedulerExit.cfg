SPECIFICATION Spec
CONSTANTS
    idle = idle
    worker = worker
    a = a
    b = b
    Threads = {idle, worker, a}
    Idle = idle
    Worker = worker
    Priority <- MCPriority
    MaxPriority = 2
    Addrs = {x}
    Values = {0, 1}
    DeviceAddrs = {}
    Exiting = {a}
    Null = Null
    Timeouts = {}
    MaxTime = 0
    MaxIrqs = 1
INVARIANTS
    SelectFindsThread
CHECK_DEADLOCK FALSE
