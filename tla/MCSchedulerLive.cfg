SPECIFICATION FairSpec
CONSTANTS
    idle = idle
    worker = worker
    a = a
    b = b
    Threads = {idle, worker, a}
    Idle = idle
    Worker = worker
    Priority <- MCOnePriority
    MaxPriority = 2
    Addrs = {x}
    Values = {0}
    DeviceAddrs = {}
    Exiting = {}
    Null = Null
    Timeouts = {1, 2}
    MaxTime = 2
    MaxIrqs = 1
INVARIANTS
    SleepsLongEnough
PROPERTIES
    DelayedWakes
    RoundRobinServes
