SPECIFICATION FairSpec
CONSTANTS
    Threads = {idle, a, b}
    Idle = idle
    First = a
    MaxPosted = 2
CHECK_DEADLOCK FALSE
INVARIANTS
    CpuInv
    OneCpu
PROPERTIES
    LostOnlyInTail
    InterruptsHandled
    CurrentRuns
