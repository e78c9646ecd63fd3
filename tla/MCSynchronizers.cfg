SPECIFICATION FairSpec
CONSTANTS
    Threads = {t1, t2, t3, t4}
    Kinds = {"mutex", "event", "auto_reset_event", "semaphore"}
    Timed = {t4}
    MaxRes = 2
INVARIANTS
    SyncInv
    MutualExclusion
    NoStuckWaiter
PROPERTIES
    LockProgress
