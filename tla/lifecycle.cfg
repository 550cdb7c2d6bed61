SPECIFICATION Spec
CONSTANTS
    Main = Main
    A = A
    B = B
    None = None
    Idle = Idle
    Threads = {Main, A, B}
    Mutexes = {}
    WaitQueues = {w}
    Alarms = {}
    MaxPrio = 2
    InitPrio <- MainLow
    InitDetached = {}
    ThreadCalls <- LifeCalls
    HandlerCalls = {}
    MaxSuspend = 1
    MaxLocks = 2
    MaxScanDepth = 4
INVARIANTS
    QueuedByState
    GuestRunsAsItself
    LifeCycleSound
    MostUrgentRuns
