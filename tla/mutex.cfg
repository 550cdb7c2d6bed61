SPECIFICATION Spec
CONSTANTS
    Main = Main
    A = A
    B = B
    None = None
    Idle = Idle
    Threads = {Main, A, B}
    Mutexes = {m1, m2}
    WaitQueues = {}
    Alarms = {}
    MaxPrio = 2
    InitPrio <- MainLow
    InitDetached = {}
    ThreadCalls <- MutexCalls
    HandlerCalls = {}
    MaxSuspend = 1
    MaxLocks = 2
    MaxScanDepth = 4
INVARIANTS
    TypeOK
    PendingExact
    QueuesSound
    MutexesConsistent
    OwnershipSound
    NoWaiterOnFreeMutex
    InheritsPriority
