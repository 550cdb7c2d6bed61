SPECIFICATION FairSpec
CONSTANTS
    Main = Main
    A = A
    B = B
    None = None
    Idle = Idle
    Threads = {Main, A}
    Mutexes = {}
    WaitQueues = {w}
    Alarms = {}
    MaxPrio = 2
    InitPrio <- MainMid
    InitDetached = {}
    ThreadCalls <- Naps
    HandlerCalls = {}
    MaxSuspend = 1
    MaxLocks = 2
    MaxScanDepth = 5
PROPERTIES
    KernelReturns
    IdleSleepersWake
