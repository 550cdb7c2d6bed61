SPECIFICATION MsgSpec
CONSTANTS
    Main = Main
    A = A
    B = B
    None = None
    Idle = Idle
    Threads = {Main, A, B}
    Mutexes = {}
    WaitQueues = {"send", "recv"}
    Alarms = {a1}
    MaxPrio = 2
    InitPrio <- MainHigh
    InitDetached = {}
    ThreadCalls <- Mailing
    HandlerCalls = {"trySend", "sleep"}
    MaxSuspend = 1
    MaxLocks = 2
    MaxScanDepth = 4
    MsgCount = 2
    Messages = {1, 2}
INVARIANTS
    NoLostWakeup
    QueuedByState
    LifeCycleSound
PROPERTIES
    ImplementsDeque
