SPECIFICATION Spec
CONSTANTS
    Main = Main
    A = A
    B = B
    None = None
    Idle = Idle
    Threads = {Main, A, B}
    Mutexes = {}
    WaitQueues = {w}
    Alarms = {a1, a2}
    MaxPrio = 2
    InitPrio <- MainLow
    InitDetached = {}
    ThreadCalls <- AlarmCalls
    HandlerCalls = {"wakeup", "resume", "setAlarm"}
    MaxSuspend = 1
    MaxLocks = 2
    MaxScanDepth = 4
INVARIANTS
    AlarmPumpFree
