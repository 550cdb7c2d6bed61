SPECIFICATION Spec
CONSTANTS
    Fds = {f1}
    Natives = {n1}
    Sessions = {}
    Threads = {t1}
    MaxGen = 3
    MaxOps = 2
    None = None
INVARIANTS
    WokenWithOwnResult
    NoLostCall
    OneCallbackAtATime
PROPERTIES
    AnsweredWhileWaiting
    CallsComplete
