SPECIFICATION Spec
CONSTANTS
    Fds = {f1, f2}
    Natives = {n1, n2}
    Sessions = {s1}
    Threads = {t1}
    MaxGen = 4
    MaxOps = 1
    None = None
INVARIANTS
    DescriptorsOwned
    PeerMeansConnected
