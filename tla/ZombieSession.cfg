SPECIFICATION FairSpec
CONSTANTS
    h1 = h1
    h2 = h2
    c1 = c1
    Placeholder = {h1, h2}
    Caller = {c1}
    Sid <- MCSid
    Slots = 2
    RetryLimit = 1
    Other = other
    Null = null
    Faults = {"shm", "kill", "sem"}
INVARIANTS MutualExclusion TableExact KillsPlaceholder
PROPERTY CallsReturn
