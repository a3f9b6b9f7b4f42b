SPECIFICATION Spec
CONSTANTS
    Walks <- TwoKeyWalks
    MaxKeys = 2
    Faults = {}
CHECK_DEADLOCK FALSE
INVARIANT BothKeys
