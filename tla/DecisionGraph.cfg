SPECIFICATION Spec
CONSTANTS
    Walks <- MCWalks
    MaxKeys = 2
    Faults = {"keyring", "file", "input", "rsa"}
CHECK_DEADLOCK FALSE
INVARIANTS MountComplete PartialDetected  NoStaleSuggestion
PROPERTY WalkEnds
