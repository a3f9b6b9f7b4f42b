SPECIFICATION Spec
CONSTANTS
    Procs = {p1, p2}
    Dirs = {d1}
    OptLists <- MCOptLists
    Stacks <- MCStacks
    Known = {"t"}
    Faults = {"graph", "input", "open", "short", "mount", "umount", "unlink"}
    MaxTries = 2
    MaxMounts = 1
    MaxCells = 4
INVARIANTS MountOptsExact MountConfirmed CacheIsRecords KeysGone
SYMMETRY Symmetry
