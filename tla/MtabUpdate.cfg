SPECIFICATION Spec
CONSTANTS
    u1 = u1
    u2 = u2
    u3 = u3
    Root = Root
    Proc = {u1, u2, u3}
    UseMtab = TRUE
    Faults <- FaultNames
    MaxEntries = 2
SYMMETRY MCSymmetry
INVARIANTS MutualExclusion
PROPERTIES SuccessRecorded OnlyAppends LockRemoved
CHECK_DEADLOCK FALSE
