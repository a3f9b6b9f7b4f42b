SPECIFICATION Spec
CONSTANTS
    u1 = u1
    u2 = u2
    u3 = u3
    Root = Root
    Proc = {u1, u2}
    UseMtab = TRUE
    Faults <- OldFault
    MaxEntries = 3
INVARIANTS LockHasOwner
