SPECIFICATION LiveSpec
CONSTANTS
    p1 = p1
    p2 = p2
    p3 = p3
    NoKey = NoKey
    Nobody = Nobody
    Proc = {p1, p2}
    Alias <- WithForce
    Configured <- WithForce
    ForceAliases <- OnlyForce
    Src <- MCForceSrc
    Dest <- MCForceDest
    Fekek <- MCFekek
    Fnek <- MCFnek
    Faults <- AllFaultsButProc
    MaxSessions = 2
INVARIANTS TypeOK NoStackedMount SuccessMeansInUse
PROPERTIES KeysRemovedAtZero ImplementsRefCount LockReleased
