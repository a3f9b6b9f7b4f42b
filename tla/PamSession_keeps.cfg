SPECIFICATION PamSpec
CONSTANTS
    s1 = s1
    s2 = s2
    s3 = s3
    NoKey = NoKey
    Nobody = Nobody
    Proc = {s1, s2, s3}
    Default = "Private"
    Alias <- OneAlias
    Configured <- OneAlias
    ForceAliases <- NoAlias
    Src <- MCSrc
    Dest <- MCDest
    Fekek <- MCFekek
    Fnek <- MCFnek
    AutoMount = TRUE
    AutoUmount = TRUE
    Faults <- NoFaults
    PamFaults <- NoFaults
    MaxSessions = 3
SYMMETRY MCSymmetry
INVARIANTS SessionKeepsDirectory
