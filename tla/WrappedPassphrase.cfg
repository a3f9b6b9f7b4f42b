SPECIFICATION Spec
CONSTANTS
    Proc = {p1, p2}
    Wrapping = {w1, w2, wlong, wempty}
    TooLong = {wlong}
    Empty = {wempty}
    First = first
    None = none
    Faults = {"nss", "readClear", "unlink", "create", "write", "addkey", "kill"}
SYMMETRY Symm
INVARIANTS UnwrapExact PassphraseInHand NothingLost
