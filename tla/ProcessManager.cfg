SPECIFICATION PmFairSpec
CONSTANTS
    Name = {n1, n2}
    Pid = {p1, p2}
    None = None
    Unwatchable = {p2}
INVARIANTS
    PmTypeOK
    NoStrandedChild
PROPERTIES
    Supervised
    DeathIsReported
