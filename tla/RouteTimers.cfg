SPECIFICATION FairSpec
CONSTANTS
    Reg = {l1, l2, k1, i1, n1}
    Ttl = {l1, l2}
    Tracked = {k1}
    Idle = {i1}
    Client = {c1,c2}
    None = None
INVARIANTS
    TypeOK
    TtlIsCancellable
    IdleIsGoverned
PROPERTIES
    UndisturbedExpires
CHECK_DEADLOCK FALSE
