SPECIFICATION Spec
CONSTANTS
    ann = ann
    bob = bob
    cas = cas
    r1 = r1
    bm = bm
    None = None
    Machine = {ann, bob, cas}
    Inviter = {ann, bob}
    Initiator = {ann, cas}
    Watcher = {ann}
    Followed = {ann, bob}
    Route = {r1, bm}
    Bookmark = {bm}
    NameOf <- HostNames
    NoInvite = 0
    MaxCommands = 4
    MaxFaults = 1
INVARIANTS
    AckedPinsAreDurable
    PinsHaveACause
    SpentCodesAreDead
    RelaysReachTheSource
PROPERTY
    CachesCatchUp
CHECK_DEADLOCK FALSE
