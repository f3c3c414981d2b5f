SPECIFICATION Spec
CONSTANTS
    Pid = {p1, p2}
    Cli = {c1, c2}
    None = None
    MaxEvents = 4
    Spare = 2
    Name = {n1, n2}
    Peered = {n2}
    Handler = {h1, h2}
    Boot = Boot
    Setup = Setup
    Client = {q1}
    Queries <- QueryMix
    NoReply = NoReply
INVARIANTS
    FilesNameTheServer
    RestartIsFresh
    CoveredNamesAreServed
    RepliesParse
PROPERTIES
    LoneBootOpensHTTPS
    AgentKeepsServing
    QueriesAreAnswered
CHECK_DEADLOCK FALSE
