SPECIFICATION Spec
CONSTANTS
    Name = {app}
    App = app
    Pid = {p1, p2}
    None = None
    Unwatchable = {}
    Route = {r1, r2}
    Thread = {t1}
    Poller = {w1}
    Stranger = Stranger
    Ops = {"visit","start","stop","idle","deregister","register"}
    AdoptsOrphans = FALSE
    StrangerComes = FALSE
SYMMETRY Symmetry
INVARIANTS
    ReachableByStop
