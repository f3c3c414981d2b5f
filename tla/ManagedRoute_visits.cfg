SPECIFICATION Spec
CONSTANTS
    Name = {app}
    App = app
    Pid = {p1}
    None = None
    Unwatchable = {p1}
    Route = {r1}
    Thread = {t1, t2}
    Poller = {w1}
    Stranger = Stranger
    Ops = {"visit"}
    AdoptsOrphans = TRUE
    StrangerComes = TRUE
SYMMETRY Symmetry
INVARIANTS
    SingleFlight
    VisitsNeverKill
    MarkerHeld
