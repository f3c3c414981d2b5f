SPECIFICATION Spec
CONSTANTS
    Name = {app}
    App = app
    Pid = {p1, p2}
    None = None
    Unwatchable = {}
    Route = {r1}
    Thread = {t1, t2}
    Poller = {w1}
    Stranger = Stranger
    Ops = {"visit", "start"}
    AdoptsOrphans = FALSE
    StrangerComes = FALSE
PROPERTIES
    StaleExitIgnored
