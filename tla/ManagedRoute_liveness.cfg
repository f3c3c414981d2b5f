SPECIFICATION FairSpec
CONSTANTS
    Name = {app}
    App = app
    Pid = {p1, p2}
    None = None
    Unwatchable = {}
    Route = {r1}
    Thread = {t1}
    Poller = {w1, w2}
    Stranger = Stranger
    Ops = {"visit"}
    AdoptsOrphans = FALSE
    StrangerComes = FALSE
PROPERTIES
    AutoStartReleased
    DeathFlipsRoute
