SPECIFICATION Spec
CONSTANTS
    Name = {a, b}
    Port = {1, 2, 3}
    Range = {1, 2}
    Contested = {3}
    Roamed = {2}
    Asked <- Mixed
    Client = {c1, c2}
    Nobody = Nobody
    Stranger = Stranger
    Bridge = Bridge
    None = None
SYMMETRY Symmetry
INVARIANTS
    CallbackIsExclusive
    ListenersMatchRoutes
    BoundPortsAreDistinct
