SPECIFICATION Spec
CONSTANTS
    Name = {a}
    Port = {1, 2, 3}
    Range = {1, 2}
    Contested = {3}
    Roamed = {}
    Asked <- Mixed
    Client = {c1}
    Nobody = Nobody
    Stranger = Stranger
    Bridge = Bridge
    None = None
PROPERTIES
    RefusedEditIsUndone
