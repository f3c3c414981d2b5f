SPECIFICATION Spec
CONSTANTS
    Name = {a, w}
    Val = {v1, v2, t}
    Fleeting = {t}
    Worktree = {w}
    Writer = {h1, h2}
    None = None
    Unknown = Unknown
    MaxCrash = 1
SYMMETRY Symmetry
INVARIANTS
    TypeOK
    AloneIsKept
