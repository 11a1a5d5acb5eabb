\* Two calls with ids of their own on one event loop, up to three tokens each,
\* hang-ups, a crash of the engine and a shutdown at any point.
CONSTANTS
    c1 = c1
    c2 = c2
    x = x
    y = y
    l1 = l1
    Client = {c1, c2}
    Id = {x, y}
    IdOf <- UniqueIds
    Loop = {l1}
    LoopOf <- OneLoop
    Bad = {}
    MaxOutputs = 3
    CanCrash = TRUE
    None = None
SPECIFICATION Spec
INVARIANTS
    TypeOK
    StreamIsExact
    NoOrphanedWork
