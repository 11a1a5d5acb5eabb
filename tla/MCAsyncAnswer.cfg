\* Two calls with ids of their own, one with a prompt that is refused; the engine
\* may go down at any step.
CONSTANTS
    c1 = c1
    c2 = c2
    x = x
    y = y
    l1 = l1
    Client = {c1, c2}
    Id = {x, y}
    IdOf <- UniqueIds
    Loop = {l1}
    LoopOf <- OneLoop
    Bad = {c2}
    MaxOutputs = 2
    CanCrash = TRUE
    None = None
SPECIFICATION FairSpec
PROPERTIES
    WaitersAnswered
    CrashWakesRegistered
