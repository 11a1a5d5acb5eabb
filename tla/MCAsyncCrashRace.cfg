\* One call, and an engine that may go down while another call is on its way in.
CONSTANTS
    c1 = c1
    c2 = c2
    x = x
    y = y
    l1 = l1
    Client = {c1, c2}
    Id = {x, y}
    IdOf <- UniqueIds
    Loop = {l1}
    LoopOf <- OneLoop
    Bad = {}
    MaxOutputs = 2
    CanCrash = TRUE
    None = None
SPECIFICATION FairSpec
PROPERTIES
    CrashHangsNobody
