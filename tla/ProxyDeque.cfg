SPECIFICATION ProxySpec
CONSTANTS
    Owner = o
    Thieves = {p}
    InitialSize = 2
    MaxTasks = 4
INVARIANTS
    GivenOnce
CHECK_DEADLOCK FALSE
