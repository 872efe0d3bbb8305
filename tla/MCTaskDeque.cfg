SPECIFICATION DequeSpec
CONSTANTS
    Owner = o
    Thieves = {p, q}
    InitialSize = 4
    MaxTasks = 7
INVARIANTS
    DequeTypeOK
PROPERTIES
    Implements
CHECK_DEADLOCK FALSE
