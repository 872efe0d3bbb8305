SPECIFICATION FairSpec
CONSTANTS
    m = m
    a = a
    b = b
    Master = m
    Workers = {a, b}
    Nobody = Nobody
    Gathers <- MCGathers
    DequeSize = 1
    MaxTasks = 2
    MaxRounds = 3
INVARIANTS
    TypeOK
    UnfinishedExact
    TeamsApart
PROPERTIES
    Implements
