SPECIFICATION FairSpec
CONSTANTS
    N = 3
    Nestable = TRUE
    MaxDepth = 2
INVARIANTS
    TypeOK
    OwnerNamesHolder
    QueueLinked
PROPERTIES
    Implements
    Served
