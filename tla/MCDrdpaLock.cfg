SPECIFICATION FairSpec
CONSTANTS
    Threads = {t1, t2, t3}
    NoThread = NoThread
    Testers = {t1, t2, t3}
    Oversubscribed = {FALSE}
    MaxTicket = 6
INVARIANTS
    TypeOK
    PollsInBounds
    HolderUpToDate
PROPERTIES
    Implements
    Served
