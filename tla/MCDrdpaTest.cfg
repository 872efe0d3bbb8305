SPECIFICATION Spec
CONSTANTS
    Threads = {t1, t2, t3, t4}
    NoThread = NoThread
    Testers = {t4}
    Oversubscribed = {FALSE}
    MaxTicket = 4
INVARIANTS
    PollsInBounds
