CONSTANTS
    Threads = {"th1", "th2", "th3"}
    Tasks = {"a", "b", "c", "d"}
    Addrs = {"x", "y"}
    Programs <- AllPrograms
    QueueSize = 1
    Races = {}
SPECIFICATION FairSpec
INVARIANTS TypeOK NothingDangles NothingLeaks
PROPERTIES Implements Terminates
CHECK_DEADLOCK FALSE
