SPECIFICATION FairSpec
CONSTANTS
    arrived = arrived
    go = go
    Flags <- MCFlags
    Go = go
    First = arrived
    Succ <- MCSucc
    FlagType <- MCFlagType
    Nudgers = {n1}
    NoFlag = NoFlag
    NoOne = NoOne
    Waiter = Waiter
    MaxRounds = 2
INVARIANTS
    TypeOK
    NoLostWakeup
    SleepBitOnlyInSuspend
    SleepLocInSuspend
    PoolCount
PROPERTIES
    ReleaseSeen
    ReapedWorkerLeaves
