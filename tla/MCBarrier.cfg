SPECIFICATION FairSpec
CONSTANTS
    N = 4
    Topologies <- AllTopologies
    Kinds = {"plain", "forkjoin"}
    Icvs = {1, 2}
    MaxRounds = 2
INVARIANTS
    TypeOK
    FlagsInStep
    ReductionComplete
    ArrivalWakesItsWaiter
    ReleaseReachesEveryone
PROPERTIES
    Implements
    IcvInheritedFixed
