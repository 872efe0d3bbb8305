CONSTANTS
    N = 3
    NumBuffers = 2
    Bits = 5
    IndexBits = 2
    Programs <- AllPrograms
SPECIFICATION FairSpec
INVARIANTS TypeOK BuffersApart LastIterationKnown
PROPERTIES Implements LoopsEnd
CHECK_DEADLOCK FALSE
