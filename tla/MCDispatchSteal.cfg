CONSTANTS
    N = 2
    NumBuffers = 2
    Bits = 5
    IndexBits = 2
    Programs <- WrongLoop
SPECIFICATION Spec
INVARIANTS AssertionsHold
