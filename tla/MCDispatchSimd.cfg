CONSTANTS
    N = 3
    NumBuffers = 2
    Bits = 5
    IndexBits = 2
    Programs <- SimdLoop
SPECIFICATION Spec
PROPERTIES Implements
