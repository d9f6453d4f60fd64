SPECIFICATION MCSpec
CONSTANTS
    PayloadMask = 2
    NonceSpace = 5
    Lens = {0, 1, 3}
    MaxBytes = 5
    MaxWire = 3
INVARIANTS
    NoOpenFailure
PROPERTIES
    ImplementsByteStream
    EverythingArrives
CHECK_DEADLOCK FALSE
