\* The event queue of VSSIM and garbage collection.
CONSTANTS
    w1 = w1
    w2 = w2
    r1 = r1
    Commands = {w1, w2, r1}
    IsWrite = {w1, w2}
    Size = 3
SPECIFICATION Spec
INVARIANTS
    TypeOK
    
PROPERTIES
    FifoSpec
    FullQueueDrains
