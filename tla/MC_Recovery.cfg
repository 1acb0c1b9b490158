\* Two files and two threads that fsync(); one power failure.
CONSTANTS
    f1 = f1
    f2 = f2
    t1 = t1
    t2 = t2
    Files = {f1, f2}
    Threads = {t1, t2}
    MaxStamp = 3
    MaxPowerFailures = 1
    MaxLog = 2
    OrderedWrites = TRUE
    LateWrites = FALSE
    Overlaps = FALSE
    StaleBlocks = FALSE
SPECIFICATION Spec
SYMMETRY Symmetry
INVARIANTS
    TypeOK
    NoLostWakeup
    MountSucceeds
PROPERTIES
    
    RollsForward
