\* F2FS_DA_MAP as built, with I/O errors; one thread at a time in each log.
CONSTANTS
    Segs = {s1, s2, s3}
    BlocksPerSeg = 2
    Logs = {0, 3}
    DataPages = {d1, d2}
    NodePages = {n1}
    NULL_SEGNO = NULL_SEGNO
    NULL_ADDR = NULL_ADDR
    ReservedSecs = 1
    MaxDirtySecs = 0
    DA_MAP = TRUE
    RacingWriters = FALSE
    Fitrim = FALSE
    IOErrors = TRUE
SPECIFICATION Spec
SYMMETRY Symmetry
INVARIANTS
    
    CheckpointConsistent
    CkptValidBlocksExact
