\* An I/O error in the middle of a checkpoint.
CONSTANTS
    Segs = {s1, s2, s3, s4}
    BlocksPerSeg = 2
    Logs = {1, 3}
    DataPages = {d1, d2}
    NodePages = {n1}
    NULL_SEGNO = NULL_SEGNO
    NULL_ADDR = NULL_ADDR
    ReservedSecs = 0
    MaxDirtySecs = 0
    DA_MAP = FALSE
    RacingWriters = FALSE
    Fitrim = FALSE
    IOErrors = TRUE
SPECIFICATION Spec
SYMMETRY Symmetry
INVARIANT CheckpointedBlocksIntact
