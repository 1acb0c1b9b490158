\* F2FS_DA_MAP as built: a checkpoint with a prefree segment.
CONSTANTS
    Segs = {s1, s2, s3}
    BlocksPerSeg = 2
    Logs = {1, 4}
    DataPages = {d1}
    NodePages = {n1}
    NULL_SEGNO = NULL_SEGNO
    NULL_ADDR = NULL_ADDR
    ReservedSecs = 0
    MaxDirtySecs = 0
    DA_MAP = TRUE
    RacingWriters = FALSE
    Fitrim = FALSE
    IOErrors = FALSE
SPECIFICATION FairSpec
PROPERTY CheckpointCompletes
