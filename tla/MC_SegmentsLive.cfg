\* Progress of checkpoints and of garbage collection without F2FS_DA_MAP.
CONSTANTS
    Segs = {s1, s2, s3}
    BlocksPerSeg = 2
    Logs = {1, 4}
    DataPages = {d1}
    NodePages = {n1}
    NULL_SEGNO = NULL_SEGNO
    NULL_ADDR = NULL_ADDR
    ReservedSecs = 0
    MaxDirtySecs = 0
    DA_MAP = FALSE
    RacingWriters = FALSE
    Fitrim = FALSE
    IOErrors = FALSE
SPECIFICATION FairSpec
PROPERTIES
    CheckpointCompletes
    GcGetsCheckpoint
