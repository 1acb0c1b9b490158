\* F2FS_DA_MAP as built, with two threads in one log.
CONSTANTS
    Segs = {s1, s2, s3, s4}
    BlocksPerSeg = 2
    Logs = {0, 3}
    DataPages = {d1, d2}
    NodePages = {n1}
    NULL_SEGNO = NULL_SEGNO
    NULL_ADDR = NULL_ADDR
    ReservedSecs = 0
    MaxDirtySecs = 0
    DA_MAP = TRUE
    RacingWriters = TRUE
    Fitrim = FALSE
    IOErrors = FALSE
SPECIFICATION Spec
SYMMETRY Symmetry
INVARIANT SitMatchesAddresses
