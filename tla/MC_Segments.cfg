\* Two data logs that steal segments from one another; no faults but a power failure.
CONSTANTS
    Segs = {s1, s2, s3}
    BlocksPerSeg = 2
    Logs = {1, 2}
    DataPages = {d1, d2}
    NodePages = {}
    NULL_SEGNO = NULL_SEGNO
    NULL_ADDR = NULL_ADDR
    ReservedSecs = 0
    MaxDirtySecs = 0
    DA_MAP = FALSE
    RacingWriters = FALSE
    Fitrim = FALSE
    IOErrors = FALSE
SPECIFICATION Spec
SYMMETRY Symmetry
INVARIANTS
    TypeOK
    CheckpointedBlocksIntact
    SitMatchesAddresses
    CheckpointConsistent
    SeglistExact
    VictimsAreDirty
    CkptValidBlocksExact
    CursegsWritable
    DirtySentriesComplete
