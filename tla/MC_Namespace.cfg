\* Names, link counts, orphans, checkpoints and power failures.
CONSTANTS
    n1 = n1
    n2 = n2
    t1 = t1
    t2 = t2
    i1 = i1
    i2 = i2
    i3 = i3
    Root = r
    Inos = {r, i1, i2, i3}
    Threads = {t1, t2}
    Names = {n1, n2}
    Hash <- MCHash
    Slots <- MCSlots
    MaxDepth = 3
    Buckets <- MCBuckets
    BucketBlocks = 1
    BlockSlots = 2
    MaxOrphans = 2
    MaxOps = 4
SPECIFICATION Spec
SYMMETRY Symmetry
INVARIANTS
    TypeOK
    SavedTreeConsistent
    OrphanCount
    NamesFound
PROPERTY NothingLeaks
