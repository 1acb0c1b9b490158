\* Checkpoints with a journal of one entry.
CONSTANTS
    e1 = e1
    e2 = e2
    e3 = e3
    b1 = b1
    b2 = b2
    Entries = {e1, e2, e3}
    Values = {0, 1}
    InitialValue = 0
    NoValue = NoValue
    SitBlocks = {b1, b2}
    BlockOf <- TwoAndOne
    JournalEntries = 1
    LogEntries = {e3}
    Layouts <- PlainOnly
    Layout0 <- Plain
    MaxVersion = 3
SPECIFICATION Spec
SYMMETRY Symmetry
INVARIANTS
    TypeOK
    CheckpointFound
    LiveCopiesUntouched
    JournalFits
PROPERTY AtomicSpec
