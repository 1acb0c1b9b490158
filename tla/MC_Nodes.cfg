\* Allocation, writes, truncation, checkpoints and power failures.
CONSTANTS
    n1 = n1
    n2 = n2
    n3 = n3
    b1 = b1
    b2 = b2
    t1 = t1
    t2 = t2
    Nids = {n1, n2, n3}
    NatBlocks = {b1, b2}
    NatBlockOf <- TwoAndOne
    BlockAddrs = {1}
    NullAddr = NullAddr
    NewAddr = NewAddr
    NoValue = NoValue
    JournalEntries = 1
    AvailableNids = 3
    Threads = {t1, t2}
    MaxVersion = 3
    AddRace = FALSE
    FlushedLookups = FALSE
SPECIFICATION Spec
SYMMETRY Symmetry
INVARIANTS
    TypeOK
    
    
    JournalFits
    
 
