SPECIFICATION Spec
CONSTANTS
    Threads = {t1, t2}
    Keys = {k1, k2}
    Data = {d1}
    Inodes = {i1, i2, i3}
    kMaxCacheSize = 1
    Writers = {"save", "atomic"}
    None = None
    Torn = Torn
SYMMETRY Symmetry
INVARIANTS
    CheckpointsAreComplete
    AckedDurable
    CacheCoherent
    CacheWellFormed
    BlobsKeepTheirKeys
