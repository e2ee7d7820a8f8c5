SPECIFICATION Spec
CONSTANTS
    Models = {m1, m2}
    MaxVersions = 4
    Threads = {t1, t2}
    Rows = {1}
    Fidelities = {1}
    keep_recent_n = 1
    MaxProtected = 1
    None = None
SYMMETRY Symmetry
INVARIANTS
    ChainIsForest
    CompactionSparesProtected
