SPECIFICATION Spec
CONSTANTS
    Models = {m1}
    MaxVersions = 4
    Threads = {t1, t2}
    Rows = {1}
    Fidelities = {1, 2}
    keep_recent_n = 0
    MaxProtected = 1
    None = None
INVARIANT OneCompaction
