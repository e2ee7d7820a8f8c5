SPECIFICATION Spec
CONSTANTS
    c1 = c1
    c2 = c2
    t1 = t1
    t2 = t2
    r1 = r1
    r2 = r2
    Clients = {c1, c2}
    Tables = {t1, t2}
    Rows = {r1, r2}
    MaxPart = 2
    ReloadMayFail = FALSE
    None = None
    NoFile = NoFile
    Torn = Torn
SYMMETRY Symmetry
INVARIANT EmptyMeansNoData
