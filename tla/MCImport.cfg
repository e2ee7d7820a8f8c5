SPECIFICATION FairImportSpec
CONSTANTS
    c1 = c1
    c2 = c2
    t1 = t1
    Clients = {c1, c2}
    Tables = {t1}
    Rows <- MCFiles
    MaxPart = 2
    ReloadMayFail = FALSE
    None = None
    NoFile = NoFile
    Torn = Torn
    Schema <- MCSchema
    Predicates <- MCPredicates
    Requests <- MCRequests
    Null = Null
    NaN = NaN
INVARIANTS StrictPartsConform ScansReturnImports ReportForetells
PROPERTY ImportsReturn
