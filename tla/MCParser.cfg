SPECIFICATION Spec
CONSTANTS
    Names = {a, b}
    MaxStatements = 2
    MaxColumns = 2
    Unread = Unread
    None = None
INVARIANTS
    CleanProgramsWhole
    CleanProgramsResolve
    AcceptedTypesBuild
    EveryPassConsumes
PROPERTY ParserReturns
