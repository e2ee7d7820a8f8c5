SPECIFICATION Spec
CONSTANTS
    c1 = c1
    c2 = c2
    TypeNames = {t1}
    ConstraintNames = {c1, c2}
    ColumnChoices <- MCColumns
    CheckChoices <- MCChecks
    Operators = {"between", "greater", "less", "greater_equal", "less_equal", "other"}
    MaxRows = 1
    Lowest <- MCLowest
    Highest = 8
    None = None
INVARIANTS
    TypeOK
    PackageHonest
    SummaryHonest
    WholeBoundsSuffice
    EmptyRangeIsEmpty
SYMMETRY Symmetry
