SPECIFICATION Spec
CONSTANTS
    Requests <- MCRequests
    Batches <- MCBatches
    MaxRows = 5
    RowCounts = {0, 1, 2, 3, 4, 7, 10, 11}
    Critical = 90
    None = None
INVARIANTS
    BatchingInvisible
    WindowsPartition
    ExclusionIsShare
    GradesAgree
