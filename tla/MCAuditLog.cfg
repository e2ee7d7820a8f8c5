SPECIFICATION Spec
CONSTANTS
    Operations <- MCOperations
    Actors <- MCActors
    Metadatas <- MCMetadatas
    Times = {1, 2}
    MaxRecords = 4
INVARIANTS
    ChainVerifies
    NoForks
    AlterationsFound
    ScanIsPrefixOfInterval
CHECK_DEADLOCK FALSE
