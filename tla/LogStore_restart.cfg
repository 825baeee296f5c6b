SPECIFICATION Spec
CONSTANTS
    CompactAt = 2
    DiesBetween = {"compact"}
    MaxTerm = 2
    MaxIndex = 4
    MaxBatch = 2
    MaxRecords = 6
INVARIANT Restartable
