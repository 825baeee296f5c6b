SPECIFICATION Spec
CONSTANTS
    CompactAt = 2
    DiesBetween = {"compact", "install"}
    MaxTerm = 2
    MaxIndex = 4
    MaxBatch = 2
    MaxRecords = 6
INVARIANT TypeOK
INVARIANT DiskMatchesMemory
INVARIANT RefusedOnlyHalfway
PROPERTY NothingLost
CHECK_DEADLOCK FALSE
