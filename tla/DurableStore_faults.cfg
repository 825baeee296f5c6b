SPECIFICATION Spec
CONSTANTS
    Key = {k1, k2}
    Value = {v}
    Absent = Absent
    Threshold = 2
    Faults = {"write", "sync", "snapshot", "create", "close", "remove", "syncdir"}
    MaxSeq = 3
INVARIANT TypeOK
INVARIANT AckedOnDisk
INVARIANT SnapshotsExact
PROPERTY Promise
CHECK_DEADLOCK FALSE
