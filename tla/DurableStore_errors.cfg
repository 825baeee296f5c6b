SPECIFICATION Spec
CONSTANTS
    Key = {k1, k2}
    Value = {v}
    Absent = Absent
    Threshold = 2
    Faults = {"write", "sync"}
    MaxSeq = 3
PROPERTY ErrorMeansNotStored
CHECK_DEADLOCK FALSE
