SPECIFICATION LedSpec
CONSTANTS
    Node = {n1, n2, n3, n4}
    n1 = n1
    n2 = n2
    n3 = n3
    n4 = n4
    None = None
    Noop = Noop
    Founders <- Everyone
    Changes <- RivalChanges
    CanTimeOut = {n1, n2}
    Proposers = {n1, n2}
    Readers = {}
    Crashable = {}
    Width = 4
    MaxTerm = 3
    MaxLog = 3
    MaxReads = 0
VIEW View
INVARIANT LeaderCompleteness
CHECK_DEADLOCK FALSE
