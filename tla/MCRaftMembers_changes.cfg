SPECIFICATION LedSpec
CONSTANTS
    Node = {n1, n2, n3}
    n1 = n1
    n2 = n2
    n3 = n3
    None = None
    Noop = Noop
    Founders <- Pair
    Changes <- PairChanges
    CanTimeOut = {n2}
    Proposers = {n1, n2}
    Readers = {n1, n2}
    Crashable = {n1, n2}
    Width = 4
    MaxTerm = 2
    MaxLog = 3
    MaxReads = 1
VIEW View
INVARIANT MembersMatchLog
INVARIANT OneChangeInFlight
INVARIANT SafeUnlessEarly
INVARIANT CountedAcksAreFresh
INVARIANT OnlyLeadersHoldReads
CHECK_DEADLOCK FALSE
