SPECIFICATION Spec
CONSTANTS
    Logs <- TwoLogs
    Founders <- Trio
    Heirs <- FourHeirs
    MaxBatch = 1
    CompactAt = 4
    LeaderCompactsAt = 5
    MaxCrashes = 1
    MaxInFlight = 3
INVARIANT TypeOK
INVARIANT DeliveredAtMostOnce
INVARIANT SnapshotStamped
INVARIANT MatchSound
CHECK_DEADLOCK FALSE
