\* A session and a client without one against three nodes: retries, elections, a crash.
SPECIFICATION Spec
CONSTANTS
    n1 = n1
    n2 = n2
    n3 = n3
    s1 = s1
    s2 = s2
    None = None
    Node <- Trio
    Client <- Sessions
    Anonymous = {s2}
    Founder = n1
    Contacts = {n1, n2}
    CanWin = {n2}
    Crashable = {n1}
    Plans <- Storms
    Tries <- OnceOrTwice
    CompactAt = 2
    MaxTerm = 2
    MaxLog = 5
    MaxFailures = 2
INVARIANT TypeOK
INVARIANT ExactlyOnce
INVARIANT AnswersTrue
INVARIANT HistoryLinearizable
INVARIANT VerifyAccepts
CHECK_DEADLOCK FALSE
