SPECIFICATION FairSpec
CONSTANTS
    Node = {n1, n2}
    n1 = n1
    n2 = n2
    None = None
    Noop = Noop
    Commands = {}
    Big = {}
    PreVote = {n1, n2}
    CanTimeOut = {n1, n2}
    CanBeat = {}
    TransferTargets = {}
    Crashable = {}
    MaxTerm = 2
    MaxLog = 0
PROPERTY SplitVoteRetried
