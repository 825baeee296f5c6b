SPECIFICATION Figure8Spec
CONSTANTS
    Node = {n1, n2, n3}
    n1 = n1
    n2 = n2
    n3 = n3
    None = None
    Noop = Noop
    Commands = {b}
    b = b
    Big = {b}
    PreVote = {n2, n3}
    CanTimeOut = {n1, n2, n3}
    CanBeat = {n3}
    TransferTargets = {n2}
    Crashable = {n2}
    MaxTerm = 4
    MaxLog = 0
VIEW View
INVARIANT NeverContradicted
INVARIANT LeaderHintSound
PROPERTY OneHistory
PROPERTY PreVoteGatesCampaigns
