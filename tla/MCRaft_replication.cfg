SPECIFICATION Spec
CONSTANTS
    Node = {n1, n2, n3}
    n1 = n1
    n2 = n2
    n3 = n3
    None = None
    Noop = Noop
    Commands = {x}
    x = x
    Big = {}
    PreVote = {}
    CanTimeOut = {n1, n2}
    CanBeat = {}
    TransferTargets = {}
    Crashable = {n3}
    MaxTerm = 2
    MaxLog = 2
SYMMETRY Symmetry
VIEW View
INVARIANT TypeOK
INVARIANT ElectionSafety
INVARIANT LogMatching
INVARIANT LeaderCompleteness
INVARIANT Durability
INVARIANT MatchIndexSound
PROPERTY VotesAreDurable
PROPERTY OneHistory
