\* Boot, tick, halt, crash and stop with up to two groups.
SPECIFICATION Spec
CONSTANTS
    k1 = k1
    k2 = k2
    NoPin = NoPin
    Torn = Torn
    Key <- TwoKeys
    Hash <- Parity
    Counts = {1, 2}
    Cap = 2
INVARIANT TypeOK
INVARIANT KeysStayHome
INVARIANT StopIsFinal
PROPERTY EveryGroupTicks
PROPERTY StopReturns
\* A crash while the pin is written leaves a file that refuses every start.
CHECK_DEADLOCK FALSE
