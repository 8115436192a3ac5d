SPECIFICATION Spec
CONSTANTS
    Histories <- MCHistories
    Length <- MCLength
    From = 12
    To = 23
    MinM15 = 2
    Warmup = 2
    Setups <- MCSetups
    MaxStalls = 1
    MaxFaults = 2
INVARIANTS
    NoLookahead
CHECK_DEADLOCK FALSE
