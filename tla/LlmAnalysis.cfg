SPECIFICATION LlmSpec
CONSTANTS
    j1 = j1
    j2 = j2
    Markets <- MCMarkets
    Lookback <- MCLookback
    Limit <- MCLimit
    MinCandles <- MCMin
    StaleAfter = 60
    Recent = 15
    Ticks <- MCTicks
    Setups <- MCSetups
    Answers <- MCAnswers
    Models = 2
    Jobs = {j1, j2}
    MaxAttempts = 2
    MaxStalls = 1
INVARIANTS
    NearTheTickRead
    CallsBounded
PROPERTIES
    AnalysisEnds
CHECK_DEADLOCK FALSE
