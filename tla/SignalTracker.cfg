SPECIFICATION FairSpec
CONSTANTS
    long = long
    short = short
    Signals = {long, short}
    Passes = {p1}
    NoTick = NoTick
    MaxCrashes = 1
    Prices <- MCPrices
    Setup <- MCSetup
INVARIANTS
    TypeOK
    LadderOrder
    EventChain
    BreakEvenUnlessCrash
PROPERTIES
    ImplementsLifecycle
    ExpiryEnforced
    StopEnforced
