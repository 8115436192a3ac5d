SPECIFICATION Spec
CONSTANTS
    long = long
    short = short
    Signals = {long}
    Passes = {p1, p2}
    NoTick = NoTick
    MaxCrashes = 0
    Prices <- TightPrices
    Setup <- TightSetup
PROPERTIES
    Monotonic
