SPECIFICATION Spec
CONSTANTS
    Candles = {c1}
    Handlers = {h1, h2}
    NoRow = NoRow
    NoOne = NoOne
    MaxSnapshots = 2
    MaxRevision = 0
    MaxFaults = 1
PROPERTIES
    ClosedImmutable
