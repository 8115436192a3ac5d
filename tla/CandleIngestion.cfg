SPECIFICATION FairSpec
CONSTANTS
    Candles = {c1}
    Handlers = {h1, h2, h3}
    NoRow = NoRow
    NoOne = NoOne
    MaxSnapshots = 2
    MaxRevision = 2
    MaxFaults = 2
INVARIANTS
    TypeOK
    ToldIsStored
    StreamedOnce
PROPERTIES
    ImmutableUnlessLate
    ClosedIsStored
