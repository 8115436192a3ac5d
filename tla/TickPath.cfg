SPECIFICATION TickSpec
CONSTANTS
    Items <- TickItems
    MaxSize = 3
    CompactAbove = 1
    MaxDropped = 2
    Handlers = {h1, h2}
    MaxBatch = 2
    DeinitGuard = 1
    MaxQuotes = 4
    MaxFaults = 2
INVARIANTS
    TickTypeOK
    StorageBounded
    AnnouncedInOrder
    MissingOnlyDropped
PROPERTIES
    ImplementsFifo
CHECK_DEADLOCK FALSE
