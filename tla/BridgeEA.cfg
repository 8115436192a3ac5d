SPECIFICATION FairSpec
CONSTANTS
    FirstBars = 1
    MaxBars = 5
    MaximumBatchSize = 2
    MaxQueue = 3
    HistoryBars = 1
    MaxFaults = 4
INVARIANTS
    TypeOK
PROPERTIES
    LossesExplained
    Delivered
