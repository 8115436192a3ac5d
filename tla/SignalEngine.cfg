SPECIFICATION Spec
CONSTANTS
    cfg <- MCcfg
    MinM15 = 4
    MinM5 = 6
    MinRange = 4
    MinBias = 2
    BiasBars = 3
    Sessions <- MCSessions
    Day = 4
    Week = 28
    Shapes <- MCShapes
    LiveShapes <- MCLiveShapes
    Starts <- MCStarts
    MaxBars = 18
INVARIANTS
    TypeOK
    BreakAfterConfirmation
    EqualLevelsCover
    PlanHangsTogether
    NeverThrottled
PROPERTIES
    PivotsNeverRepaint
    LiveIsNoEvidence
