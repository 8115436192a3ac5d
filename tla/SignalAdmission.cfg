SPECIFICATION Spec
CONSTANTS
    l1 = l1
    l2 = l2
    l3 = l3
    s1 = s1
    Signals = {l1, l2, l3, s1}
    Long = {l1, l2, l3}
    Confidence <- MCConfidence
    Near <- MCNear
INVARIANTS
    TypeOK
    OneOpenPerDirection
    LaterIsStronger
    ChecksStillHold
SYMMETRY MCSymmetry
CHECK_DEADLOCK FALSE
