CONSTANTS
    Byte = 6
    OwnHold = 5
    Hold <- MCHold
    MaxAge = 6
SPECIFICATION Spec
INVARIANTS
    TypeOK
    LiveNeighborIsKept
    NeighborHearsFromUs
    SilenceIsNoticed
    StreamGarbledOnlyIfCrossed
