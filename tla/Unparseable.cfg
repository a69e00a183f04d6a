SPECIFICATION MCSpec
CONSTANTS
    Shipped <- MCShipped
    Override <- MCOverride
    Ordinary <- MCOrdinary
    Surveyed <- MCSurveyed
    MaxStatic = 3
    MaxTrace = 2
    MaxAged = 1
INVARIANT UnparseableIsOutward
CHECK_DEADLOCK FALSE
