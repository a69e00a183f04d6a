SPECIFICATION MCSpec
CONSTANTS
    Shipped <- MCShipped
    Override <- MCOverride
    Ordinary <- MCOrdinary
    Surveyed <- MCSurveyed
    MaxStatic = 3
    MaxTrace = 2
    MaxAged = 1
INVARIANTS RefusedTraceNamesNothing OneFactIsNotMalice BuiltWeighsLittle RowAgrees ExportsAgree
INVARIANTS RenamingHidesNothing SignatureIsVouchedFor
PROPERTY ReanalysisAgrees
CHECK_DEADLOCK FALSE
