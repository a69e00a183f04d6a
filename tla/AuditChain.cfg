SPECIFICATION Spec
CONSTANTS
    Appenders = {a1, a2, a3}
    CheckpointEvery = 2
    MaxSeq = 4
    HasKey = TRUE
SYMMETRY AppenderSymmetry
CHECK_DEADLOCK FALSE
INVARIANTS ChainVerifies LossNeedsTwoWinners AnchorsHold
