CONSTANTS
    Seeds <- MCSeeds
    Requests <- MCRequests
    Deliveries <- MCDeliveries
    Expand <- MCExpand
    Stream128 <- MCStream128
    Stream256 <- MCStream256
    BallBlock <- MCBallBlock
SPECIFICATION Spec
INVARIANTS WorstCaseFits SampledLikeFips MasksFresh RoundsExactly OnlySignedVerifies
CHECK_DEADLOCK FALSE
