CONSTANTS
    Coins <- MCCoins
    Messages <- MCMessages
    Changes <- MCChanges
    Expand <- MCExpand
    HashG <- MCHashG
    HashH <- MCHashH
    Rkprf <- MCRkprf
    XofBlock <- MCXofBlock
    PrfBytes <- MCPrfBytes
    Algorithms <- MCAlgorithms
    Pieces <- MCPieces
    MaxCalls = 2
    ByteAt <- MCByteAt
SPECIFICATION PartsSpec
INVARIANTS WorstCaseFits SampledOnce WireFormat Decapsulates AbsorbedLikeFips OutputIsStream
PROPERTIES RoundsAreFips
CHECK_DEADLOCK FALSE
