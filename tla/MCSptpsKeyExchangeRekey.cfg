SPECIFICATION FairSpec
CONSTANTS
    MaxKex = 14
    MaxWire = 1
    MaxLost = 0
    MaxGone = 0
    Senders = {1, 2}
    Direct = TRUE
    Prompt = TRUE
PROPERTIES
    ForcedExchangeEnds
CHECK_DEADLOCK FALSE
