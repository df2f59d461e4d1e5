SPECIFICATION FairSpec
CONSTANTS
    MaxKex = 14
    MaxWire = 1
    MaxLost = 1
    MaxGone = 0
    Senders = {2}
    Direct = TRUE
    Prompt = TRUE
PROPERTIES
    RequestIsAnswered
CHECK_DEADLOCK FALSE
