SPECIFICATION AllSpec
CONSTANTS
    WindowBytes = 4
    BitsPerByte = 1
    SeqMod = 11
    MaxKex = 8
    MaxQueued = 3
    MaxSwitches = 2
    MaxBreaks = 1
    MaxEarly = 2
    MaxQueue = 3
    Settings <- SomeSettings
    ForeignAnswers <- OddAnswers
    SenderLzo = FALSE
    Sizes = {1, 1000}
    MaxKeys = 2
    MaxSent = 2
    Systems = {"window", "stream", "exchange", "keys", "datagrams", "mtu"}
INVARIANTS
    NoReplay
    LateStillAccepted
    NothingRefused
    OldKeysAreReplaced
    DatagramsFit
PROPERTIES
    ExchangeEnds
    KeysAreFound
    DatagramsPass
    MtuSettles
CHECK_DEADLOCK FALSE
