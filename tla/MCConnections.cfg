SPECIFICATION AllSpec
CONSTANTS
    WindowBytes = 4
    BitsPerByte = 1
    MaxSeqno = 10
    SeqnoMod = 16
    Peers = {1, 2}
    Addresses = {1, 2, 3}
    Unroutable = {3}
    OutWorlds <- DialWorlds
    MaxTimeout = 2
    MaxCached = 2
    Enough = 1
    Daemon = {"a", "b"}
    Weight <- Weights
    AuthWorlds <- AuthSettings
    MaxGiveUps = 1
    Systems = {"window", "loop", "dials", "auth"}
INVARIANTS
    NoHammering
    EndsAgree
PROPERTIES
    OnceOnly
    EverythingIsRead
    DialsSettle
    NoRollback
    ConnectsIfItCan
CHECK_DEADLOCK FALSE
