SPECIFICATION AllSpec
CONSTANTS
    Daemon = {1, 2, 3, 4}
    MaxConns = 3
    Setups <- AllSetups
    MaxBreaks = 1
    MaxCrashes = 0
    Data = {1, 2}
    DataOf <- SameData
    Node = {1, 2, 3}
    Settings <- AddressSettings
    DefaultMtu = 3
    MaxMail = 2
    Systems = {"mesh", "keys", "subnets", "addresses"}
INVARIANTS
    OwnEdgesMatchConnections
    OneActiveConnection
    PhantomsVanish
    TunnelIsolation
    KeysAgree
    SubnetsAgree
    AddressesHold
CHECK_DEADLOCK FALSE
