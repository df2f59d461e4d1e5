SPECIFICATION AllSpec
CONSTANTS
    Node = {1, 2, 3, 4}
    Graphs <- SmallGraphs
    IntMod = 32
    KeyCuts = 1
    MaxKeys = 4
    MaxSteps = 4
    HandChanges = 2
    Joiner = {1, 2}
    Invitee = {"x", "y"}
    Settings <- InviteSettings
    MaxInvites = 2
    MaxStarts = 2
    MaxReloads = 1
    MaxAges = 1
    MaxCuts = 1
    VarFlags <- ConfigVariables
    Edits <- Commands
    HandEdits <- SomeHandEdits
    FirstFiles <- FirstConfig
    Options <- CommandLine
    LowerCase <- SmallLetters
    MaxEdits = 3
    Client = {1, 2}
    Runs <- TalkRuns
    Levels <- SomeLevels
    Lengths = {1}
    Mesh = {1, 2}
    Me = 1
    LogBuffer = 2
    PcapBuffer = 3
    Room = 4
    DataSizes = {3}
    MaxEvents = 2
    MaxKills = 1
    Systems = {"routes", "algorithms", "stream", "invitations", "config", "keys",
               "messages", "control"}
INVARIANTS
    ViaIsDirect
    PacketsArrive
    RoutesAreBest
    PacketsAreComputedRight
    FramesComeOut
    InvitationsHold
    ConfigurationHolds
    FsckIsHonest
    WrittenIsRead
    ConversationsFit
CHECK_DEADLOCK FALSE
