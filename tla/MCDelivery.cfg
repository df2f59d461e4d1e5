SPECIFICATION AllSpec
CONSTANTS
    Node = {1, 2, 3, 4}
    Graphs <- SmallGraphs
    Systems = {"trees", "mesh", "journey"}
INVARIANTS
    TreeSpans
    TreesAgree
    Agreement
    ArrivesOrIsAnswered
    BroadcastOnce
PROPERTIES
    FloodEnds
    JourneyEnds
CHECK_DEADLOCK FALSE
