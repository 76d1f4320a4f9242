SPECIFICATION FairSpec
CONSTANTS
    MaxMessages = 3
    InTime = 1
    OutTime = 1
    Short = 1
    Normal = 2
    Long = 2
    Longest = 2
    Address <- MCAddress
    Null = 0
    Mouse = {left}
    FrameTicks <- MCFrameTicks
    MaxGoback = 1
CHECK_DEADLOCK FALSE
INVARIANTS
    EngineTypeOK
    SceneOwned
    DragFollowsButtons
    OlderIsAhead
PROPERTIES
    RequestsAreServed
