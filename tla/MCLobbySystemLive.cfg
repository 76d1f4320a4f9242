CONSTANTS
    Client = {c1, c2}
    Lobby = {l123}
    NoLobby = NoLobby
    Id = {i1, i2}
    NoId = NoId
    ListLimit = 8
    MaxQueued = 0
    Process = {p1}
    NoConn = NoConn
    MenuRequest <- Buttons
    MaxOnTheWay = 1
    MaxOthers = 0
SPECIFICATION FairSysSpec
PROPERTIES MembershipShown CutIsNoticed
