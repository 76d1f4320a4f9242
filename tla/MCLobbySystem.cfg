CONSTANTS
    Client = {c1, c2}
    Lobby = {l123}
    NoLobby = NoLobby
    Id = {i1, i2}
    NoId = NoId
    ListLimit = 8
    MaxQueued = 1
    Process = {p1, p2}
    NoConn = NoConn
    MenuRequest <- Buttons
    MaxOnTheWay = 1
    MaxOthers = 1
SPECIFICATION SysSpec
SYMMETRY Symmetry
VIEW Seen
INVARIANTS SysTypeOK ViewFollows ListStaysComplete FounderMissesNobody
