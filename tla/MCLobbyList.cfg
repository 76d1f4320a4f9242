CONSTANTS
    Client = {c1, c2, c3}
    Lobby = {l1}
    NoLobby = NoLobby
    Id = {i1, i2, i3}
    NoId = NoId
    ListLimit = 2
    MaxQueued = 2
SPECIFICATION Spec
SYMMETRY Symmetry
INVARIANT ListIsComplete
