CONSTANTS
    Client = {c1, c2, c3}
    Lobby = {l1, l2}
    NoLobby = NoLobby
    Id = {i1, i2, i3}
    NoId = NoId
    ListLimit = 2
    MaxQueued = 2
SPECIFICATION Spec
SYMMETRY Symmetry
INVARIANTS TypeOK RegistryExact MembershipTold NothingStranded
PROPERTIES NoticesReachTheGroup ImplementsLobbies
