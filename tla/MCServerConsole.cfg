CONSTANTS
    Session = {s1, s2}
    NoSession = NoSession
    MinCapacity = 1
    QueueMax = 3
    HelpLines = 2
SPECIFICATION FairSpec
INVARIANTS ConsoleTypeOK LogIntact RegistryLive BroadcastReachesAll EndsLast
PROPERTIES QuitEnds
CHECK_DEADLOCK FALSE
